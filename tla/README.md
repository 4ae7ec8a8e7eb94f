# CraftOS-Pico2 in TLA+

CraftOS-Pico2 runs a CraftOS (ComputerCraft) computer on an RP2350 board: a Lua
machine, a text display, USB keyboards and a file system, as FreeRTOS tasks on two
cores. This directory models the parts of the firmware in which several tasks, or
several calls, have to agree on shared state, checks the models with TLC, and
proves what matters most of them with TLAPS. Paths below are relative to
`src/src/` of the repository.

## 1. The system

| Component | State | Operations | Talks to |
|---|---|---|---|
| Event loop: `event.cpp`, `machine.cpp`, `os_queueEvent` | the hardware queue (256 events), the Lua thread `paramQueue`, the coroutine and its filter | `event_push`, `event_push_isr`, `event_wait`, `getNextEvent`, `os.queueEvent` | every driver task sends, the main task receives |
| Timers: `apis/os.cpp` | `nextTimerID`, the list `timer_ll_head/tail`, FreeRTOS timer objects | `os.startTimer`, `os.cancelTimer`, the callback `timer`, alarms | the timer daemon runs the callback; events |
| Keyboard: `drivers/hid.cpp` | `prev_report`, `keypress_time`, modifiers, caps lock | `process_kbd_report`, `repeat_timer`, mount and unmount | the USB host task and a timer; events |
| Terminal: `modules/terminal.cpp`, `drivers/screen.cpp` | `screen`, `colors`, `palette`, cursor, `changed`, `framebuffer`, `screen_sem` | write, blit, clear, scroll, cursor, `terminal_task`, the blink timer, `screen_task` | the main task writes, three tasks draw, none locks |
| Term API: `apis/term.cpp` | cursor position, current colors | the `term` functions | the terminal |
| fs API: `apis/fs.c` | `free_space_cache`, littlefs's tree | list ... copy, move, delete, open | littlefs and mmfs |
| File handles: `apis/fs_handle.c` | one `FILEHANDLE` per open file | read, readLine, write, flush, seek, close | littlefs and mmfs |
| ROM file system: `modules/mmfs.c` | `fds[128]`, `dirs[16]` | open, close, read, seek, opendir, ... | the ROM image |
| Flash driver: `apis/fs.c` | `psramActive` | read, program, erase, sync | littlefs calls it; the other core is stopped |
| Allocator: `machine.cpp` | PSRAM and SRAM heaps, `forceLocalAlloc` | `l_alloc`, `lua_newuserdata_no_psram` | Lua; `fs.open` |
| Redstone, peripherals, label, clock, mouse | pins, a few values | get and set | Lua |
| Boot: `main.cpp` | task handles | `app_main`, `main` | creates the rest |

### Scheduling

This decides what can interleave, and every model follows it.

* `configUSE_PREEMPTION` is 0 (`FreeRTOSConfig.h:85`): a task keeps its core until it
  blocks or yields. There are two cores (`:507`), so two tasks do interleave.
* `configRUN_MULTIPLE_PRIORITIES` is 0 (`:510`): tasks of different priority are not
  on the two cores at one time. The models that depend on this have a constant
  `Overlap`; the configuration of this repository is `Overlap = FALSE`. A property
  proved without that assumption also covers the other setting.
* The timer daemon runs the callbacks of all software timers, one after another.
* The USB host task and the timer daemon may run on two cores together.
* Priorities: timers, terminal task and USB host 4, the main task 3, the screen task 1.
  Nothing preempts, so as long as a program computes without waiting for an event
  (`event_wait`) the tasks of other priorities get no core, the terminal and the screen
  task included.
* Only the main task runs Lua, so an `fs` call is not interleaved with another.

### What is hard, and what would be correct

* Events. Every task creates the queue on demand, without a lock; the loop moves
  events from one queue to another and drops on two grounds (a filter, a full
  queue). Correct: one queue, no event out of order or repeated, `terminate` passes
  every filter, a pull with a wanted event comes back.
* Timers. Two tasks share a list without a lock, one of them waiting inside for room
  in a queue the other empties. Correct: an event per timer, none after a cancel, no
  use of freed nodes, no task waiting for itself.
* Keyboard. One memory for all keyboards, two memories for one report. Correct: every
  press released once, the program's idea of the keys that of the keyboard.
* Terminal. A flag and a semaphore tell three tasks to draw; each is cleared at some
  point before, after or during the work. Correct: no update lost for good.
* Term API. One-dimensional arrays for a two-dimensional window, a cursor that may be
  anywhere, text of any length; a palette of two bits a component. Correct: text falls
  where the window says, nothing outside the arrays is written, a color reads back as
  it was set or close to it.
* Reading. Binary search, lines longer than the buffer, seeks to anywhere. Correct: a
  path gives what the image has under it, no byte is lost between two reads.
* Memory. Lua lives in PSRAM behind a cache, and every write to flash takes the PSRAM
  off the bus. Correct: no changed cache line is thrown away, what littlefs uses while
  the PSRAM is away lies in SRAM, each block is freed by its own allocator.
* Files. Calls that fail half way, handles that are not closed, a cache, tables of
  fixed size. Correct: no gap in the tree, no descriptor shared or lost, no stale
  number.

`PROJECT.json` lists these hazards one by one at their lines.

## 2. The modules

### EventLoop, EventInbox, EventLoopInbox

`EventLoop` has the two queues, the main task's place (`run` inside `lua_resume`,
`wait` in `getNextEvent`, `dead` after the coroutine ended) and its filter.
`EventPush` is a send by a driver or by `os.startTimer(0)`, dropping when the queue
is full; `QueueEvent` is `os.queueEvent`; `Receive`, `Discard` and `Deliver` are the
three outcomes of one turn of `getNextEvent`'s loop; `Halt` is the end of the
program. An event is its source, its name and a number (`Numbered`) that exists only
to state order. `EventInbox` is what `os.pullEvent` promises: an inbox with the
program's own events in front, in which a pull forgets what it does not want and
takes the first event it does. `EventLoopInbox` gives the mapping from the two
queues to that inbox; `PullsFromInbox` says that `EventLoop` implements it, liveness
included.

`EventTasks` has what this module and the next one share: the tasks, and the length of
the queue.

### EventQueue

The same code one level down: each memory access of `event_push`, `event_push_isr`
and `event_wait` on the shared handle is a step (`Call` reads and tests, `Create`
calls `xQueueCreate`, `Store` assigns, `Send` or `Block` uses the handle read again).
`Cores` bounds how many tasks are inside. Queues are numbered and hold a count.

### Timers

The main task in `os_startTimer` (`StartTimer`, `StartSend`, `StartLink`, `StartNow`)
and in `os_cancelTimer` (`CancelTimer`, `CancelStop`, `CancelDelete`,
`CancelUnlink`), split where it may leave its core: at each command sent with
`portMAX_DELAY`. The callback (`Callback`, `CallbackUnlink`, `CallbackDelete`) runs in
the daemon, whose own loop (`DaemonWait` ... `DaemonCommand`) is external and modelled
from FreeRTOS's `prvTimerTask`. The list is pointers (`head`, `tail`, `next`), freed
nodes are known, and `fault` is set when one is used. `Schedule` gives and takes
cores; `Elapse` lets a timer run out. `cancelled`, `fired` and `stalled` are ghosts.

### Keyboard

`Report` is one boot report and the three loops of `process_kbd_report` (presses by
`keypress_time`, modifiers, releases by `prev_report`); `RepeatTimer` is the 100 ms
callback with its `absolute_time_diff_us`; `Unplug` is a keyboard pulled out;
`Tick` ages the presses. `SlotEvents` is one turn of the first loop. `down` and `mixed` are
ghosts: presses less releases per key code, and whether a report ever left a key out. Ages stop at the first one longer than 600 ms.

### Terminal

A row is a glyph and an attribute. The main task's calls are split at the stores:
the glyphs, then the colors, then `changed`. The terminal task tests the flag, clears
it, draws row by row and gives the semaphore; the blink timer tests the cursor's
color and toggles it in two steps; the screen task takes the semaphore and copies row
by row. Between its calls the main task is `idle`, running Lua; `Pull` blocks it in
`event_wait` and `Pulled` is the event. Without `Overlap` the other tasks begin and go
on only while it waits there, and `ScreenTake` needs that with `Overlap` too. `Looks`
leaves the palette out, because no flag announces a change of it.

### FileSys

The `fs` calls that change something. `fs` is littlefs's committed tree (directories,
and files with a size), `handles` the `FILEHANDLE`s with what they have not yet
committed, `fds` and `iters` the tables of mmfs, `cache` the tree that
`free_space_cache` was measured on. `MakeDir`, `Move`, `Copy`, `DeleteFile`,
`DeleteDirectory`, `Measure`, `OpenRom`, `OpenLfs`, `Write`, `Flush`, `Close` are the
functions. A directory's deletion is `aux_delete` entry by entry: `stack` holds its
calls on directories, each with the entries it has yet to read (`Frame`), `DeleteEntry`
is a turn of the loop, which removes a file or begins a call on a directory, and
`DeleteSelf` is what follows the loop. No other call runs meanwhile. `StackDepth`, a bound
of this model, is how many calls the stack holds; with more it has overflowed. `Drop` is a ROM handle forgotten by the program; `Restart` is the reset
button, or switching on again after an overflow. `fixpath` and `recurse_mkdir` are
operators. littlefs is external: from
its documented interface come what `lfs_mkdir`, `lfs_remove`, `lfs_file_sync` and the
open flags do, and that `lfs_dir_read` returns `.` and `..` as the first two entries.
What the code makes of it shows in the model: `Move` never moves (the C library's
`rename` knows neither file system), a copy needs its destination to exist, a
directory in flash copies to nothing, a file opened for reading is truncated
(`LFS_O_TRUNC` binds to every mode but `a`), and the deletion of a directory does
not end: its first entry is `.`, the directory itself, on which `aux_delete` is called
again. The model says this nowhere; it follows from `Dots`, the two entries of every
directory, and with `Dots` left out of `Frame` the loop, `lfs_remove` and every return are
reached, `DeleteReturns` holds and so do the invariants of the run FileSys.

### Mmfs, FileReader

`Mmfs` is `modules/mmfs.c` over an image given as constants: directories sorted by
name, and the bytes of all files one after the other, so that a read behind a file's
end meets the next file. `mmfs_traverse` is a machine with a step for each name
(`NextName`, `EndOfPath`) and each comparison (`Compare`, `Missing`), with the bounds
`l` and `h` of the code; `OpenDir`, `ReadDir`, `CloseDir` are the iterator with its
8-bit place (`OffsetRange`); descriptors are `[start, ptr, end]`, and `mmfs_open`,
`mmfs_lseek`, `mmfs_read` are operators on them. `FileReader` puts `fs.open`, `fs.list` and
the reading functions of a file object on top. `ReadLine` states the loop over chunks
in closed form: the last chunk is the first one with a newline that `found` shows, or
the first one that is short. Positions are addresses: the image stands at `Base`, and
`mmfs_read` adds the size to an address below `Word` (2^32), where the sum may go round
and the size is then not cut to the file (`Readable`). `read(count)` takes any integer,
and a negative one as a size of nearly `Word`. `malloc` and `realloc` may refuse any block and
give none of more than `Heap` bytes. Only `realloc`'s result is tested
(`ReadLineRefused`: a Lua error, and the chunks read are lost); a copy to a block that is
not there is a hard fault (`Halt`), after which the machine is switched off and on
(`Restart`). That Lua itself may lack the memory for a result is left out. `got` and
`from` are ghosts: the bytes given since the last seek, or since the last `readLine` that
ran out of memory. Descriptor and iterator tables, and files in flash, are in `FileSys`.

### TermApi, TermWindow

`TermApi` is `apis/term.cpp` over the arrays of `modules/terminal.cpp`: `memset`, `memcpy`
and `memmove` are `Set`, `Copy` and `Move` on functions from offsets to cells, `Put` is the
clipping shared by `terminal_write` and `terminal_blit`. `Moved` has the arguments of
`terminal_scroll`'s `memmove` and `memset`, `Scrolled` applies them to one array, and
`ScrollsInArray` compares what they write, read and fill with the array's bounds.
`overrun` records a copy, a move or a fill outside the array.
`Adjusted` and `Packed` are `term_setPaletteColor`'s choice of bits, `Quarters` is how
`term_getPaletteColor` reads them. `TermWindow` is what the API promises: a window of
cells and a cursor. `RefinesWindow` maps cell (x, y) to offset y * width + x. Where text
begins left of the screen the code copies from before the string (`Garbage`);
`TermWindow` leaves that row open and holds the code to the other rows. How the arrays
reach the panel is in `Terminal`.

### Psram

The allocator and the flash driver share the PSRAM. `NoPsram` and `Userdata` are the two
halves of `lua_newuserdata_no_psram`, with whatever Lua runs in between (finalizers,
which may open files themselves: `frames`); `Raise` is an error that leaves some of the
nested calls; `New`, `Grow` and `Collect` are Lua's other calls of `l_alloc`. `Enter` ...
`Leave` is a call of littlefs, inside which `FlashChanges` (program or erase) and
`flash_sync` happen in any number and order, since a full disk, an error or
`flash_safe_execute`'s timeout ends a call anywhere. `dirty` is whether the XIP cache
holds lines the PSRAM does not; `strayed`, `lost` and `escaped` are ghosts.

## 3. The runs

| Run | Question | Instance |
|---|---|---|
| EventLoop | order, separation of device and program events, refinement of `EventInbox`, `terminate` | 1 driver and the main task as senders, both queues 2 long, 2 names, 2 numbers per source |
| EventQueue | how many queues are made, and does a wait end | 3 tasks, 2 inside at a time, queues of 2 |
| Timers | at most one event per timer, use after free, the list's newest timer, the daemon waiting for itself, a cancel kept, every timer ended | 3 timers, 4 commands, 2 events |
| Keyboard | presses and releases add up, the program knows the keys | 2 keyboards, 3 keys of which two share a code, 1 modifier, 2 slots |
| KeyboardCtrlT | does holding Ctrl+T terminate | 1 keyboard; violated |
| Terminal | no update and no frame lost, the cursor's color, the display settles | 2 rows, 2 glyphs, 2 palettes |
| FileSys | gaps, descriptors, iterators, the cache | 7 paths, a ROM of 2 levels, 2 handles, 2 descriptors, 2 iterators, a stack of 7 |
| FileSysDelete | does `fs.delete` come back, the recursion of `aux_delete` step by step | the same; violated |
| FileSysRead | does a file opened for reading keep its contents | the same; violated |
| FileReader | lookups, listings, bytes and lines, every call returns | 3 directories of 4, 3 and 0 entries, names between and around theirs, files of 4, 9 and 0 bytes, chunks of 3, counts -1, 0, 4, 20 and 66, blocks of at most 10 bytes, addresses below 64 |
| TermApi | arrays not overrun, refinement of `TermWindow`, palette | 3 columns, 2 rows, 7 cursor places, 3 texts, 1 blit, scrolls by -3 to 3, 4 calls |
| Psram | handles in SRAM, blocks keep their heap, the flag restored, cache lines lost | with and without PSRAM, 3 blocks, 3 nested calls |

**Why these bounds.** Two-element queues are full, empty and in between, with senders
on both sides. Two numbers per source are enough for one order to be broken; the
theorem covers the rest. Three timers are the fewest for which the list loses a node
(the tail is not moved). Four commands are fewer than three starts and three cancels
need, so tasks wait for room. A report of two slots with three keys overflows; two
keyboards share `prev_report`; two keys share a code as 0x31 and 0x32 do. Two rows
have a row already drawn and one not yet. A ROM of two levels and two iterators make
one failed copy exhaust the table. Directories of 4, 3 and 0 entries have a search end
on each side of each entry; the lines of `FileReader` are of 0, 1, 2 and 3 bytes with
chunks of 3, so a newline falls first, inside, last and in the next chunk; `Reach` lets a
seek leave the image by two bytes. With addresses below 64 a count of -1 is a size of 63,
for which the address goes round; 20 is larger than a block; 66 is 2 as a size. The
longest run of chunks fits a block of 10. The paths of
`FileSys` name a tree of at most three levels, so a stack of 7 is deeper than any
descent that goes down at every call. The screen of `TermApi` is wider than one text and
narrower than two, and its cursor places lie left of, inside, right of, above and below
it; the scrolls are shorter than, as long as and longer than its height. Four calls set
a cursor, a color, write and then scroll or clear. Three nested
`fs.open` have one between an inner and an outer one; the theorems of `PsramProofs`
and `TermApiProofs` cover any number. The handles of `FileSys` are symmetric; no
temporal property is checked there.

`CHECK_DEADLOCK FALSE` is set where the system may stop: in `EventLoop` after the
program has ended with full queues and used-up numbers, in `Timers` when the
program has used up its timers, in `TermApi` when the program has made its calls.

**Findings.** The violated runs quote what the ROM's own help texts promise: Ctrl+T
without effect (`drivers/hid.cpp:305`), a directory's deletion that does not return
(`apis/fs.c:451`), and a file emptied by opening it to read (`apis/fs.c:540`).

The other models are weaker than one would wish where the code is; the properties
say exactly where:

* Two tasks can each make an event queue, and the main task may wait on the one that
  lost (`event.cpp:20`): `WaitEnds` assumes one queue.
* The third timer replaces the second in the list (`apis/os.cpp:96`): `NewestFound` is all
  that holds. A timer whose time is over before its start is handled fires although
  cancelled (`apis/os.cpp:108`): `CancelStopsActive` is about timers being counted down.
* Two keyboards share `prev_report`, so one reports the other's keys released
  (`drivers/hid.cpp:358`): `ProgramKnowsKeys` assumes one keyboard in use.
* An empty line, and a newline behind a full chunk, are glued to the line after
  (`apis/fs_handle.c:76`): `LinesWhole` leaves them out. `read(count)` ignores the count
  in mode `r`.
* A negative `read(count)` in mode `rb` asks `malloc` for nearly 2^32 bytes and does not
  test what it gets (`apis/fs_handle.c:118`), and `mmfs_read` does not cut that size
  (`modules/mmfs.c:139`): the machine stops. `NothingLost` is about the calls that come back,
  and does not count what a `readLine` loses that runs out of memory.
* `seek("end", n)` of a ROM file takes n away where littlefs adds it
  (`modules/mmfs.c:119`), and `readAll` behind the end asks for a negative size.
* Text that begins left of the screen is copied from before the string
  (`modules/terminal.cpp:120`): `TermWindow!PutFromLeft` promises only the other rows.
* The default palette is 16-bit, and `getPaletteColor` reads it as if it had been set
  by `setPaletteColor`: `PaletteClose` is about colors that were set.
* An error inside `lua_newuserdata` leaves `forceLocalAlloc` set for good
  (`machine.cpp:85`): `ForceReturns` says that is the only way.
* A littlefs call that ends without a sync leaves the PSRAM off the bus
  (`apis/fs.c:687`) while Lua goes on: `LostOnlyStrayed` says lines are lost only then.

**Fairness.** `EventLoop`: the main task goes on inside `getNextEvent`; nothing makes
drivers send or programs pull. `EventQueue`: a task on a core runs on. `Timers`: a task
on a core runs on, a ready task gets a core if one is free again and again (strong
fairness of `Schedule`: with cooperative scheduling a program that never yields
keeps the other task out), and time passes. `Keyboard`: the repeat timer is periodic.
`Terminal`: a call of the main task and a blink that have begun end (weak fairness); the
terminal task, which wakes every 30 ms, and the screen task go on if the main task is
blocked in `event_wait` again and again (strong fairness of `Waits /\ TerminalStep`,
`ScreenTake` and `Waits /\ ScreenCopy`). Between two calls the main task may compute for
ever, and then the model lets neither task run. `FileReader`: a call that has begun goes
on (`WF_vars(Inside)`): nothing in it waits. `EventQueue`'s weak fairness includes the
waking of a task whose queue has an event. `FileSys`, `TermApi` and `Psram` have safety only.

The liveness properties name what the code does not guarantee: `terminate` reaches a
program only if its own events run out (`TerminateReachesIdleProgram`), a timer ends
only if the main task leaves the core (`TimersEnd`), the display settles only if
the writing stops, the cursor does not blink, and the program waits for events again
and again (`DisplaySettles`): one that goes on computing keeps what it wrote from the
panel.

## 4. The proofs

| Theorem | What it says for every value of the constants |
|---|---|
| `EventProofs!TypeCorrect`, `OrderKept`, `DeviceEventsIsolated` | types; order per source through both queues; device events isolated |
| `EventProofs!ImplementsInbox` | every step of the two queues is a step of `EventInbox`, or none: the safety part of `PullsFromInbox` |
| `EventProofs!NeverNull`, `Settles`, `AtMostOnePerCore` | no NULL handle is used; a settled handle stays; no more queues than tasks inside |
| `TimersProofs!TimersTyped`, `NewestIsFound`, `FaultNeedsStall` | types; a cancel finds the newest timer; without overlap, freed memory is used only after a wait for room inside a cancel |
| `TimersProofs!TimersAreKept` | a timer that was started can still fire, has fired or was given up, whatever the list loses |
| `TimersProofs!TimersFireOnce`, `DaemonGoesOn`, `CancelIsKept` | one event per timer; the daemon never waits for itself; without overlap, a cancel of a running timer is final |
| `KeyboardProofs!KeyboardTyped`, `PressesBalance`, `KeysAreKnown` | types; presses and releases told add up to the last report; the program knows the keys that are down while the reports are the whole truth |
| `TerminalProofs!TypeCorrect`, `UpdatesDrawn`, `FramesShown`, `CursorHasColor` | types; no lost update; no lost frame; without overlap, a cursor that is on has a color |
| `FileSysProofs!FilesTyped`, `TreeStaysClosed` | types; no gap in the tree of littlefs, for any paths and ROM |
| `FileSysProofs!DescriptorsHeld`, `IteratorsBack` | a ROM descriptor in use is that of one handle, or of one dropped without close; iterators come back but behind a failed copy |
| `FileSysProofs!CacheStaysFresh` | the cached free space is that of the tree, unless a file is open or a failed call changed it |
| `FileReaderProofs!LookupFinds`, `SearchIsSound` | `mmfs_traverse` finds what the image has under a path and nothing else, for every image and path; the entry looked for lies between the bounds |
| `FileReaderProofs!BytesInOrder`, `LinesAreWhole`, `ListingsComplete` | no byte of a ROM file is left out or given twice by the calls that come back, whatever the counts; `readLine` gives whole lines, save where `found` is 0; `fs.list` gives every entry once, in order: for every image and chunk size |
| `FileReaderProofs!CallsEnd` | a lookup or a listing takes finitely many steps: each lowers a measure |
| `TermApiProofs!TypeCorrect`, `ArraysNotOverrun`, `PaletteIsClose`, `CursorIsShown`, `ArraysAreTheWindow` | types; nothing written, moved or filled outside the arrays, by scrolls of any number of lines either; colors within a quarter; the cursor shown where it is; the arrays implement the window, for every size |
| `PsramProofs!TypeCorrect`, `HandlesInSram`, `FlagComesBack`, `CacheIsFlushed`, `BlocksKeepTheirHeap` | types; handles in SRAM; the flag comes back; lines lost only when PSRAM was used off the bus; no block changes its heap |

The assumptions are the named `ASSUME`s of each module, which every run evaluates. The
strongest ones say what the build's data look like: the directories of the ROM image are
sorted (`mmfs_traverse` searches them by halves), entries stand behind the directories
they are in (`RomAssumption`, the order in which a walk meets them), a key code is 0
where a key has none, and keys and modifiers are finitely many. `MemoryAssumption` says how
the board's memory lies: the image in flash, from 16#10000000 on, and the largest block
`malloc` gives, added to any address in it, stay below 2^32. Which counts a program passes
to `read` is not restricted.

Recursion over a sequence (a path's tokens, the ROM's entries, the pieces that `FlattenSeq`
joins, the turns of a loop) is written as a recursive function. What it gives after n
turns is shown for every n with the library's well-founded order of the numbers: of the
numbers that lack the property none can be the least (`LeastNumber`, `UpTo`).

* `OrderKept`. Order alone is not inductive: a program's event is appended to
  `paramQueue`, in the middle of the pipe `paramQueue \o queue`. It keeps the order
  because the hardware queue holds no event of the program (`QueueFromSenders`), and
  a device event moves to `paramQueue` only when that is empty (`DeviceEventAlone`),
  so the move leaves the pipe as it is. `IInv` joins them with `TakenWasSent`: no
  number has left that was not sent.
* `ImplementsInbox`. `InboxShape` gives `own` and `outside` the closed form of `EventInbox`'s
  `Skip` in each place of the main task. What remains is how skipping meets the ends of
  a queue: an unwanted head is skipped with or without it (`SkipHead`, `SkipTail`), and an
  event arriving behind leaves what was found, or is found if nothing was (`SkipAppend`).
  Each action then is one lemma (`PushMaps` ... `DeliverMaps`).
* `AtMostOnePerCore`. `CountInv` counts the queues made plus the tasks about to make
  one: both together never exceed the tasks inside while the handle is NULL, nor
  `Cores` at any time.
* `NeverNull` needs that a task about to store holds a queue; `Settles` follows from it.
* `TimersFireOnce` follows a timer through its life (not yet sent, a start in the
  queue, counted down, fired): at most one of them can still fire it, whatever
  happens to the list. `DaemonGoesOn` rests on the daemon draining its queue before
  it runs callbacks. `CancelIsKept` adds that a cancelled timer that is counted down
  has its stop in the queue, ahead of any look at the clock; it holds for
  `~Overlap`.
* `TimersAreKept` (`NoTimerLost`) is the safety behind `TimersEnd`. `KeptInv` adds that a stop or a
  delete in the queue, and the callback, belong to a timer that is over; so the command
  that takes a timer out of the count never takes one that is still due. It needs
  neither the list nor the turns of the tasks.
* `NewestIsFound` is inductive in `ListInv`: two nodes at most can be reached
  (`ListShape`), the newest is one of them unless it is just being linked
  (`NodesKnown`), and a cancel's `last` stands before the node it unlinks (`CancelKnows`).
  It holds until the first fault, with any overlap; `TimersTyped` likewise.
* `FaultNeedsStall`. Without overlap a task that does not wait finishes before the other
  begins (`TurnInv`), so nodes, FreeRTOS objects and queued commands stay in step
  (`SafeInv`): a command names an object that lives, a delete is the last of its
  object (`QueueSafe`), and a node's object lives until its unlink (`ObjectsLive`). Room in
  the command queue is what a stall takes away, hence the property's premise.
* `PressesBalance`. Events are counted in the sequences the loops push, so `CountBoth` and
  `CountFlat` count a sequence by its pieces, and `SlotCard` turns slots into keys, which
  needs that a report names a key once. The three loops then tell the new keys, the
  changed modifiers and the gone keys, and `Difference` is the arithmetic of these sets:
  no key and modifier is counted twice where they share a code. `MemoriesAgree` makes
  it inductive: the keys with a press time are those of the last report, since
  `RepeatTimer` finds nothing to do (`NeverLong`). A repeat timer that cleared the press
  time of Ctrl+T, as the code means to, would break it.
* `KeysAreKnown` adds `LastReportTrue`: before the reports are mixed one keyboard has what
  the last report says, and the others nothing.
* `UpdatesDrawn` and `FramesShown` are inductive given the types, and hold with
  any overlap of the tasks; `CursorHasColor` needs the turns the tasks take without
  overlap (`TurnInv`).
* `DescriptorsHeld`. `FdInv` adds that a handle has a descriptor only while it is of
  the ROM: `close` frees the descriptor it finds, and a littlefs handle that kept an
  old one would free another handle's.
* `TreeStaysClosed`. `IsTree` adds the types and that no path is both a file and a
  directory; with `HandleInv` (an open littlefs file is in the tree) a late commit
  replaces an entry that is there. Each way to change the tree is a lemma: `MkdirTree`,
  `ParentsTree`, `SizeTree`, `CopyOverTree`.
* `IteratorsBack`. `CopyInv` follows `aux_copy` through the ROM entry by entry: as long as
  it goes well, every directory met so far fits the table, and the iterators open when
  it stops are those of the levels above. The last needs an entry's directories
  before it (`EntryAbove`).
* `CacheStaysFresh` uses `FdInv`: a step that leaves the cache alone leaves the tree alone
  too, or has a file open, or fails (`QuietCache`).
* `LookupFinds`. `LookupInv` says where the walk is: the names already taken lead, entry
  by entry, to `node` (`NodeIsLast`), `dir` is the directory after it (`DirIsNext`), and the
  entry with the next name, if there is one, is among `l + 1 .. h` (`SearchSound`). The
  last needs the order of the names (`HalfLeftOut`: a comparison leaves out entries on
  one side only), and from it follows that an empty range means there is none.
* `BytesInOrder`. `ReadInv` adds to `NothingLost` that the descriptor's file lies in the
  image and that the bytes given are counted from a position not behind it. Every
  reader takes a run of bytes at the descriptor and moves it by their number
  (`TakeKeeps`); for `readLine` that number is read off its last chunk. A size that fits a
block does not make the address go round (`MemoryAssumption`), so `mmfs_read` cuts it to the
file; a size that fits none halts the machine before the descriptor moves, or has
nothing to copy.
* `ArraysNotOverrun`. That a scroll stays in the arrays is read off the comparison with
  the height in `terminal_scroll`: the rows kept and the rows freed are not negative and
  together are the screen, in both directions.
* `LinesAreWhole`. `LastChunkEnds`: the loop has a last chunk, since the chunk that
  begins `Len(Image) + Reach` chunks on is empty, and every set of natural numbers has
  a smallest (`MinThere`, from the library's well-founded order). `ChunkInLine`: a
  chunk inside the line is full and has no newline. `LineEnds`: the loop stops in
  the chunk the line ends in.
* `ListingsComplete` rests on `OffsetAssumption`: no directory has as many entries as
  the 8-bit place has values (the largest of the image has 108).
* `CallsEnd` is the safety behind `CallsReturn`. Its measure, read from the left, is the
  phase of the call, the names not found, whether the next directory is still to be opened,
  and the entries in question or not yet listed. A comparison lowers the last because
  the middle lies in the range, and a listing because its place does not go round.
* `ArraysAreTheWindow`. The nonlinear facts are about offsets: two cells with one offset
  are one cell, a run inside a row stays in that row (`RowCovers`), and moving by
  `lines * width` is moving by `lines` rows (`ScrolledUpAt`, `ScrolledDownAt`). Every
  operation's fill or copy is then read back cell by cell.
* `FlagComesBack`. `FramesInv`: the outermost saved flag is the first value or an error
  escaped, and all inner ones are set; so is the flag while a call is under way.
  `CacheIsFlushed` is inductive with `CacheInv`: lines can be dirty with the PSRAM off
  the bus only if it was used there.

Only model-checked: liveness under fairness, which is outside the prover's reach. That
is `WaitEnds`, `TimersEnd`, `DisplaySettles`, `CallsReturn`, `TerminateReachesIdleProgram` and
the fairness part of `PullsFromInbox`. Every invariant and every other action property
that a passing run checks is a theorem.

## 5. Not modelled

* What event values look like on the Lua stack, and the stack's own limit (`os_queueEvent`
  never calls `lua_checkstack`).
* Alarms: `os.setAlarm` is a stub and `os.cancelAlarm` is `os.cancelTimer` over again (the
  same stop, delete and unlink). Day and time, the label, the clock.
* Mouse reports; consumer keys; the USB stack. A generic device that sends a keyboard's
  reports goes the way of `Keyboard` (`drivers/hid.cpp:464`); reports it lays out
  otherwise are not modelled.
* Pixels, fonts, the panel's bus. Strings so long that `x + len` overflows an `int`;
  palette components above 1 or below 0.
* The queries of `fs` except `list`, flash wear, and power loss in the middle of a littlefs
  commit (littlefs is external and promises atomic commits). Paths above the root.
* littlefs handles that are garbage collected while open: what littlefs does with
  the freed entry of its list is undefined.
* Redstone pins and peripherals: single assignments without interaction.
* Lua itself and the two heaps; what a read of the PSRAM gives while it is off the bus;
  other tasks' use of it. ROM image and fonts are data: 80,361 of the repository's
  84,282 lines of C, which is why the models cover a small share of all lines and
  most of the others that keep state.

## 6. Plan

1. Proofs: what `WaitEnds` and `DisplaySettles` rest on and is safety, as `CallsEnd` and
   `TimersAreKept` are for `CallsReturn` and `TimersEnd`.
2. Reports of generic devices that are not laid out as a boot keyboard's
   (`drivers/hid.cpp:464` takes them as if they were).
3. Reads of files in flash, once `apis/fs.c:540` leaves them something to read.
