# ZeptoOS in TLA+

ZeptoOS is a small kernel for i386 and x86_64: a round-robin task switcher, a
keyboard, a bitmap of pages, page tables, a program loader, a console, a mount
table with a tar initrd below it, an ext2 reader over a disk driver, and a shell
in ring 3.  This directory holds TLA+ modules for
these parts, the TLC configurations that check them on small instances, and
TLAPS proofs of what matters most for every value of the constants.

Every definition is translated from the code.  The comments in the modules say
what an action stands for; `map` in `PROJECT.json` gives the lines.

    tlc -workers 2 -config MCPmm.cfg MCPmm       # check one module
    tlapm PmmProofs.tla                          # check the proofs of one module

## 1. The system

### What runs concurrently

There is one processor, and every gate of the IDT is an interrupt gate (types
0x8E and 0xEE in `idt.c`): a handler or a system call runs with interrupts off
from its entry stub to `iret`.  kmain enables interrupts as its last act and
then only halts.  So interrupts come between two instructions of ring 3, and in
kmain's `hlt` loop, and nowhere else.  The actors that really interleave are

* the **timer**, whose handler ends in `schedule()`;
* the **tasks** in ring 3, with their system calls;
* the **keyboard controller**, which queues bytes, and raises its line, at any time;
* the **PIC**, which latches a request while interrupts are off;
* the **disk**, which works at its own pace behind a status that lags;
* the **processor** itself, which walks page tables and remembers translations
  whenever it likes.

This is why most handlers are one action in the models, and why the keyboard,
the disk driver and the x86_64 TLB are not.  Loops are cut into one action per round where a
property speaks about what holds in the middle of them (allocator scans, tar
parsing, cloning, loading, `getdents`), although no interrupt comes there.

### Inventory

| component | state | operations | used by | what makes it correct |
|---|---|---|---|---|
| task switcher (`core/scheduler.c`, `irq.s`, `syscall_stub.s`) | `tasks[]`, `task_count`, `current_task`, the frames on each kernel stack | create, tick, exit | kmain, timer, `sys_exit` | contexts survive; kernel and processor agree on who runs; exited tasks give way; no starvation |
| segments and TSS (`gdt.c`) | `esp0` / `rsp0` | `set_kernel_stack` | `schedule` | the next interrupt lands on the stack of the task it interrupts |
| timer and PIC (`pic.c`, `pit.c`) | tick counters, request and service bits | `timer_handler`, end of interrupt | `irq0_stub` | the rollover into seconds, no lost request |
| keyboard (`core/keyboard.c`) | ring, `head`, `tail`, `poll_counter` | handler, poll, has, get | `irq1_stub`, `sys_read` | a FIFO fed from two sides; keys in order; every byte is read |
| line input (`sys_read`, `user/init.c`) | the caller's buffer | read, edit | shell | the line is what its backspaces leave, and it ends |
| page allocator (`mm/pmm.c`) | a bitmap of 4096 pages | init, alloc, alloc n, free | page tables | no page twice, none over boot data, the lowest fit, panic only when nothing fits |
| page tables, i386 (`i386/vmm.c`) | directories and tables in frames | init, create, clone, map, unmap, switch, look up | kmain (`init_paging` only) | tables never overlap, memory stays mapped to itself, exact lookups |
| page tables, x86_64 (`x64/vmm.c`, `boot.s`) | four levels of tables, TLB | the same | kmain (`init_paging` only) | sharing as promised, no stale translation |
| console (`vga.c`, `serial.c`) | screen, cursor, line | print, scroll, clear | everything | screen and serial line tell the same story |
| mounts and lookup (`fs/vfs.c`) | `root_node`, `mounts[]` | mount, umount, resolve | system calls, kmain | the table is a list, root and slot 0 agree |
| initrd (`fs/tar.c`) | entries, nodes, directory entries, the archive's bytes | parse, finddir, readdir, read, write | vfs, kmain | data never taken for a header, listing and lookup agree, files do not touch |
| `getdents` and `ls` | the shell's buffer | pack, walk | shell | records intact, the walk shows what fits and ends |
| program loading (`main.c`, `elf.c`) | memory | read init, `elf_load` | kmain | the program is what its headers say, kernel, tables and initrd survive |
| ext2 reader (`fs/ext2.c`) | a superblock's fields, one static node, the disk's blocks | mount, finddir, readdir, read, write | nobody yet | a path gives its own node, listings are exact, files do not touch |
| disk driver (`core/pata.c`) | the drive's registers and sector buffer | read, write sectors | ext2 | exactly the sectors named, and an end |
| `kernel/scheduler.c`, `kernel/drv/` | - | - | not compiled | out of scope |

How they interact: kmain initialises everything in a fixed order with
interrupts off, passes the boot loader's report to `pmm_init`, parses and
mounts the initrd, reads init from it and creates its task.  Afterwards the
shell drives everything by system calls; the only asynchronous entries are the
timer's and the keyboard's.  `PROJECT.json` lists, under `hazards`, what is hard
to test in this code, each at its line, with the properties that cover it.

## 2. The modules

A detailed module models the code; next to it, an abstract one says what the
part promises, and the detailed one is shown to implement it
(`INSTANCE ... WITH`, the property `Implements...`).

| detailed | abstract | proofs | model checking |
|---|---|---|---|
| `Scheduler` | `Multitasking` | `SchedulerProofs` | `MCScheduler` |
| `Kernel` (composes `Scheduler` with the keyboard) | `Scheduler` | `KernelProofs` | `MCKernel` |
| `Keyboard` | `BoundedFifo` | `KeyboardProofs` | `MCKeyboard` |
| `Shell` (composes init's loop with `Console`) | - | `KernelProofs` | `MCShell` |
| `Listing` | - | `FilesProofs` | `MCListing` |
| `Pmm` | `PageAllocator` | `PmmProofs` | `MCPmm` |
| `Vmm` (i386) | `AddressSpaces` | `VmmProofs` | `MCVmm` |
| `Vmm64` (x86_64) | `SharedSpaces` | `Vmm64Proofs` | `MCVmm64` |
| `Loader` | - | `FilesProofs` | `MCLoader` |
| `Vfs` | `MountList` | `FilesProofs` | `MCVfs` |
| `FileSystem` (composes `Tar` and `Ext2`) | `FileStore` | `StorageProofs` | `MCFileSystem` |
| `Disk` | `BlockDevice` | `StorageProofs` | `MCDisk` |

### Scheduler

Kernel stacks are memory: `kstack` has a cell per frame, and a frame stays until
another is pushed over it.  That is what makes a wrong stack pointer visible,
much later, as a lost context.  The registers in a frame are abstracted to the
context they resume (owner, where, and how many steps into it).  `irq0` is the
whole of `irq0_stub`: push the context on the stack the processor chooses (the
TSS's from ring 3), `timer_handler`, `schedule`, pop, `iret`.  `sys_exit` is the
system call with the `int $32` inside it, which puts a second frame below the
first.  `schedule` has the code's three ways out: no tasks, a next task, or
nobody active, in which case it returns to its caller, an exited one included.
kmain's stack is `NONE`, and so is `current_task` before the first switch (-1).

`Multitasking` has no stacks: a set of live tasks, one running, and a progress
counter per task that only its own steps change.  A context lost, mixed up or
replayed anywhere in the detailed module changes somebody's progress.

### Keyboard

`output_buffer` is the controller's queue and `irr` the PIC's latch.  The
difficulty is that two paths read the same port: `irq1` while the task is in
ring 3, and `keyboard_poll` while `sys_read` spins with interrupts off.  A byte
read by polling leaves the request it raised behind, so `irq1` later reads an
empty port, which returns the last byte again (`last_byte`); real PICs differ
on whether a withdrawn edge still interrupts, and the model allows both.  A key
hit before `pic_remap` (key 0) sits in the controller with no request at all.
`keyboard_get_char` is a loop around `keyboard_has_char` and then the removal of
a character: the action `keyboard_has_char` is one round of that loop, and the
action `keyboard_get_char` is the rest of the call with what `sys_read` does with
the character.

### Kernel

One machine with one PIC and one interrupt flag: the variables of `Scheduler`,
both latched requests (`irr`), the controller, the ring as the queue `Keyboard`
is shown to implement, and `reader`, the task inside `sys_read`.  `sys_read`
pushes the caller's frame as any call does and then goes round its loop with
interrupts off; `tick` and `key_event` only latch.  At its `iret` both requests
may be pending: the timer's is taken first, may switch tasks, and the stale
keyboard request then interrupts another task than the one that waited.  The
step is always one of `Scheduler`'s or leaves its variables alone, which is the
property `ImplementsScheduler`.  No behaviour is bounded here: keys and ticks
come for ever, which is what `NobodyStarvesWhileTyping` needs.

### Shell and Console

`Console` has the screen and the serial line.  `kprintf` sends the string to the
line and then walks it again for the screen; with interrupts off that is one
step of whoever prints.  The wait for the UART is left out.

`Shell` is init's loop with `sys_read` in it, character by character: the line
that is edited and echoed, the string the shell ends in place of the newline,
the command it compares and what it answers, all over `Console`.  `terminal` is
the far end of the serial line, with the row its cursor is in: its rows have an
end (`WIDTH`, at whose margin the cursor waits for the next character), a tab
moves the cursor to the next stop, and after an escape nothing is known of it
(`Anything`).  The key map delivers both, and `sys_read` stores and echoes them
like any character.  The histories
`typed`, `ends` and `ran` let `RunsWhatWasTyped` say what a line is by which
characters survive their backspaces, which counts, instead of replaying the
editor.  The answer to `ls` is any listing; `Listing` has the way it is made.

`Listing` composes the kernel's `sys_getdents` with the shell's loop over the
buffer it filled, on both machines' layouts of `struct linux_dirent`, with
whatever an earlier `ls` left in the buffer.

### Pmm

`pmm_init` works on the boot loader's report in units smaller than a page, so
that boundaries inside pages remain.  `pmm_alloc_loop` and
`pmm_alloc_pages_loop` are one round of the two scans.  `held` is history: who
owns what is not in the code, and `pmm_free` is only given pages the caller
holds, or one beyond the bitmap, which it must ignore.

### Loader

Physical memory after boot, in cells: the kernel, the initrd, the page tables
`init_paging` took from the lowest free pages, the buffer at 4 MiB that kmain
reads init to, and the program, which `elf_load` copies out of that buffer to
the addresses its headers name.  The headers are read again in every round
while the segments are written, so they are read from the modelled memory too:
by the loop over the headers, by the one that copies (`copy`), and by the one that
clears what follows (`bss`), which begins at `p_filesz` as it is read then.
On i386 init is linked over its own staging buffer, and its first segment is
copied onto itself; on x86_64 it lies below.  Nothing in the code tests whether
there is room: `Roomy` and `Loadable` state what the loader needs, and the runs
include layouts and programs without it, where headers may be overwritten and
read as others (`wild` ends such a run).  `Roomy` asks for room for everything in
the file that reads as a program header, as one of them may be copied over
another; `Loadable` asks that headers and segments lie in the file, and buffer
and segments in memory.  Beyond memory nothing is read and a write leaves
nothing; in the code either is a page fault, which ends the boot.

### Vfs, FileSystem, Tar, Ext2

`Vfs` has the mount table, `root_node`, path lookup and the system calls that
reach them.  In this kernel lookup never consults the mount table: a mount of a
path other than `/` is recorded and changes nothing else, and `sys_mount` always
passes `NULL` for the node, so a program that mounts `/` leaves the system
without a root.  The models say so; the properties state what stays consistent.
A path in `Relative` does not begin with a slash: it can be mounted and unmounted
like another, and leads nowhere.

`FileSystem` is the other side of vfs: calls go through a node to whatever file
system it belongs to, so `vfs_read` is `tar_read` or `ext2_node_read`.  One root
is mounted, the initrd's or ext2's, and either way callers see a `FileStore`.

`Tar` keeps the archive byte by byte in memory, with blocks of data that look
like headers (`Stray`), so that a wrong step of the parser is noticed, and a
write beyond a file's end would change its neighbour.  The field of a size is
parsed up to its first blank or `DIGITS` characters.  `tar_write` checks
nothing; it has no caller, and the model's callers stay within the file.

`Ext2` has the one static node that every lookup returns and overwrites, also
when its own directory was read through it half way along a path.  A caller
holds "root", "target" or nothing, and what it holds changes under it with the
next lookup.  The two loops over a directory, for listing and for lookup, meet
deleted entries, which have no inode or lie inside the one before.

### Disk

`Disk` puts a drive behind the ports of `pata.c`: busy, with data, asking for
data, finished or in error, at its own pace, its status lagging by one read
after a command or a sector.  Driver and drive move words one by one and count
sectors separately.  `BlockDevice` has calls that move sectors in order.
`Ext2` uses the blocks such a device promises.

### Vmm and Vmm64

Frames come from the allocator with old contents (`Stale`).  `Vmm` models
`init_paging` a page at a time and cloning an entry at a time; running out of
memory in the middle leaves a half-made space that must still be a valid one.
`Vmm64` starts from the tables of `boot.s`, whose last level has 2 MiB entries;
`next_table` is a step down that may allocate, three of them are a mapping.
The processor's TLB is one remembered translation, filled at any moment.

No code calls these functions but `init_paging`, so the models state what
callers owe: they map above the identity mapping (the code reaches its own
tables through it, and on x86_64 `next_table` would take a 2 MiB entry for a
table), and on x86_64 they do not clone over the current root, because
`vmm_clone_address_space` flushes nothing.

## 3. The runs

Each run checks all that its `.cfg` lists; deadlock is checked everywhere, and
parts that really halt have an explicit stuttering action (`halted`, `spin`,
`idle`).

| run | instance | distinct states | what it shows |
|---|---|---|---|
| `scheduler` | 3 tasks, 2 steps each, 2 ticks a second | 5 568 | `WhoRunsIsAgreed`, `WaitingContextsIntact`, `ExitedRunsOnlyAlone`, `ImplementsMultitasking`, `NobodyStarves` |
| `kernel` | 3 tasks, a ring of 1, 2 bytes in the controller, every second call polls | 255 606 | `ReadBelongsToCaller`, `ImplementsScheduler`, `NobodyStarvesWhileTyping` |
| `keyboard` | ring of 3, line of 3, 2 bytes in the controller, 4 keys | 68 313 | `KeysInOrder`, `RequestPending`, `ImplementsFifo`, `EveryByteIsRead`, `NewlineEndsRead` |
| `shell` | line of 4, 5 keys of 6, a screen of 3 rows of 2, a terminal 5 wide with stops every 3 | 70 015 | `RunsWhatWasTyped`, `TerminalShowsPlainLine`, `ScreenShowsWire` |
| `listing` | both layouts, 121 directories, a buffer of 64 | 5 327 | `PrintsWhatFits`, `LsEnds` |
| `pmm` | 7 pages of 3 units, 15 boot reports, requests for 0 to 3 pages | 16 347 | `BootDataSafe`, `LastByteIsMemory`, `ImplementsAllocator` |
| `vmm` | 8 frames, 4 entries a table, 2 pages to map | 167 430 | `FramesDisjoint`, `IdentityHeld`, `LookupIsExact`, `ImplementsSpaces` |
| `vmm64` | 3 entries a table, 6 free frames, 3 pages to map | 8 980 | `TlbIsCurrent`, `ImplementsSharedSpaces` |
| `loader` | 24 cells, 6 layouts, 12 files | 901 | `LoadedExactly`, `BootDataKept` |
| `vfs` | 3 slots, 7 paths, one of them relative, a tree of two levels | 10 007 | `RootIsSlotZero`, `ImplementsMountList` |
| `filesystem` | 6 archives, blocks of 4, a table of 3, sizes modulo 128; an image with two directories and two files, and none | 71 596 | `DirectoryAgrees`, `PathsResolve`, `ListingAgrees`, `ImplementsFileStore` |
| `disk` | 128 sectors of 2 words, calls of 1 to 3 sectors | 1 002 | `ImplementsBlockDevice`, `CallsReturn` |

The runs of `scheduler` and `vfs` also check `TypeOK`, which is there what a
missed rollover or a write beyond the mount table breaks.

### Why the bounds are enough

* **scheduler.** Three tasks are what it takes for the one that runs, the one
  that is switched to and one that must not be touched to differ, and for the
  round robin to pass over an exited task between two live ones.  Two steps per
  task distinguish a context from an older one of the same task.  `MaxStep` is
  the only artificial bound; ticks and exits are unlimited.
* **keyboard.** A ring of three slots is full with two characters, below the
  number of keys, so it fills, drops, wraps and empties.  A device queue of two
  is what a second edge after a read needs.  `POLL_INTERVAL = 2` has calls that
  poll and calls that do not.  `MaxKeys` bounds the behaviours.
* **kernel.** Three tasks: the one that waits, the one the timer then switches
  to, and one more.  A ring of one character is full with the next key; two
  bytes in the controller are what a second edge after a read needs.  Tasks take
  one step, ticks wrap at once: nothing else counts them here.
* **shell.** Five keys fill the buffer of four and begin another line, erase
  what was typed and more, and type it again.  Two columns on the screen: rows
  that end full (the prompt does), and rows that end in a newline.  Five on the
  terminal: prompt and buffer reach the margin and go past it, and come back by
  backspaces; a tab skips one column, two or none, and an escape may come
  anywhere.  `TerminalShowsPlainLine` excepts exactly what it has to: without any
  one of its three conditions (no tab, short of the margin, no escape) TLC finds it
  violated.
* **pmm.** Seven pages hold two runs of different lengths around a module; the
  reports have regions and modules that begin and end inside pages, overlap,
  exceed the bitmap, or are missing altogether.  Nothing is bounded artificially.
* **vfs.** Three slots: one for the root, two whose order can go wrong.
* **filesystem.** Archives: sizes around a block (0, 1, 3, 4, 5, 8, 9), digits
  that end early, names that occur twice, and a file more than the table has.
  The image: a file whose two blocks are in the wrong order, a directory in the
  root, itself listed by its own name, inodes in every half of a block, a deleted
  entry first in a block and stale ones inside another; paths that are found,
  that end in a file half way, and that name what was deleted.
* **listing.** Names of 1, 6 and 7 bytes leave padding or just none; four of
  them exceed the buffer on both machines.
* **loader.** Layouts with the initrd below the tables, at the tables' place, and
  against the buffer, on both machines; programs of both linkers' layouts, with
  bss, with segments out of order or written in place, over their own headers
  or data, and files that are none.
* **disk.** Addresses use every part of the registers; two writes overlap, and
  reads overlap writes.  There is no bound on the calls.
* **vmm, vmm64.** Memory runs out in every call, a clone's middle included.
  Two spaces besides the kernel's fit.  On x86_64 one page
  lies below the root entry that all spaces share from the start, the other two
  below another one, in different tables.

### Fairness

Fairness is assumed where the hardware or straight-line code justifies it, and
only for the liveness properties:

* `WF(irq0)` in `Scheduler`: `pit_init` programs a periodic timer.  No task is
  obliged to do anything.
* `WF(irq1)`, `WF(keyboard_has_char)`, `WF(keyboard_get_char)` in `Keyboard`: the
  processor takes requests while interrupts are on, and goes on with the loop
  of `sys_read` while they are off.  Nobody has to hit a key, and the shell need
  not ask for another line.
* `WF(tick)`, `WF(irq0)`, `WF(irq1)` and `WF(sys_read_round)` in `Kernel`, for the
  same reasons.  That newlines are typed again and again is no fairness of the
  machine: it is the premise of `NobodyStarvesWhileTyping`.
* `WF` of the loop's rounds in `Listing`: both loops are straight-line code.
* `WF` of the driver inside a call and of the drive in `Disk`: the driver polls,
  and a drive does what it was told or reports an error, after which
  `CallsReturn` promises nothing, because the driver waits for ever.

`NobodyStarves` is about ticks and exits alone.  A task inside `sys_read` keeps
interrupts off until its line is complete, and everybody else waits: that is
what `NobodyStarvesWhileTyping` adds.

## 4. What is proved

The proofs hold for every value of the constants allowed by the assumption
named in the module; no bound of section 3 is used.

**SchedulerProofs**, from `SchedulerAssumption`.  The inductive invariant is
`IInv == TypeOK /\ BootOrder /\ WhoRunsIsAgreed /\ WaitingContextsIntact /\
ExitedRunsOnlyAlone`.  None of the last three is inductive alone: that a waiting
task's frames are intact needs that the frame pushed by an interrupt goes to
the stack of the task that runs (`WhoRunsIsAgreed`), which in turn needs that
what is resumed belongs to the task chosen (`WaitingContextsIntact`); and
`BootOrder` is needed for the first tick, when `current_task` is still -1 and
the interrupted context is kmain's.  From it follow `TypeCorrect`, `Agreement`,
`NoContextLost`, `ExitedGivesWay`, `NoWayBackToKmain` (an action property), and
`Refinement`: each step of the switcher is a step of `Multitasking` or stutters.

**KernelProofs**, from `KernelAssumption`.  `IInv` is the scheduler's inductive
invariant and `ReadBelongsToCaller`; they need each other.  That the frame of
the waiting call is on the stack the TSS names, when the call is made, is
`WhoRunsIsAgreed`; that the end of the call changes nothing of the scheduler's
is `ReadBelongsToCaller`, which says that the frame it pops is the context the
processor already has.  So each step is a step of `Scheduler` or a stutter
(`Refinement`), and with the refinement proved in `SchedulerProofs`, cited through
a second instance, the whole machine implements `Multitasking` (`TasksAreKept`).

On Shell and Console, from `ShellAssumption` and `ConsoleAssumption` (the texts of
the kernel and of commands end their last line, as they do in the source;
commands are shorter than the buffer).  Three invariants, each of its own depth:

* `LineInv` for `LinesAreRun`.  What the backspaces of a line leave is defined by
  counting them (`Erased`), and sys_read keeps only an index.  `Left(s, p, w)` links
  the two: p lists the w places of s that are left, and behind each place that is
  not, backspaces and other characters have balanced (`Balanced`).  Another
  character pushes its place (`Pushed`), a backspace pops one (`Popped`), or finds
  none (`Unpopped`).  The buffer holds the characters at those places, up to
  `written`, and all before the end of the string is no NUL: so what an earlier
  line left in the buffer is never read.
* `TerminalInv` for `PlainLineIsShown`, for every width and distance of tab stops:
  while the keys of a line are no tabs and short of the margin (`InRow`), the row
  of the cursor is the prompt and the buffer, blank behind (`LineShown`).  That
  "\b \b" takes back one character needs one to be there, in the buffer as on the
  screen, and in the cursor's row.  Of other lines it says only what the next prompt
  needs: wherever they left the cursor, a newline begins a row.  A line that was cut leaves the
  cursor behind it, and the next prompt yet begins a row because the
  string of such a line is longer than any command, and its answer ends in a
  newline.
* `SheetInv` for `WireIsShown`.  `Follows` gives every byte that was sent its place
  on an endless sheet, whose rows begin at multiples of the width, and says
  that the screen is its last rows: a cell shows what is at its place, nothing was
  drawn behind the cursor, and rows end where the next ones begin.  One lemma each
  for what a carriage return, a newline and any other byte do (`FollowsCR`,
  `FollowsNL`, `FollowsPut`), with and without scrolling; `TextFollows` takes a
  whole text through `serial_printf` and `tty_write`, which walk it separately.

**KeyboardProofs**, from `KeyboardAssumption`.  The type invariant is inductive
once the ring's indices are in range; `NoInterruptLost` needs it and itself
only.  `Refinement` shows that the ring, fed by two producers, implements a
FIFO of N - 1 characters, for every N >= 2: the work is in how `Contents`, a
sequence computed from two indices modulo N, changes with each of them.
`OrderKept` is about what was read, what is in the ring and what is still in the
controller, together.  `KeysInOrder` is not inductive, because the handler may
read a port that is empty and get the last byte a second time.  `OrderInv` adds
that the port's last byte is the newest that was read (`PortIsNewest`), that
bytes in the controller are newer than it (`DeviceIsNewer`), and that while a
request is latched with nothing behind it that byte has been read only once
(`StaleOnce`): the stale interrupt takes the request with it.

**PmmProofs**, from `PmmAssumption`.  `IInv` adds to `TypeOK` what the scans have
established when they look at page i (`ScanInvariant`), the values of the
locals between calls (`CallState`), that a page handed out has its bit set
(`HeldIsMarked`) and that pages free or in use were usable at boot
(`UsableOnly`).  Theorems: `NeverTwice`, `BootDataIsSafe`, `PagesAreMemory` and
`Refinement` (the lowest run that fits; panic only when none does).

**FilesProofs**, on Vfs from `VfsAssumption`.  `IInv == TypeOK /\ BootState /\
RootIsSlotZero`: shifting the slots on an unmount preserves that `/` is in slot 0
or nowhere only because it was so before, and before kmain's mount the table is
empty.  Theorems: `TypeCorrect` (no mount is written beyond the array),
`RootStays`, and `Refinement` to a list: the lemmas `AppendsToList` and
`RemovesFromList` say what writing the next slot and shifting slots mean for it.

On Loader, from `LoaderAssumption` (modules lie behind the kernel; files are
sequences of headers and data).  `BootInv` is for files of every kind: it says that
every program header in memory, wherever it was copied to, is one of the file's
(`FromFile`), that the page tables lie within as many pages behind kernel and
initrd as there are tables (`TablePlaced`, by counting the free pages below), and
that a segment whose copying has begun began above them all (`CopyClear`); this is
needed because the header it is copied by may be overwritten half-way, but what
follows a clear cell is clear.  `LoadInv` is for programs that can be loaded: the
buffer holds the file through all the copying, each segment passed is complete and
the current one is up to j, in the first loop within the file's bytes and in the
second behind them.  It needs that segments meet neither each other nor
the buffer, except in place, where a byte is written over itself.  Theorems:
`BootDataIsKept` and `ProgramIsLoaded`.

On Listing, from `ListingAssumption` (the fields of a record come in the order of
the struct, and names fit in it).  `Start` gives each record its place, by the
lengths of those before.  While the kernel packs (`Packed`) the buffer begins with
whole records, each in its place, and what lies behind is anything; that it stops
only at the end or at a name that does not fit (`Full`) is what the shell needs to
have printed all there is.  While the shell walks (`Walked`) it is at the beginning
of a record.  Theorem: `LsPrintsWhatFits`.

**StorageProofs**, on Disk from `DiskAssumption`.  Driver and drive count apart: `IInv` says
at each point of a transfer how the driver's `s` and `w` and the length of its
buffer match the drive's address, sectors left and position (`InTransfer`,
`Progress`), and that between transfers the drive has at most the last sector of
a write to store, and says so (`OutsideTransfer`).  The status that lags is the
delicate part: words are moved only after a status that was shown because it
is true (`SameWord`).  With the arithmetic of the address registers, `Refinement`:
calls move the sectors they name, in order, each once.

On Tar and Ext2, composed in FileSystem, for any archives that tar writes
(`ArchivesAreTars`) and any images that mkfs and the writers of its files make
(`ImagesAreExt2`).  These two assumptions say what is on the medium, not what the
kernel finds there.  The runs' archives and images satisfy them: TLC evaluates
both.

* `ParseInv`: after n members the parser is at header n + 1, and the table has the
  first of them, up to its size.  That the step from header to header is right
  needs `parse_octal`, with its 32 bits and its limit on digits, to find the size
  that tar wrote, and that
  a size rounded up to blocks stays in range.  `MemInv`: memory is the archive, and
  only calls to write change it.  With both, each name that is listed leads
  to its first member (`ArchiveDirectory`), and the data of different members lie
  apart, because each ends before the next header.
* `DiskInv`: blocks that are not a file's data are as they were made, and the two
  numbers kept of the superblock are the image's; so inodes and directories read
  off the disk are the image's.  A directory's records are chained by their
  lengths, and both loops pass over deleted ones in the same way.  `HeldInv`: the
  node a caller holds is the root, or the static node, which then is the node its
  path leads to: lookup is done with the directory it is called on before it writes
  the node, which may be the same.  Theorems: `PathsLead`
  and `DirectoriesList`.
* `VfsIsFileStore`: reads return what the store's file has, writes change this file
  and no other.  On the initrd that is arithmetic of addresses in one memory; on
  ext2 a read is made of pieces, one for each block it touches, put together to
  what the file has there, and different files have different blocks.

**VmmProofs**, from `VmmAssumption`.  `IInv == TypeOK /\ BootOrder /\ Apart /\
IdentitySoFar /\ TablesAreClean`.  `Apart` is `FramesDisjoint` entry by entry;
`IdentitySoFar` follows the local of `init_paging`, and says that every finished
space maps all memory to itself; that an entry never written is 0 and not stale
(`TablesAreClean`) is why a lookup that does not test the present bit of a table's
entry is right.  Each needs `Apart`: a write to one table must not be a write to
another.  That callers' pages have other directory indices than the identity
mapping, an assumption, keeps their mappings out of its tables.  Theorems:
`FramesAreDisjoint`, `IdentityStaysMapped`, `LookupStaysExact` and `Refinement` to
`AddressSpaces`, in which half-made clones are spaces too.

**Vmm64Proofs**, from `Vmm64Assumption`.  Here tables are shared at all levels, and
a table may be changed through one root while the processor uses another.  The
key is `OnePlaceEach`: there is an assignment of places in the tree (a level and
the indices that lead there) to frames, such that every table has one place,
whichever root reaches it.  So an entry of a last table translates one virtual
page only, the one whose translation `invlpg` removes; a table linked to an entry
that was not present adds translations and takes none away; and only a root that
is not current is overwritten.  The arithmetic behind it is that the four
indices of a page determine it (`IndicesTell`), and that pages above the identity
mapping never lead to its pd (`CallersKeepClear`).  That gives `TlbStaysCurrent`.
`Refinement` to `SharedSpaces` rests on the part of `OnePlaceEach` that roots share
tables and no other tables do (`OneParentEach`): a write to an entry is then one
address of one region (`WriteShows`).  A new table, being cleared, maps nothing
and hides nothing (`NewTableShows`), so a call that panics between two of the
three tables it needs leaves all pages as they were and at most an empty region
(`PanicRefines`).

## 5. What is only model-checked

* Liveness (`NobodyStarves`, `NobodyStarvesWhileTyping`, `EveryByteIsRead`,
  `NewlineEndsRead`, `LsEnds`, `CallsReturn`): reasoning with ENABLED is out of the
  prover's reach.

Every safety property, action property and refinement that a run checks is also
a theorem.  Induction over data, which the library states with an operator as a
parameter, is replaced where it is needed by a least counterexample: a set of
numbers that is not empty has a least element (`LeastExists`, from the
well-foundedness of the numbers), and the step before it fails to be one.
That is how the walks over texts, archives, directories and buffers are proved;
a recursive function is first shown to exist by pasting its beginnings together
(`RunExists`), since its definition is a CHOOSE.

## 6. What the models leave out

* **Constant tables and port programming**: descriptors, PIC and PIT setup,
  `serial_init`, key maps (abstracted to four kinds of characters), colours.
* **The TLB on i386.**  That code never invalidates an entry; what is shown of
  its tables is about memory.
* **Segment registers.**  `irq0_stub` of i386 does not restore them; contexts have
  none, since what an `iret` to ring 3 does with those of the kernel differs
  between processors and emulators, and nothing states what ring 3 may expect.
* **`close`**, which returns 0; `print_pid`, which has no caller; on x86_64 the
  saved extra registers of calls.
* **32-bit wrap-around in callers' arguments** of `tar_read`: the models' callers
  keep offset + size below 2^32, as kmain does, which reads from offset 0.
* **ext2 images the code cannot read.**  For blocks of more than 1024 bytes the
  group descriptor is read from sector 2, where the superblock is; directories
  of more than a block, files of more than twelve, holes, inodes of another size
  or in a second group are not handled, and a write across the end of a block
  runs over the buffer.  The test `i_mode & 0x4000` (`ext2.c:147`) also holds for
  block devices and sockets, which it takes for directories, and a name of more
  than 127 characters is listed cut (`ext2.c:104`).  `Ext2` is restricted to images
  and callers without them.  Nothing mounts ext2 yet.
* **Long paths.**  `string_copy` into the 128 bytes of a mount's path (`vfs.c:104`)
  and the loop that fills `token` (`vfs.c:82`) test no length.  Paths are shorter in
  `Vfs`, and what is shown of the table is about slots, not about bytes.
* **Names of 100 bytes in a tar header**, which end without a NUL: the copy at
  `tar.c:104` would go on into the mode.  The archives of `Tar` have shorter ones.
* **A node held across a later ext2 lookup**, which overwrites it: `held` is the last
  lookup's, and `PathsResolve` is about that one.  In the code every caller is
  done with its node before the next lookup.
* **Cloning over the current root on x86_64**, after which `vmm.c:112-116` flushes
  nothing; `Vmm64` excludes it, and no caller does it.
* **A sector count of 0**, 256 to the drive and none to the loop, and a drive that
  fails at the end of a write, which no caller could see: both functions return
  0 always.
* **Programs for another machine on i386**, where `elf_load` looks at the magic
  number only, and in general what `elf_load` does with numbers that are no
  headers: `Loader` stops there (`wild`).  The theorems about kernel and initrd hold
  up to that point, those about the program for files that never get there.
* **Glyphs.**  The screen, unlike a terminal, has a glyph for backspace and
  escape: a character erased on the line stays on the screen, and so does the
  escape sequence of `clear`, here one character.
* **What a terminal shows of tabs, escapes and long lines** while they are edited.
  "\b \b" (`syscall.c:58`) takes back one column of a row: after a tab the cursor
  stays in the columns that the tab skipped; at the margin, where the prompt and
  73 characters reach column 80, it erases the last character but one, and in a new
  row it does not come back to the one above; and of an escape nothing is taken
  back.  Buffer and commands are not affected (`RunsWhatWasTyped` has no such
  exceptions).  No comment, document or test promises otherwise, so this is no
  finding; `TerminalShowsPlainLine` is stated for the lines where the echo is undone.
* **Ext2 over Disk**: a block is read in one step in `Ext2`, which `Disk` justifies
  (`ImplementsBlockDevice`); nothing else runs meanwhile.
* `kernel/scheduler.c` and `kernel/drv/`, which the Makefile does not compile.

Nothing in the code's comments or documents contradicts what the models show;
the repository has no prose beyond its build files, and no tests.

## 7. Plan

1. *(done)* `Scheduler`, `Keyboard`, `Pmm` with their abstractions and proofs.
2. *(done)* `Tar`, `Vfs`, `Listing`: the way from a path to bytes.
3. *(done)* `Vmm`, `Vmm64`: page tables on both machines.
4. *(done)* `Console`.
5. *(done)* proofs for `Vfs`.
6. *(done)* `Kernel`, with its proofs: one PIC, one interrupt flag, a call that waits.
7. *(done)* `Loader`.
8. *(done)* `Disk` and `Ext2`, and `FileSystem` over `Tar` and `Ext2`.
9. *(done)* `Shell` over `Console`.
10. *(done)* proofs for `Vmm`, `Disk`, the order of keys in `Keyboard` and the TLB in
    `Vmm64`.
11. *(done)* the refinement of `Vmm64` to `SharedSpaces`.
12. *(done)* proofs for `Loader`.
13. *(done)* proofs for `Listing`, `Tar`, `Ext2` and their composition, and for
    `Shell` over `Console`.
14. What the hazards without a property are about: the TLB on i386, and segment
    registers.

Properties of one part that follow from another, stronger one are merged as the
project grows, so that each run asks only what no other property answers.
