# tew, specified

`tew` runs a 32-bit Windows program inside Python. An interpreter in a native
library executes x86 instructions; the trap instruction `INT 0xFE` enters a
Python handler for each Win32 function; guest threads are multiplexed on the one
emulated CPU by a cooperative scheduler. This directory holds TLA+ models of the
parts where ordering, interleaving and bookkeeping decide whether the guest
survives, the TLC configurations that check them, and proofs, checked by TLAPS,
of their central invariants.

Paths below are relative to `src/`.

## Inventory

| Part | State | Operations | Meets others through |
|---|---|---|---|
| Scheduler, `tew/hardware/scheduler_zig.py` | thread table (status, suspended, waits, deadline, timed-out flag, saved registers), current index, virtual clock, reentrancy depth | create, block, sleep, die, terminate, unblock, suspend, preempt, tick | the CPU registers; `Kernel.tick` when nobody is ready |
| Nested guest calls, `_invoke_emulated_proc` in `tew/api/user32_handlers.py` | a stack of Python frames with saved registers | call guest code to completion inside a handler | the scheduler's reentrancy guard, `cpu.halted` |
| Main loop, `run_exe.py` | countdowns, breakpoints, pause flag, trigger files | batch, fault, breakpoint, pause and step, preemption, timer heartbeat | scheduler, timers, exceptions, the operator |
| Automation, `run_exe.py`, `tew/file_trigger.py` | click chain, text triggers, one requested click, the double click | one turn of each per batch | the host's files and events |
| Critical sections, `tew/api/kernel32_sync.py` | the guest structure, one auto-reset event per contended section | Enter, Leave, TryEnter in guest code; two traps; init, delete | scheduler, kernel handles |
| Kernel objects and waits, `tew/api/kernel32_io.py` | `kernel_handle_map`, objects, `wait_timed_out` | events, mutexes, waits, duplicate, close | scheduler |
| Timers and Sleep, `tew/api/kernel32_system.py`, `tew/api/win32_handlers.py`, `run_exe.py` | `pending_timers`, virtual clock | timeSetEvent, timeKillEvent, Sleep, heartbeat | events, nested calls |
| I/O completion source, `tew/kernel/kernel.py` | registrations per socket, connect-delivered set | register, unregister, tick | host sockets, events, window messages |
| Sockets, `tew/api/wsock32_handlers.py` | `socket_map`, when a select began | the WinSock calls, each retried after a short sleep | scheduler, host sockets |
| Internet handlers, `tew/api/wininet_handlers.py` | one table of sessions, connections, requests with their answers | open, connect, send, query, read, close | a host HTTP client |
| Guest heap, `tew/api/_state.py`, `kernel32_memory.py`, `msvcrt_handlers.py`, `ole32_handlers.py` | cursor, block sizes, free list | alloc, free, realloc in five variants | thread stacks above it |
| Virtual memory, `tew/api/kernel32_memory.py` | reserved and committed ranges, cursor | VirtualAlloc, VirtualFree, VirtualQuery | the loader's ranges below it |
| Files, `tew/api/kernel32_io.py`, `msvcrt_handlers.py`, `_state.py` | handle map, lock ranges, mappings and views, streams, searches | open, read, write, seek, lock, map, duplicate, close, delete, find | host directory and descriptors |
| Loaders, `tew/loader/`, `tew/api/kernel32_handlers.py`, `tew/api/win32_handlers.py`, `msvcrt_handlers.py` | loaded images, import slots, pending DllMains, the table of handlers and its stubs | load, patch, attach, look up, run initializers | nested calls, guest memory |
| COM, `tew/api/ole32_handlers.py` | class registrations; references are the server's | activation | registry, loader, nested calls |
| Windows, messages, dialogs, `tew/api/window_manager.py`, `tew/api/user32_handlers.py` | windows by handle, SDL window ids, one message queue, the focus, texts and check marks, hook chains, pending dispatches | create, destroy, post, pump, get, dispatch, modal and modeless dialogs, hooks, texts | nested calls, SDL, `Kernel.tick` |
| Direct3D 8, `tew/api/d3d8/` | objects and reference counts, a private heap, bindings; swapchain, command buffer, vertex cursor, descriptor sets | create, bind, release, reset; scene, draw, lock, present | Vulkan, the window's size |
| DirectSound, `tew/api/dsound_handlers.py` | buffers with cursors, one audio device | create, duplicate, play, stop, lock, positions; mix | SDL's audio thread |
| DirectInput, `tew/api/dinput_handlers.py` | mouse position, buttons and queue, registered events | poll, read, notify | SDL's events, kernel events |
| Registry and INI files, `tew/api/advapi32_handlers.py`, `ini_file.py`, `_state.py` | keys and values, `registry.json`; a profile is only on disk | open, query, set, delete, notify; read and write entries | host files |
| Exceptions, `tew/kernel/seh.py` | the chain at FS:[0], dispatches in progress | fault, raise, unwind | main loop, nested runs of the CPU |
| RTL resources, TLS, C runtime, locale, PE parser, CPU bindings, NT system calls, drawing, logging | see *Not modelled* | | |

What is hard here: a time slice ends after any guest instruction; a handler can
block its thread and is later entered again from the start; a handler can run
guest code inside itself; a wakeup has two halves, the object's state and the
thread's status, kept in two places; what is recorded in one call is used by a
later one, or by another host thread, or by the GPU; death can strike in any of
these. The `hazards` of `PROJECT.json` list them at their lines, each with the
properties that would notice.

## Modules

    SchedulerCore ── Scheduler ─── MCScheduler       scheduler, nested_death
         └────────── KernelSync ── MCKernelSync      kernel_waits, kernel_time,
                                                     lost_wakeup, stale_timeout
    Lock ◁────── CriticalSection ─┐
                 Sockets ─────────┼ MCThreads        threads
                 WinInet ─────────┘
                 Windows ────────── MCWindows        windows, dispatch_cutoff
    Heap ──────────────┐
    VirtualMemory ─────┤
    Loader ── OleCom ──┼─────────── MCAddressSpace   address_space
    Initializers ──────┤
    StubTable ─────────┘
    Files, FindFiles,
    D3DObjects, D3DFrames ───────── MCResources      resources
    Input, Controls ── UserInput ─┐
    Sound, Registry, Profiles, ───┴ MCServices       services
    Automation, Exceptions, MainLoop

Selection, the elements of a list that a comprehension keeps, is used by Files
and Windows. The theorems are in modules of their own:

| Proofs | of |
|---|---|
| SchedulerProofs | Scheduler |
| CriticalSectionProofs | CriticalSection, Lock |
| KernelSyncProofs | KernelSync |
| AddressSpaceProofs | Heap, VirtualMemory, Initializers, Loader, OleCom, StubTable |
| ResourcesProofs | Files, FindFiles, D3DObjects, D3DFrames |
| ServicesProofs | WinInet, UserInput (Input, Controls), Sound, Registry, Profiles, MainLoop, Exceptions, Automation |
| WindowsProofs | Windows |
| DataLemmas | lists, sums and iterations, for the others |

A definition whose name continues another's after an underscore
(`SetEvent_Silent` beside `SetEvent`) is a faulty version of it; each shows that
a property notices that fault and is used by no specification.

Definitions carry the names of the source where TLA+ allows it; `map` in
`PROJECT.json` gives for each the lines it stands for.

### Threads and what they wait in

**SchedulerCore** states what the native thread table does as functions from
tables to tables: the pick (first wake whoever is due, then take the next
runnable thread after the current one in cyclic order), unblocking, and the
completion of a block or sleep. The native source is not in the repository
(`cpu/` is a submodule); the operators follow the uses and docstrings of
`scheduler_zig.py` and `tests/unit/hardware/test_scheduler_zig.py`, and are
marked external.

**Scheduler** adds the CPU. `regs` is the thread whose register contents are
live, `slot[t]` what is stored for thread `t`, `frames` the nested calls with
what they saved. `BlockCurrent`, `SleepCurrent`, `MarkCurrentDead`,
`TerminateThread`, `UnblockHandle`, `SetSuspended`, `CreateThread`, `Preempt` and
`Tick` are the methods of `ZigScheduler`; `BeginInvoke` and `EndInvoke` are the
two ends of `_invoke_emulated_proc`, `FatalHalt` a handler that gives up. Which
events the kernel tick signals is left open here (any set) and determined in
KernelSync.

**KernelSync** is kernel objects and waiting on top of the same table.
`handle_map` maps handles to objects, so that duplicates share one;
`pending[t]` is the wait a thread will evaluate again. `Evaluate` is one
execution of a wait handler: satisfied, timed out or blocking. `Resolve` is
`_resolve_next_idx` with the actual poll of the sockets. `Heartbeat` and `Sleep`
move the clock, by any time there is left, and fire each timer that is then due once. `program` is what the guest is like: the calls it
makes, how many threads and handles it uses, its timeouts. Nested calls are not
in this module, so handlers are single steps.

**CriticalSection** has one action per guest instruction that touches shared
memory; `pc[t]` is the instruction a thread executes next. **Lock** is the
recursive lock the guest code promises; `ImplementsLock` is the refinement, with
`depth` as the (identical) mapping.

**Sockets** has one action per WinSock call and one for its retry: a call that
finds nothing ready puts its thread to sleep and runs again from its first
instruction, with nothing kept but the time a select began. `ConnectEnds`,
`DataArrives` and `PeerCloses` are the network, `HeartbeatStep` lets everything that counts time count one, and
`TickStep` is the poll of the kernel for both kinds of registration.

**WinInet** is the table of HTTP handles. An answer is its number and the length
of its body; `ok` says whether the last send of a request succeeded, `read_pos`
how far it is read.

**MainLoop** is the loop of `run_exe.py`: `at` is where it is between two
batches, and its steps read a trigger file, remove it, run a batch, offer a fault
to the guest's handlers, step over a breakpoint, preempt, fire timers and check
the region. The operator writes trigger files between any two steps. A batch ends
in any of the ways `cpu.run` can.

**Automation** is one turn of the three kinds of injected clicks. `trigger` is
the state of each `FileTextTrigger`, the log file a sequence of letters that
grows, or is rewritten, between polls.

**Exceptions** is `seh.py`: `acts` is the stack of host calls in progress, which
are a dispatch, an unwind or a handler of the guest, `head` stands for FS:[0].
Handlers end in every way the code tells apart: a disposition, a fault, an
escape, the step limit, a raise of their own, an unwind.

### Memory and code

**Heap** keeps `live` (`heap_alloc_sizes`) as a set of address and size, the
free list as the sequence that first-fit searches, and the cursor. An allocation
is a set of possible result tables (`simple_alloc`), to which each caller adds
its own part: `HeapAlloc`, `HeapReAlloc`, `realloc`, `IMallocFree` and so on.
An allocation that would reach the thread stacks raises: `failed` is then set
and the program is over. **VirtualMemory** is the page allocator; the search
for a gap is a function of the table and the cursor (`Candidates`, one value for
each region passed).

**Loader** gives every thread a stack of frames, for loading recurses through
imports and runs guest code (a DllMain) in its middle, which may load again.
`slot` is what the slots of an import table hold. **OleCom** extends it with the
activation of COM classes, whose every step runs code of the server: `activation`
lists what the handlers of the activations begun hold in their locals, and the
frame of one has its number.
**Initializers** is the loop of `_initterm`: it steps the CPU until its own
sentinel is reached, and a thread that waits inside lets another thread's
registers into that loop. **StubTable** is `Win32Handlers`: the table, the stubs
it writes to memory, guest code placed among them, and the lookups.

### Resources

**Files** keeps the handle table with entries that handles share, and the host
as POSIX has it: a directory of inodes, descriptors with offsets, and the lowest
free number for the next one. **FindFiles** is a search in progress while names
come and go. **D3DObjects** has the objects, their counts, the private heap with
one free list per kind and size, and what points to them besides the guest.
**D3DFrames** has frames: the draws recorded, each with its region of the vertex
buffer and its descriptor set; the draws in flight and whether their submission was
one the next frame waits for (`awaited`); the texture each set shows (`points`);
the swapchain and the layout of its images. Vulkan is modelled by its rules and
marked external. Where its rules leave an outcome undefined, the submission with a
fence that is signalled already, the fence may stay signalled or count for the submission.

### Windows, input, sound and settings

**Windows** is the window manager and the message functions of user32, for one
guest thread. `stack` is what that thread is in the middle of: the main program,
window procedures entered by DispatchMessage (plain guest code: the CPU simply
goes there), the Python loop of `DialogBoxParamA`, and calls of dialog
procedures and hooks that Python makes through `_invoke_emulated_proc`. Guest
code may do anything between two steps of Python, so nearly every action is
enabled whenever the innermost activation is guest code. `EndCall` ends the
innermost Python call, by return or because its steps are used up; the
dispatches begun in it are then gone from the stack but not from
`pending_dispatch`. A pump of SDL finds up to `MaxEvents` events, each of any
kind and for any window there ever was, or SDL_QUIT. A message is its window, a
kind and the number of its posting, which says of it all that order and loss
need. Windows is not composed with Scheduler: its nested calls pass no
scheduler and so are not guarded, and a guest that blocks inside one is the
restriction on unguarded calls named below. **Controls** has what Windows leaves
out of a dialog: texts, check marks and the edit control that is typed in.

**Sound** is the guest's calls beside SDL's audio thread. The callback takes the
lock to list the playing buffers and not while it mixes one, so it is three steps
(`Collect`, `TakeChunk`, then `Advance` or `StopAtEnd`), between which the guest
does what it likes. **Input** is the mouse of DirectInput, its queue, and the
consumer thread that an event wakes. **UserInput** is Input and Controls side by
side, what a user does to the program.

**Registry** spans several runs of the program: `Restart` ends the process
anywhere between two handlers and loads `registry.json` again; a write may be
broken off, and then leaves nothing readable. **Profiles** is the reading and
rewriting of a whole INI file for each entry.

## Runs

Four of the runs join modules that do not interact, one of which moves in a
behaviour: `part`, `subject` or `service` says which. `windows`, `scheduler` and
the kernel runs have one module each.

| Run | Instance | Shows |
|---|---|---|
| `scheduler` | 3 threads, 1 handle, clock 0..1, 2 nested calls, sleeps of 0 and 1 | registers are never mixed up, everybody runs |
| `nested_death` | the same, with deaths inside calls | `ContextsMatch` fails: see below |
| `threads` | 3 threads at a section (depth 2, 2 semaphores, one mortal); 2 callers and a socket; 3 internet handles | the section is a recursive lock, a hand-off is taken, blocking calls end, an answer is read whole |
| `kernel_waits` | 3 threads, 2 objects, counts to 2, no clock | no wakeup is lost, waits and scheduler agree, mutexes are not stolen |
| `kernel_time` | 2 threads, 1 event, 1 timer, clock 0..3 in steps of 1 to 3, timers killed or not; or 2 threads, 2 handles, 1 socket | timeouts and sleeps come, timers wake who waits for them, nothing is missed but where the poll loses it; FD_CONNECT is not lost |
| `lost_wakeup`, `stale_timeout` | smallest instances | disagreements, see below |
| `windows` | a dialog with a button and an edit control, 4 handles, 4 messages and hooks, 1 event per pump, 3 activations | order and delivery of messages, WM_INITDIALOG first, the end of dialogs |
| `dispatch_cutoff` | 3 handles, 4 activations | `ReturnsToItsCaller` fails: see below |
| `address_space` | 4 cells of 16 bytes, sizes 0, 16, 17, 40; 6 pages; 5 DLLs with a cycle of imports, one of them a COM server, 2 threads; a table of 3 initializers; 2 activations; 6 stub slots | blocks and pages apart and not lost, DLLs ready before their code runs, initializers in order, references balanced, stubs their DLL's |
| `resources` | 2 inodes, 2 descriptors, 2 handles, 2 locks; 3 names, 2 searches; 6 heap blocks; 2 swapchain images, 2 draws a frame, 2 textures and sets | locks exclude and have holders, handles keep their files, searches are complete, Direct3D objects live while used, draws find their data |
| `services` | 2 sounds of 3 and 4 bytes, period 2; 2 coordinates; 2 keys over 2 runs; 2 sections of 3 keys; a chain of 3 clicks; 3 exception frames; 2 breakpoints, 2 commands; 2 controls | the cursor stays inside, motion and clicks are counted once, memory is on disk, texts are noticed, finally blocks run, dispatch ends, pauses are obeyed |

Bounds. Three threads are one that acts, one that is chosen and one that is not,
which is what fairness of the pick, barging into a lock and two waiters of one
event need. Two nested calls are the least for which the order of restoring
matters. A clock that can move once separates a deadline from its passing; three
instants let a heartbeat pass over the time of a timer, and one of its periods,
so that the timer is still due after it has fired. Two semaphores let a
section be deleted after a contended use and used again. Heap sizes are a whole
cell, a cell and one byte, nothing, and three cells, in four cells, so blocks are
split with and without a remainder, reused, and exhaust the arena; six pages hold
two regions with a gap before, between and after. Four window handles are a
dialog with its controls and one window more, so that there is another window's
message to be dropped or put back, and a parent to outlive; three activations put
a procedure or hook above a dialog loop above the program, or a hook above a
hook; four messages and hooks together (`MaxActs`) are two messages for a new
window, WM_INITDIALOG and one more, or two hooks and two messages. Five DLLs are a cycle of imports, one with a
name that only Python handlers have, and one that is loaded by a DllMain while
others wait for theirs; two activations are one inside the other, or one after a
failed one. The run counts states that differ only in `returned`, which nobody
reads, as one (`VIEW`). Two
descriptors let a number freed by one file be given to the next. Two draws fill
the shared vertex buffer, and two images with three swapchains let an image be
acquired again, before and after a resize. Sounds of a period and a half and of
two periods end inside a chunk and at its edge. Two runs are a change and its
reading back. A needle of two letters in a file of three is found in one poll or
across two. Three frames are one that unwinds, one that is unwound and the
target. All bounds (`MaxTime`, `MaxFrames`, `MaxDepth`, `MaxSems`, `MaxHandles`,
`MaxCount`, `MaxTimers`, `MaxHwnd`, `MaxActs`, `MaxEvents`, `MaxData`,
`MaxAnswers`, `MaxBody`, `MaxActivations`, `MaxQueries`, `MaxSize`, `MaxViews`,
`MaxLocks`, `MaxSearches`, `MaxHeld`, `MaxSwapchain`, `MaxSounds`,
`MaxInputQueue`, `MaxKeyHandles`, `MaxRuns`, `MaxFile`, `MaxRaises`,
`MaxCommands`, `MaxTitle`, `MaxClicks`) are guards named in the modules. No run
checks for deadlock: the programs modelled may stop, by halting, by a fatal
error, by exhausting the arena, or because the guest has nothing more to do.

The type invariants `TypeOK` of Scheduler, Heap, Files and Windows are proved;
those of KernelSync, CriticalSection and Sockets document their variables and
hold in the runs when named there.

### What the properties leave out

Some properties hold only of programs that keep away from one call, and say so in
their definition, because the code does not keep what they state with it:

* `ContextsMatch`: no unguarded nested calls (timer, hook and dialog callbacks
  are made without the guard, and one that blocks does break it), and no death
  inside a call. `NoMissedSignal`: no sockets and no duplicated handles;
  `SignalsReach` claims the same in a run that has programs with sockets, of the others. `TimerWakes`: a
  program that never calls timeKillEvent.
  `HandoffIsTaken` and `LockCountIsExact`: nobody died in the section. The guest
  does not close a handle that somebody waits on, nor delete a critical section
  in use; Win32 leaves both undefined.
* `SelectWaitsItsTime`: closesocket ends a select of another thread early.
* `HandleKeepsItsFile`: no DuplicateHandle, since closing one of two duplicates
  closes the descriptor they share (`tew/api/kernel32_io.py:131`).
  `LocksHaveHolders`: neither that nor fclose, which keep the locks.
* `PagesAreKept`: a program that commits regions at their base and reserves none
  at an address it only committed (`Tidy`); VirtualFree forgets only the commit
  at the base.
* `InitializersInOrder`: at most one thread loads, or no initializer waits. Two
  threads whose initializers wait get each other's returns
  (`tew/api/msvcrt_handlers.py:294`).
* `LibrariesAreReady`: code of a DLL that is itself still being loaded is
  exempt, for it may run with unpatched slots (see below); the order of DllMains
  is claimed until the first COM server is activated, since the dependencies of a
  server never run their DllMain (`tew/api/ole32_handlers.py:322`), and a
  DllMain does not wait for an import that is being loaded further down the same
  stack.
* `UsersAreCounted`: no GetRenderTarget, whose first result is counted once for
  device and guest.
* `DrawsFindTheirData`: the vertices of a frame in flight only if its fence was not
  signalled already when it was submitted, the textures of the frame that is being
  recorded only, and of these none after a Texture::UnlockRect, which replaces the
  image and leaves the descriptor set showing the old one; see below for both.
* `PlayCursorInBuffer`: no SetCurrentPosition, which during a mix moves the cursor
  past the end.
* `MemoryIsOnDisk`: no `--install-dir`, with which the file that is written is not
  the one that is loaded, and no broken write. `OtherEntriesKept`: keys that do
  not start with `;` or `#` (they come back as comments and vanish), and files
  that could be read.
* `PauseIsObeyed`: an operator who waits for one command to be taken before the
  next, and who may see the loop end meanwhile.

### Fairness

Scheduler: a nested call has a step budget, so the calls at each depth end, and
the main loop comes back to `preempt_slice` after each bounded batch (both
strongly fair, for other steps intervene). KernelSync: preemption, the heartbeat
and the re-execution of a wait by the thread that runs are weakly fair, for the
main loop does the first two forever. CriticalSection: a thread inside one of the
functions executes its next instruction unless it is blocked; nothing forces a
guest to enter or leave. Sockets: a pending call runs again when its sleep is
over, and the heartbeat comes (weakly fair); the poll is made again and again, if
with other steps between (strongly fair). Windows: a dialog loop looks at its
dialog on each turn (weakly fair), and the call at each depth of the stack has a
budget of steps that every return to it uses up (strongly fair, for calls above
it come and go). Exceptions: the host goes on with its calls, and a handler ends
or exhausts its two million steps; exceptions raised in handlers are limited by
the same budget (weakly fair). MainLoop: the loop takes its next step (weakly
fair). No model assumes that the guest, the operator or the network does
anything.

### Where the code disagrees with what it says

* `nested_death`. A thread that dies inside a nested call has already handed the
  CPU to another thread when `_invoke_emulated_proc` restores the dead thread's
  registers over it (`tew/api/user32_handlers.py:248`).
* `lost_wakeup`. The poll made while a thread is about to block can signal the
  very event it will block on (`tew/hardware/scheduler_zig.py:367-402`).
* `stale_timeout`. A wait that succeeds after its deadline leaves
  `wait_timed_out` set, and the next wait times out at once
  (`tew/api/kernel32_io.py:513-534`).
* `dispatch_cutoff`. A hook or dialog procedure that is abandoned when its steps
  are used up leaves the dispatches begun in it in `pending_dispatch`; the
  dispatch around it then returns with their stack pointer
  (`tew/api/user32_handlers.py:1399`).

Seen while modelling, with no run of their own: CoCreateInstance of a server that is
only half loaded (its own dependency's DllMain activates it) finds it loaded and
runs its code with import slots that are not patched; the comment in
`_ensure_dll_ready` that an already-loaded DLL adds no new IAT entries overlooks
it. The handle that LoadLibrary will return waits in one global
(`DLLMAIN_HANDLE_STORE`) while DllMain runs, so a DllMain that loads a library, or
another thread, changes it. SetEvent and
ReleaseMutex wake only those who wait through the handle they were given
(`tew/api/kernel32_io.py:695-756`). A modal dialog's loop discards the messages of every
other window (`NothingLost` allows it), and a child window made by
CreateWindowExA survives its parent. A pause before the first batch uses `batch`
before it is set; while paused the heartbeat counts the last batch again; a
command written between the reading and the removal of a trigger file is lost
(`run_exe.py:826`); a fault in the step over a breakpoint ends the loop without
offering it to the guest. A handler that blocks is taken for one that escaped, and RtlUnwind
does not call the handler of the frame at the head of the chain
(`tew/kernel/seh.py`). FD_CLOSE alone is never delivered; recvfrom and
gethostbyname stop every guest thread. A control whose text was emptied reads as
its default. Pages of a range that is used again are not cleared.
A frame of Direct3D can be submitted with a fence that is signalled already: the
first one, for CreateDevice makes the fence so and the first BeginScene has nothing
to wait for (`tew/api/d3d8/idirect3d8.py:494-498`), and the one after a Reset, which
clears `_vk_frame_submitted` and leaves the fence as it is
(`tew/api/d3d8/idirect3d8device.py:476`). Vulkan forbids that; where the fence then stays
signalled, the wait of the next BeginScene (`tew/api/d3d8/idirect3d8device.py:720-725`)
returns while the GPU still runs the frame, and resets its command buffer and writes
over its vertices. The model has these behaviours: CreateDevice, BeginScene, Present
and BeginScene again are enough to reach one. UnlockRect of a surface destroys the old image of the
texture before it waits for the GPU (`tew/api/d3d8/idirect3d8surface.py:174-183`), though a
frame in flight may sample it. Descriptor sets never return to their pool. RtlAcquireResourceExclusive
is not counted, and TlsAlloc uses no slot twice (`tew/api/kernel32_sync.py:285, 319`).

## Proofs

All theorems hold for every value of the constants allowed by the named
assumptions of the modules.

**SchedulerProofs.** `TypeCorrect`: `Spec => []TypeOK`. `ContextsSafe`: if all
nested calls are guarded and no thread dies inside one, then always
`CurrentIsReady` and `ContextsMatch`. `ContextsMatch` alone is not inductive: a
call that ends restores what it saved, so the strengthening says that while the
CPU is not stopped by a fatal error every frame was made by the current thread
and saved the current thread's registers. Guarded frames forbid switches, which is
what keeps that true; a death would break it, hence the assumption.

**CriticalSectionProofs.** `OwnerRecorded`, `HandoffExclusive`, `FieldsExact` and
`Implementation` (the refinement of Lock). The invariant says that the section
is one token: it is with the thread that possesses it, or in the signaled event,
or, when `LockCount` is -1, nowhere; that two threads never possess it; and what
the structure contains at each program counter of the possessor. That the count
is exact is about a sum over threads: `Total` of DataLemmas is that sum, with
the lemma that changing one summand changes it by the difference; it needs a finite
set of threads, which `ThreadAssumption` states.

**KernelSyncProofs.** `WaitsAgree`: a blocked thread waits for exactly the
handles of the call it will evaluate again. Inductive with the types of what
waits touch and with the fact that the current thread is ready: a wait is taken
back only by the thread that runs, so no blocked thread loses its `pending` call.
`MutexesKept`: an action property. Its invariant adds that handles in use name
objects already made, for a new object starts without an owner; every other
action changes owners through one operator that gives a mutex only if it is free
or already the caller's. `ConnectsKept` adds the types of the sockets. `NoSignalMissed` assumes
`PlainPrograms`, which duplicate no handle and select no socket on an event:
with either the property is false (`lost_wakeup`; the hazard at
`tew/api/kernel32_io.py:751`), and the programs of `kernel_waits` are plain.
It is proved by what each step frees: an object that becomes free through a
handle wakes all who wait through it, a wait that takes something frees nothing,
and a thread blocks only after its own evaluation failed.

**AddressSpaceProofs.** `TypeCorrect`, `BlocksApart` and `BlocksInArena` of Heap: the
invariant `Sound` is stated of the tables (cursor, blocks, list), so that one
lemma per way of changing tables serves every caller: addresses are aligned,
blocks are pairwise apart, all lie below an aligned cursor, and free blocks are
not empty. `MemoryIsKept` follows cells, not blocks: a block and a remainder
have together the cells of the block that was split, and two blocks of one
address are one. `PagesKept`: the candidates of the search rise,
and no gap is between one and the next (an induction over the regions, which
Iteration of DataLemmas makes); so a candidate that fits is the first gap. That no page has
two owners, and that what is committed is reserved, rest on a program that is Tidy.
`RunInOrder` of Initializers: when loads stay apart there is one loop of
Python at a time, its frame is the only thread's whose code is inside an
initializer, and what that thread ran is an initial run of the table: the
invariant says which slot is next. `NextSlot` is a CHOOSE; that there is a next
slot is a lemma from the well-foundedness of the naturals.

`LibrariesSafe` and `ReferencesKept`, of Loader and OleCom together, rest on one
invariant, `LibInv`, for any DLLs and imports, cycles included, any number of threads and
any depth of loads in loads. A stack of frames is good: each frame rests on one it may
rest on, only one thread is inside a handler, and while the program starts there is
nothing but dependencies, each in the reach of those below. A slot that still holds what the
file had waits in `unpatched`, or its DLL's load has yet to come to it. A DllMain
that has not started waits in `pending`, or its DLL is being loaded, or has
none. The order of the DllMains that wait needs the most: if one waits before another
that it imports, they are in a cycle (`Reaches`, the least set closed under
imports, lets this be stated without recursion); that is kept because every link that
patching will make is known when the list grows. The references balance at every
step and not only at the end: each activation owes, stage by stage, what `Owed`
says, and the references counted are those held by guests and the sum of what the
activations owe.

`StubsBelong` of StubTable: no two entries share an address but exports of one
guest code and its hooks, for each registration takes addresses from the next
free one on, and no more than it has entries; so the stubs stay below
`RegionEnd`, where the patches of real DLLs begin, and below the trampolines as long
as the premise of `CallsReachTheirHandler` says so. The last entry of an address
is then the stub's, the first one of its DLL, and a lookup by key finds the same
entry when the table grows behind it.

**ResourcesProofs.** One invariant of Files serves `FilesTypeCorrect`,
`LocksSafe` and `HandlesSafe`. Its core is who owns a descriptor: of a program that
duplicates nothing, each open descriptor is that of at most one entry, and each
entry is that of one handle; so a close takes no other handle's descriptor away,
whichever number the host gives out next. Locks are a list: `Kept` of Selection
and its lemmas say what is left after a close. `DrawsSafe` and `ContentsKept` of D3DFrames: the
vertices of a recorded draw lie below the cursor, and nothing is written below it
until the cursor starts again with the next frame. As long as a frame in flight is
awaited, its fence is not signalled and no image is acquired, so BeginScene waits
and no new frame begins. Each texture has a set of its own or the default one, and a set that was given
to a texture shows it; a recorded draw has the default set or the one its texture
still has. The layout recorded for an image is the one its last
frame left, or none for an image that was never used. `Inode` is a set of
positive integers. `SearchesComplete` of FindFiles: what a search gave is always
the beginning of the list it was made with, and that list names nothing twice
because it is kept, as `Kept` keeps it, from an alphabet that does not.

`ObjectsKept` of D3DObjects, for any heap, sizes and levels and a finite set of
stages, rests on `ObjInv`, which has two halves. The heap is `Good`: every
address below the cursor that is in use at all is in one place, on one free list
once, an object, or the data of one object. While a handler is at work it may
also be loose, taken and not yet used, so every operator on the heap is a lemma
about a heap with loose blocks. An address that was a surface is never anything
else, for its block returns to the list of its kind; so what a texture names as
its levels are surfaces even where the guest has released them too often. This
half needs no assumption on the program. The counts are `Counted`: an address
in use is alive and has at least as many references as users. That half assumes that
neither GetRenderTarget nor GetDepthStencilSurface is called: their surface
starts with a count of 1, as the guest's, and the device remembers its address
without a reference. The release of a texture gives back its own block
first and then releases its levels one after the other; in between, each level
still to come counts as used once more (`Left`), although no texture that is alive
names it. The creation and the release of levels are `FoldLeft`s, and so iterations.
The proof also found a fault of the model: `AllocObject` was a CASE whose first two
guards could hold together, which leaves TLA+ free to take either; it is an IF now,
in the order of the code's returns.

**ServicesProofs.** `CursorsSafe`: not inductive because the mixer adds, in a
later step, what it took in an earlier one; the strengthening says that the chunk taken still fits behind the cursor of the buffer in turn.
`RegistrySaved` needs that loading is idempotent (a path that
was moved is not moved again), `OthersKept` that writing a parsed profile back and
parsing it loses only keys that look like comments. `AnswersAreOne`: the work is
in the send, which may break off between the status and the body.
`BreakpointsSafe` is inductive as it stands; its theorem goes through the cases
of a handler that keeps, drops or unregisters. `UnwindsSafe`: the invariant
orders the stack of host calls: each unwind stands where the chain does, it has
called exactly the frames between its first and its next, and whatever
nests above it leaves the chain at or before where it stands. `TextNoticed`: a
trigger keeps the last letters it read, one fewer than the text has, and the
text is in the old and the new letters together exactly if it is in one poll's
window or was found before. `AutomationAssumption` says that the text is not
empty, for which `FileTextTrigger` raises ValueError. `InputCounted` is about `FoldLeft`:
the state of the mouse replayed from its entries is an iteration over them, which can be
cut where a read took the first entries away; a peek cuts nowhere.

**WindowsProofs.** `WindowsTypeCorrect`, `OrderKept` and `NoMessageLost`. What
makes the order inductive: nothing in the queue is for a handle not given out
yet, so that the WM_INITDIALOG which CreateDialogParamA digs for is the last
message and taking it out reorders nothing; and a WM_INITDIALOG waits for a live window only
while the loop of its dialog, which is not done, is the innermost activation.
A pump of SDL is an iteration over its events, whose lemma (`PumpedGood`) is that every
queue between is good. No message is lost: each action removes at most what it
hands out, or what a dialog's loop discards.

**DataLemmas** has what these share: induction over a set of naturals and over a
finite set, as statements about sets, since no theorem with an operator for a
parameter can be used here; the values of an iteration, and what `FoldLeft` is in terms
of one; the least and the largest element; the elements a list keeps; sums over a
finite set.

Only model-checked: everything about liveness (`RunnableThreadRuns`,
`HandoffIsTaken`, `BlockingCallsEnd`, `TimedWaitEnds`, `TimerWakes`, `DialogEnds`,
`DispatchEnds`, `PauseIsObeyed`), which is beyond this prover under fairness. Every
invariant and every action property of the passing runs is stated by a theorem.

## Not modelled

* The CPU and guest memory: native, not in the repository; one instruction is one
  step here.
* The PE parser and resources, the C library's strings, numbers and formats,
  locale, version and time functions: pure functions of their arguments.
* RTL resources and TLS slots: two small sequential tables.
* NT system calls: a table with two handlers, which write to a file or end the
  process.
* Drawing, samples, pixel formats, render states, capabilities, logging,
  snapshots and developer tools: they read state, or write what the guest does
  not see.
* Windows leaves out geometry, window classes, `register_child`, message boxes,
  the scripted dialog hook and threads with message loops of their own, which
  would share the one queue. KernelSync leaves out timers that call guest
  functions, which are nested calls of Scheduler.
* Arithmetic near 2^32 (deadlines, huge sizes): clocks and sizes of the models
  stay far below.

## What could come next

The composition of Windows' nested calls with Scheduler's frames, so that a
procedure that blocks is covered; the thread stacks of Loader with the scheduler
underneath; and the remaining handlers of user32 and kernel32.
