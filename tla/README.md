# A specification of Cameyo's Package Editor and of the core of its players

Cameyo's repository holds two programs that share nothing but a product: the
**Package Editor** (C#, `PackageEditor/`, over `CameyoSDK.NET/`), which edits
virtual application packages through a native DLL, and the **players**
(`WinPlayer/`, C#; `Players/`, a FreeRDP/WinPR tree in C with Cameyo's Android
client), which play packages on a remote machine. This directory models the parts
where order, threads and failure decide whether the program is right:

| module | of | what it is |
|---|---|---|
| `EditorSession` | `PackageEditor/MainForm.cs`, `RegistryEditor.cs` | one editing session: UI thread, timer, registry loader threads |
| `WaitDialog` | `Classes/Common/Common.cs` | the "please wait" windows: one thread each, one named event |
| `PackageOpen` | `PackageEditor/MainForm.cs` | opening a package: password, conversion, renames, kills; over `WaitDialog` |
| `RecentFiles` | `PackageEditor/MainForm.cs` | the list of recent packages, call by call on its registry key |
| `RecentList` | (abstract) | what that list promises |
| `CriticalSection` | `Players/winpr/libwinpr/synch/critical.c` | WinPR's critical section, one action per access to a shared field |
| `Mutex` | (abstract) | a re-entrant lock, what `CriticalSection` promises |
| `MessageQueue` | `.../utils/collections/MessageQueue.c` | WinPR's message queue, over `Mutex` |
| `MessageFifo` | (abstract) | a first-in-first-out queue, what `MessageQueue` promises |
| `ThreadPool` | `Players/winpr/libwinpr/pool/` | the thread pool with its queue and its countdown event |
| `StaticChannels` | `Players/libfreerdp/core/client.c` | the manager of the static channels and its plug-ins, over reconnections |
| `RdpSound` | `Players/channels/rdpsnd/client/` | the sound channel: three threads and two queues |
| `DynamicChannels` | `Players/channels/drdynvc/client/`, `audin/client/` | the dynamic channels, with audio input and its capture thread |
| `MC*` | | instances for TLC |
| `*_proofs` | | theorems and TLAPS proofs; `PackageOpen_proofs` has those of `RecentFiles` too |

Run TLC with `tlc -config X.cfg MCModule`, the proofs with `tlapm M_proofs.tla`.
`PROJECT.json` lists the components, the runs, the hazards, the source lines behind
each definition, and one mutant of the code for each property. The operators whose
comment begins "faulty variant" are those mutants; no specification uses them.

## Inventory

**Package Editor session** (partly modelled: `EditorSession`). State: the package handle
(`virtPackage.opened`, `hPkg`, `openedFile`), the registry work key
(`regEditor.workKey`), `regLoaded` and `regLoadThread`, three dirty flags, the
timer, the visible controls. Operations: every menu handler of `MainForm` that opens,
saves, closes or creates a package, leaves the program or restarts it elevated; the
editing of properties, files and registry. Three actors touch the same fields without
a lock: the handler running on the UI thread, the timer's ticks (which also run
inside the message loop of a dialog), and the loader thread that asks the native DLL
for the registry. Handlers nest: closing saves, saving closes and opens again,
opening closes. It is correct when no edit is dropped unasked, no key of a closed
package is used, a load that has ended is shown, and the UI never hangs.

**Conversion and the list of recent packages** (modelled: `PackageOpen`, `RecentFiles`).
Opening a package of an older version asks, converts it into `.new`, deletes `.old` and moves
two files; each of the three may fail and the program may be killed between them. It is
correct when the package's contents survive under one of the names. The list lives in a
registry key that all editors of a user share; it is correct when it has no holes, names
no file twice and is in the order of use.

**Common utilities and the wait window** (partly modelled: `WaitDialog`). Each
`PleaseWaitBegin` starts a thread that shows a window and waits for a named auto-reset
event; `PleaseWaitEnd` sets it. It is correct when as many windows end as have begun.
`ProgressForm`, the list of languages and the Win32 helpers keep no state.

**Package handle wrapper** (`CameyoSDK.NET/PackageAPI.cs`, external to the models).
P/Invoke over `PackagerDll`; its operations appear in `EditorSession` and `PackageOpen` with
every outcome the editor distinguishes.

**File system editor, property dialogs, registry file import and export** (not
modelled). They are sequential; their dirty flags and their reports of a change are
what reaches the session.

**Critical section** (modelled: `CriticalSection`). State: `LockCount`, `SpinCount`,
`RecursionCount`, `OwningThread`, the POSIX semaphore. It is correct when it is a re-entrant
lock, when its fields mean what the comments in the code say they mean, and when no
wake-up is lost or stolen.

**Message queue** (modelled but for its destruction: `MessageQueue`). State: a ring buffer
that doubles, a critical section, a manual-reset event. Used by the channels, the input and
update proxies and the clients. It is correct when it is a FIFO queue and the event tells
waiters the truth.

**Thread pool** (modelled: `ThreadPool`), with the queue and the countdown event it is made
of. Workers share the queue; `WaitForThreadpoolWorkCallbacks` waits for the whole pool. It is
correct when a wait returns and means that the own work is done, and nothing is freed
under a worker. The other collections (hash table, lists, stacks, buffer pools) are
sequential containers and are left out.

**Virtual channels** (partly modelled). The static channel manager moves what the plug-ins
write to the connection and tells them of its events (`StaticChannels`); the sound
channel plays and confirms waves (`RdpSound`); the dynamic channel manager multiplexes
channels the server creates (`DynamicChannels`). They share queues, events and locks between
the main thread, one thread for each plug-in and threads of the devices. They are
correct when every write accepted is completed, every connection finds the channels open,
confirmations are in order, fragments stay together, both sides agree on what is
open, and a disconnection ends. Clipboard, printer, serial, drive, USB, TSMF and the server
halves are left out.

**Android client** (not modelled as such). Its channel thread and the order of its closing
(`android_freerdp.c`) are one of the clients of `StaticChannels`. `android_event.c` is an array
that two threads grow and shift without a lock: in C its meaning is undefined, and a model
that chose some order of the accesses would say more than the code.

**WinPlayer** (not modelled). A window, a worker thread and an external process
race each other to a cancel button; package creation polls a server.

**RDP connection** (`libfreerdp/core`, not modelled). State machines driven by a
server: negotiation, licensing, activation, redirection.

**RPC gateway** (read, not modelled). The callback at `rpc_client.c:430` tests
`Stream_EnsureCapacity` the wrong way round and reports an error when the buffer could be
grown, so that no bind completes: the virtual connection and its receive-window flow
control are unreachable in this code.

**Events and waiting, files, pipes, sspi, crypto, smart card, comm** (not modelled). Emulation
of Win32 on POSIX; the events of the modelled parts are modelled inside them.

**Codecs, GDI, caches, orders, other clients, servers, vendored code** (left out): pure
data transformation, calls of a window system, or not written here.

## Plan

Done, in this order:

1. `EditorSession`: the program's own core, with the most state shared by threads.
2. `CriticalSection` refining `Mutex`; `MessageQueue` over `Mutex`, refining `MessageFifo`.
3. `ThreadPool` and `StaticChannels`, which use them.
4. `RdpSound` and `DynamicChannels`, the plug-ins with the most threads.
5. `PackageOpen` over `WaitDialog`; `RecentFiles` refining `RecentList`.
6. The proofs: types, every safety invariant a passing run checks, all three refinements.

Left, in this order:

1. The remaining plug-ins that keep a thread of their own (drives, clipboard) on
   `StaticChannels`.
2. `PlayWindow` and `PkgCreate` (WinPlayer): the cancel button against the worker, and the
   polling of the server; then `RdpConnection`: negotiation, activation, redirection.

## EditorSession

The UI thread is a stack `ui` of frames, so that nested handlers (`PackageClose`
inside `PackageOpen` inside `Save`) return where the code returns; `ret` is the Boolean
a call returned. One action stands for the stretch of a handler between two points
where another actor may act: a dialog, a wait, or a second read of `regLoadThread`.
`ThreadedRegLoadStop` and the selection of a tab are split at every read of the field,
`ThreadedRegLoad` at every store, on the loader's thread and on the UI thread, where exporting
runs it. An uncaught exception
unwinds to the message loop, as `SetUnhandledExceptionMode(CatchException)` and WinForms'
`ThreadException` dialog have it. A loader is a record: where it is in
`ThreadedRegLoad`, the package whose key it asked for, and whether `Abort` was called on
it (a thread in a native call dies only when the call returns).

The package's content is reduced to which of its parts ("main", "fs", "reg") carry edits:
`dirty` holds the program's three flags, `unsaved` is a history variable of edits
neither saved nor given up by answering No. It starts empty with each opened package;
that nothing is in it when the previous one is closed is what `NoSilentDiscard` says.
Controls that set no flag (the auto-update wizard, protection and encryption) are not edits
of the model.

Properties:
- `KeyOfOpenPackage`, `SoleLoader`: a loader that may still write is the one
  `regLoadThread` names, and the key is never one of a package that was closed.
- `UnsavedWorkIsFlagged`, `NoSilentDiscard`: what `PackageClose` asks about is all there is,
  as long as no `.reg` file is dropped (see below).
- `RegistryShown`, `UIReturns`: liveness of the load and of the UI thread.

`MaxSessions` bounds how often a package is opened; two are enough for anything left over
from one to meet the next. Two loader slots let one that was aborted in a native call
coexist with its successor. `EditParts` and `ExtraOps` split the work over two
passing runs. They also mark two operations out of certain runs, because the program does
break the property there and no text of the repository says it should not:
- dropping a `.reg` file between the end of a load and the next tick: the tick clears the
  flag, so `editor_edits` has no "drop". No other operation can have an edit before the first
  tick, so that nothing is checked or proved about the tick that clears a flag: the only case
  in which it matters is the one left out;
- the engine swap (an `AppVirtDll` or `Loader.exe` dropped on the window): it closes the
  handle but not the key, so `editor_loader` has no "swap". `editor_edits` has it.

In the theorems these are the assumptions `NoDrop` and `NoSwap`.
Exporting is left out of `editor_loader` because it breaks `SoleLoader`: that is the
finding of `editor_export`, and the assumption `NoExport` of the theorems.

Fairness: loader threads are scheduled (WF); a due `WM_TIMER` is delivered whenever the
message queue runs empty, which recurs unless the user floods the queue for ever (SF on the
tick); the UI thread goes on when it is not waiting for the user (WF). The user is never
obliged to do anything, so no property relies on an answered dialog.

## WaitDialog and PackageOpen

`PackageOpen` is the handler from the question about unsaved changes to the last
`PleaseWaitEnd`, at the grain of the calls that wait for the user, for the native DLL or
for a window. What `EditorSession` says about the package that is closed first is left
out here, and the other way round `EditorSession` has the conversion only as an outcome. The
three files each hold nothing, the old or the converted package, or a file that an earlier
conversion left. The delete, each move and the conversion itself may fail; the program may
be killed at every step and started again on the files as they are.

The wait windows are threads that wait for an event with a name. Nobody keeps a handle of the
event but the threads that wait for it, so the garbage collector may close it while no
window is up (`Collected`), with its signal. A window may be told to end while another
is still waiting, and any of them takes the signal. One timing assumption is
made: the sleep of 500 ms in `PleaseWaitBegin` is long enough for the new window to come
up and for a window, which looks every 10 ms, to see its signal (`Slept`). Without
it two signals may fall together and a window stays. Two slots for windows are one more
than are ever meant to be up.

- `ConversionSafe`: the package is always under one of the three names; with nothing under
  its own it is under both others; success is reported only of a conversion that took place.
- `HiddenAtTheEnd`: no window stays in front of the editor or of a message box, except of
  the question whether to overwrite, which the code does show under the window (`MainForm.cs:332`).
- `WindowsEnd`: when the user leaves the editor alone, the windows go. Fairness: the UI
  thread and the window threads run; the user is free.

## RecentList and RecentFiles

`AddFile` browses the values of the key, deletes those with the file's name, deletes the
last, looks for a hole, moves the values in front of it one place down and sets the first.
Each call on the registry is a step, the read and the write of a renaming excepted.
The list starts in every state an editor leaves it in. `RecentFiles` has any number of
editors; the run and the theorems have one (`OneEditor`), because with two the values
really are gone when they are deleted or moved, and nothing in the repository promises
otherwise. `shown` is the list as the last `AddFile` left it, and refines
`RecentList`: the file first, no file twice, the others in their order, the oldest of a
full list dropped (even if the file was in it, as the code has it). A list of three and four
files have every case: full or not, the file first, last, between or absent.

## CriticalSection

Each thread is at a step `pc[t]` of the call it is in, and each access to a shared field
is a step. Threads are clients that enter, try and leave as they like, up to
`MaxDepth` nested entries, and leave only what they have entered; they delete the section
only when nobody is in a call, as its callers must. `depth[t]` is what the client knows,
`RecursionCount` and `OwningThread` what the section knows. `SpinCount` may be changed at
any time. The semaphore is weak: which sleeper it wakes is open. Interlocked operations
are atomic, and other accesses are taken in program order (the interlocked operations
are full barriers in the builds that matter).

`MCCriticalSection.cfg` has three threads, so that two queue behind a third and a spinner
competes with a sleeper; nesting two; spin counts 0 and 1 (another turn of the loop
repeats the same states). Fairness is weak fairness of the steps of a call that has begun;
no client is obliged to call. `NoLostWakeup` therefore assumes only that clients that
enter leave, and says that a thread stays asleep only if the semaphore keeps being posted
to others. Starvation of one of several sleepers is possible and not excluded.

`Interrupts` models `sem_wait` returning EINTR (`critical.c:119`), after which the caller
enters a section somebody owns. `Typing` is proved with it; everything else assumes that
no signal arrives, and says so.

## MessageQueue

One action per step that another thread can tell apart: waiting (outside the lock),
entering, the change of the ring, the change of the event, leaving. The lock is `Mutex`,
which `CriticalSection` is shown to refine. Consumers run one of the two loops the
repository uses (`MessageQueue_Get`, or `MessageQueue_Wait` and `MessageQueue_Peek`) until
the quit message; the other threads post, peek and clear. `Grown` is the doubling of the
ring, with its new half zeroed and the wrapped messages moved. `DispatchFails` is
`realloc` failing: the code returns with the lock held, and the model does too.

`MCMessageQueue.cfg` starts with capacity 1 instead of 32 so that the ring wraps and grows
twice with three messages; `MaxSize` bounds the messages in or on their way into the
queue, `MaxFailures` the failed growths of a thread. Deadlock checking is off because after a
failed growth the lock is held for ever and all others stop. Fairness: threads in a
call go on, consumers come back. `Drained` assumes the posting threads fall silent and none
of them was left holding the lock.

## ThreadPool

What the code does under the lock of the queue or of the countdown event is one step;
between these steps threads of the pool and clients interleave. A submission is a callback
instance that is made, counted, queued, taken, run and signalled; `stage` says where it
is. The memory for an instance, or for the queue to grow, may fail (`OutOfMemory`): the code
then drops the submission silently, or leaves the count up for ever (stage "lost"). The
count is unsigned and saturates at zero, and the model's does. That a wait of a worker fails,
upon which it would end (`pool.c:89`), is left out.

`MCThreadPool.cfg`: two clients, each of which may work on its own or submit and wait
while the other does; two threads of the pool, one of them started by
`SetThreadpoolThreadMinimum`; two work objects, so that a wait meets work of
another; three instances, so that one is queued while two run. `MaxOwed` bounds the
submissions of one work object that have not run. Deadlock checking is off because a freed
pool is never used again.

- `CountIsOutstanding`, `NoUseAfterFree`, `WaitMeansDone`: count, event and queue agree; a
  work object is not freed under a thread, and has run when the wait returns, although
  the wait is for the pool's count and others submit meanwhile.
- `SubmittedRuns`, `WaitEnds`, `CloseEnds`, under fairness of each thread of the pool, of
  every call that has begun and of the end of `CloseThreadpool`. `WaitEnds` is
  conditional on no instance lost and on submissions that pause.

## StaticChannels

The queue of writes between the plug-ins' threads and whoever processes it, `connected`, and
for each plug-in its channel, its thread and its buffer. A write first tests `connected` and
then posts: two steps, between which the connection may be gone. A plug-in finds itself by its
open handle; after `DISCONNECTED` it no longer does, and a `WRITE_COMPLETE` that
comes then frees no buffer. The model's clients are the two kinds of the repository: those
whose main thread does everything and that disconnect before they close or
reconnect, and the Android client, whose channel thread takes from the same queue and which
never calls `freerdp_channels_disconnect`. The X11 client can be given both
(`+async-channels`, called unstable by its own option text); with both, a
write in the hands of the channel thread can be completed after its plug-in forgot its
handle, so the theorems assume one thread on the queue when a client disconnects (`OneTaker`).

Two plug-ins, since the disconnection tells one while the other still writes; three buffers,
two for one plug-in and one for the other; any number of reconnections. Fairness: the main
thread except in its idle loop, the channel thread, and a plug-in's thread inside a write or
with a quit message to read.

- `CompletedBeforeDisconnected`, `NothingAfterTerminated`, `AllOpenWhenConnected`.
- `DisconnectEnds` and `CloseEnds`: the quit message reaches the channel thread whichever
  of the two threads takes it.

## RdpSound

The main thread puts PDUs together from two chunks and posts them, the client thread handles
them, a schedule thread sleeps for each wave and confirms it. `device` is the kind of
sound device: none, one that calls back when a wave has sounded (winmm; `playing` has the
waves it has not played to the end, which are freed with it), or one with the schedule
thread. The quit message goes into two queues, one after the other, so the schedule thread may
find it there or be stopped by its event before. What a
disconnection does not reset (`expectingWave`, `isOpen` of a
plug-in that outlives it) is carried to the next connection. Two waves and two connections;
the client thread may lag two PDUs behind. Sleeping lengths and volume are left out; so are
a `WavePlay` that fails after it has taken the confirmation over and never confirms
(`rdpsnd_winmm.c:282`), and a device that fails to load for a later connection, with the
handle of the last schedule thread closed but not reset (`rdpsnd_main.c:824`).
`CutAnywhere` says whether a connection may end between the two PDUs of a wave: without,
waves are confirmed in order and all of them; with it, the first PDU of the next
connection is played as a wave (`sound_cut`). The theorems hold for both. A wave counts as
played when it has been handed to the device: with `isOpen` left over from the last
connection the new device may not have been opened, and then nothing is heard of it.
Fairness: the two threads, the main thread's second post and its join, and a device that
plays; neither server nor user is obliged.

## DynamicChannels

The server's view of each channel and the client's, the queue between them in each
direction, and two threads that write on a channel, the client thread and the capture
thread of audio input. A message goes in two fragments, both ways: more would repeat
the second. The channel's lock is held over all fragments of one message. The server sends
only on channels it takes for open. It may give a message up after its first fragment
(`GivenUp`) and then begins the next with a first fragment again; its
close may overtake the rest of a message. It uses a number again after the close was
answered, or creates it a second time while it is open (`ServerCreatesAgain`): the client closes
the channel there is and refuses the new one. It may begin with a create, before it has asked
for the capabilities. A message to audio input may change the format: then the client thread
joins the capture thread, whose write may be under way, and opens the device again
(`Reopened`). One number, used again
and again, is enough for a new channel to meet what the old one left: the properties are
about one channel, and the only things channels share are the threads and the queues.
Two messages for each use and two PDUs on the way bound the state; the theorems have any
number of channels and messages and a wire of any length.

- `FragmentsTogether`, `NoDataAfterClose`; `MessagesWhole`: what is left of a message given up or
  cut short never gets in front of the next; `Agreement`, after a second create too;
  `CapabilitiesFirst`: the server hears of the capabilities before anything else.
- `DisconnectEnds`: the freeing of a channel waits for a capture thread that may be inside a
  write. Fairness: client thread, main thread, capture threads.

## What the runs show

| run | result |
|---|---|
| `editor_loader` | 396,691 states: `KeyOfOpenPackage`, `SoleLoader`, `RegistryShown` hold |
| `editor_edits` | 1,032,689 states: `UnsavedWorkIsFlagged`, `NoSilentDiscard`, `UIReturns` hold |
| `editor_export` | violated: exporting during a load hides the loader from `PackageClose` (`MainForm.cs:946`); the comment at 430 says the close waits for it |
| `open` | 14,157 states: no conversion loses the package, no window stays |
| `recent` | 2,540 states: nothing throws, refinement of `RecentList` |
| `critical_section` | 69,168 states: the account of `LockCount`, the fields, no overtaking, no lost wake-up, refinement of `Mutex` |
| `message_queue` | 1,018,704 states: both event properties, refinement of `MessageFifo`, `Drained` |
| `pool` | 110,288 states: count, frees and waits are right; submissions run, waits and closing end |
| `static_channels` | 17,208 states: writes completed, channels open, disconnecting and closing end |
| `sound` | 7,832 states: confirmations in order and complete, disconnecting ends |
| `sound_cut` | violated: after a cut between `WaveInfo` and `Wave` the next connection's first PDU is taken for the wave (`rdpsnd_main.c:538`) |
| `dynamic` | 43,889 states: fragments, messages, capabilities, agreement, disconnecting ends |

What the models show besides, and no run reports because no text of the repository says
otherwise:

- A loader that ends while `ThreadedRegLoadStop` waits for it makes the `Abort` after the
  wait dereference null (`MainForm.cs:176`).
- Restarting elevated starts the copy on a file that is still open after a failed save
  (`MainForm.cs:2229`).
- The engine swap leaves the work key of the closed handle (`MainForm.cs:1836`); a `.reg` file
  dropped before the first tick loses its flag (`RegistryEditor.cs:115`).
- The question whether to overwrite is shown under the wait window (`MainForm.cs:332`); a
  `PleaseWaitEnd` too many hides the next window at once.
- Two editors on the key of recent files: a value is gone, or there twice (`MainForm.cs:2540`).
- An interrupted `sem_wait` counts as having got the section (`critical.c:119`).
- A failed allocation in the thread pool drops a submission without a word, or leaves every
  later wait hanging (`work.c:118`).
- `freerdp_channels_process_sync` is described as "called only from main thread"
  (`client.c:297`); the Android client's channel thread calls it too.

## What is proved

Each module `M_proofs` proves things about `M`, for every value of its constants that
satisfies the assumption named in `M`, unless a theorem assumes more. All invariants are
proved in the three steps of the same shape: the initial states satisfy them, each action
preserves them, they imply the property.

**`CriticalSection_proofs`**, for any threads, nesting bound and spin counts:
- `Typing`: `TypeOK`, with or without signals.
- `TokenInvariance`, `Exclusion`, `Bookkeeping`, `Refinement`, under `~Interrupts`. The
  invariant `IInv` says the section is one token: it is free, or with the one thread that
  `Holds` it (inside, entering or leaving), or in the semaphore. `MutualExclusion` is not
  inductive alone: a woken thread takes the section without looking at the counter, so
  one has to know that the semaphore holds a post only when nobody has the section. Every
  action is taken by one thread; they are grouped by what they do with the token
  (`CallsKeepIInv`, `TakingKeepsIInv`, `OwningKeepsIInv`, `GivingKeepsIInv`).
  `Refinement` maps `held[t]` to `RecursionCount` of the owner.
- `CountInvariance`, `CountAtRest`, for a finite set of threads besides: the exact
  account `LockCount + 1 = waiters + the holder's share`. It implies that the decision to
  post is right, and `LockCountAtRest`.
- `Queueing`: `NoOvertaking`, from the exact account and hence under the same
  assumptions: while a thread sleeps the counter is not -1, so the two exchanges of
  `TryEnterCriticalSection` and of the spin loop fail.

**`MessageQueue_proofs`**, for any threads, messages and initial capacity:
- `QueueInvariance`, `EventIsExact`, `Announced`: the lock is held around each step on the
  ring, at most one thread holds it, and a thread about to signal (reset) sees a
  non-empty (empty) queue.
- `RingInvariance`, `QueueTypes`: the indices stay inside the array and `tail` is where the
  message behind the last goes, through every wrap and doubling.
- `FifoImplemented`: `ImplementsFifo`. The abstract queue is the ring read from `head`;
  lemmas on indices modulo the capacity (`Wraps`, `Places`, `ContentsOfRing`) show that
  posting appends (`AppendAt`, `Appended`, `Dispatched`, the doubling included), that taking
  drops the first (`Taken`), and that clearing empties.

**`ThreadPool_proofs`**, for any workers, clients, work objects and finitely many instances:
`PoolTypes`, `PoolCount`, `PoolFreesSafely`, `PoolWakes` from `PoolInv`, and `PoolWaits`
with `OwedInv`. The invariant says whose each instance is: a submission under way
belongs to one client and a callback to one thread, an instance a thread may still read
is of a work object whose user has not finished waiting, and each work object owes as many
runs as there are instances of it.

**`StaticChannels_proofs`**, for any plug-ins, writes and reconnections: `ChannelTypes` and
`JoinedInvariance` for any clients; `ChannelsInvariance`, `WritesCompleted`, `ChannelsOpen`
and `NothingLeft` under `OneTaker`. The invariant says where each write is at
each step of the main thread: in a plug-in's hands, in the queue, in the hands of the one
thread that processes it, or late, and which channels are open. `NothingAfterTerminated` looks
at the end alone and is not inductive: one has to know that the plug-ins' threads are joined
one by one while the disconnection is told (`Joined`, checked by TLC first), that none is
started again on the way to the close, and, from the first invariant, that nobody has a write
in hand.

**`DynamicChannels_proofs`**, for any channels and messages and a wire of any length:
`DynamicTypes`, `ProtocolInvariance`, and from it `NeverMixed` (`FragmentsTogether`),
`ClosedIsQuiet` (`NoDataAfterClose`), `DeliveredWhole` (`MessagesWhole`), `BothAgree`
(`Agreement`) and `CapabilitiesAnsweredFirst` (`CapabilitiesFirst`). The first four are not inductive: each speaks of what has arrived, and a step can
break it many PDUs after the one that was wrong. The invariant therefore follows every channel
through all the PDUs still to be handled. `ClientPath(c, q, s, b)` says that the PDUs of `q`,
handled one after the other, each fit the channel `c` as the ones before have left it, and lead
it from `s` to `b`; `ServerPath` says so of the answers. `OnItsWay` has the two ends
agree, as long as they are connected, with what the other side has already done.
`ThreadsInv` says who holds the lock over the fragments of a message.
For the capabilities it is enough to know besides that the client has written nothing, and has
no channel to write on, before it is ready (`Early`).
The lemmas about paths (`ClientAppend`, `ClientTail`, `ServerAppend`, `ServerTail`) are
what each step needs: one PDU more at the end, one less at the front, others left in place.
The invariant was checked with TLC first, for one channel and for two.

**`RdpSound_proofs`**, for any waves, connections and lag, cut anywhere or not: `SoundInvariance`,
`SoundTypes`, `ConfirmationsInOrder`. The waves played are those confirmed, then the one
slept for, then those queued before the quit message, or those the device still plays;
`ConfirmedInOrder` follows.

**`PackageOpen_proofs`**, for any number of windows: `FilesInvariance`, `OpenTypeCorrect`,
`ConversionIsSafe`, from what the three files hold at each step of the handler;
`WindowsHidden`, from how many windows may be up at each step (at most one that has not
been told to end). It rests on the timing assumption of `Slept`.

In the same module, about `RecentFiles`, for any files and any length of the list, under
`OneEditor`: `RecentInvariance`, `RecentTypes`, `NothingThrown`, `ListedOnce`, from what holds
of the slots in each phase of `AddFile`; and `RecentImplements` (`ListImplemented`). For the
refinement `ListInv` compares each slot with the list as `AddFile` found it: deleted, in its old
slot, or moved by one between the loop's index and the first hole. `OpenedNew` and
`OpenedAgain` compute what the last call makes of the key when the file was not, or was,
among the entries kept; every call before it is a stutter of the list.

**`EditorSession_proofs`**, for any loaders, sessions and edits:
- `EditorTypes`: `TypeOK`, for any stack of handlers.
- `LoaderInvariance`, `LoaderIsNamed` (`SoleLoader`), under `NoExport`. The invariant says
  that a loader that still works is the one `regLoadThread` names (hence there is one at
  most), that a join is only ever on top of the UI stack, and that during it the field names
  the joined thread or none; the frames under it need not be followed.
- `SessionInvariance`, and from it `KeyIsOfOpenPackage` (`KeyOfOpenPackage`, under `NoExport`
  and `NoSwap`), `WorkIsFlagged` (`UnsavedWorkIsFlagged`) and `NothingDiscarded`
  (`NoSilentDiscard`), both under `NoDrop`. Here the frames matter: what `PackageClose` may
  assume of the flags, and the handle a handler finds when a call returns, depend on both.
  `Linked` says which step may be on top of which; `Phases`, `FlagPhases` and `KeyPhases`
  say what the fields hold where the UI thread is, in terms of the two top frames alone.
  That is enough because a return shows one frame that `Linked` ties to its callee:
  `BackPositions` is the one lemma about all returns, `GotoLinks`, `CallLinks`,
  `ReturnLinks` and `ThrowLinks` are about the stack. Both halves of the invariant were
  checked with TLC first, each with the optional operations it allows.

Only model-checked are the liveness properties, and all that holds under fairness, which is out
of the prover's reach: `RegistryShown`, `UIReturns`, `NoLostWakeup`, `Drained`, `SubmittedRuns`,
`WaitEnds`, `CloseEnds` (of the pool and of the static channels), `DisconnectEnds` (of the
static, the sound and the dynamic channels), `WavesConfirmed` and `WindowsEnd`.

## Not modelled

- Memory: double frees and uses after free at the end of an object's life (`critical.c:83` and
  238, `MessageQueue.c:202` and 214). The models keep counts, not addresses; `ThreadPool` alone
  follows the freeing of its work objects.
- `android_event.c:90`: a data race on an array and its size, see the inventory.
- The gateway, beyond its bind, see the inventory.
- `LONG` overflow of `LockCount`: it would take 2^31 entries.
- The order in which weakly ordered processors make plain stores visible.
- What the native DLL does, beyond success, failure and the handle it was given.
- Hazards that were read and have no model yet: the auto-update wizard and the protection
  controls change the package without setting a flag (`AutoUpdateForm.cs:98`); WinPlayer's
  cancel buttons against its workers; the encoder that leaves on an error without waiting for the
  tiles it has submitted (`rfx.c:1389`); two first uses of the default pool that race for its
  initialisation (`pool.c:118`); the sound channel's times in 16 bits and its `isOpen`; the lengths in the headers of `drdynvc`; a
  second open of audio input.
- Everything that transforms data without sharing it: codecs, orders, caches, parsers of
  `.reg` files and of license and certificate data. Tests reach it better than a state
  machine does.
