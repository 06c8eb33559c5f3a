# Verification of headlessdesk

headlessdesk connects to a desktop through named input and output backends and
offers it to agents over HTTP, MCP and a FUSE filesystem. This directory holds
TLA+ models of that program, the TLC configurations that check them, and
TLAPS proofs about them. Paths below are relative to `src/internal/`.

    tlc -workers 2 -config ControlService_safety.cfg MCControlService.tla
    tlapm ControlServiceProofs.tla

## 1. Inventory

| Component | State it keeps | Operations | Talks to |
|---|---|---|---|
| Control service (`control/service.go`) | none of its own; each request has its mapped points, its drag position, the keys it has pressed | Screenshot, Click, DoubleClick, Drag, Move, Scroll, Keypress, Type, Wait | backends, one call at a time; called by every HTTP, MCP and FUSE goroutine, without a lock |
| FUSE filesystem (`fusefs/filesystem.go`) | per open input file: buffer, wrote, done, errno, a mutex; per open read file: its content | open, write, flush, release, read, crop lookup | the kernel; the control service |
| Composite (`desktop/session.go`) | joined error, done channel, two watchers | Status, Err, Close, watch | both backends |
| Server commands (`servercmd/command.go`, `mount_linux.go`) | the process: started backends, listener or mount, signal context | runServe, runStdioMCP, runFuseMount, startBackends, closeComponent | everything above |
| RDP session (`freerdp/client.go`, `client_bridge.c`) | client pointer, error, done; snapshot with its size; input lock | StartSession with graphics mode fallback, Screenshot, input calls, TypeText, Close | FreeRDP's thread and callbacks |
| VNC session (`vnc/client.go`) | frame, status, error, input lock | message loop, Screenshot, input calls, Close | LibVNCClient |
| KWin EIS input (`kwineis/backend.go`) | four device slots, regions, status | event loop, input calls, MapInputPoint, Close | libei, D-Bus |
| KWin screenshots (`kwin/backend.go`) | status, frame size | Screenshot, ScreenshotCrop, Close | D-Bus (shared with EIS) |
| Command backend (`commandbackend/`) | status, last error, one SSH client | one command per call, with a timeout | processes, SSH |
| Windows and macOS backends (`winlocal/`, `macoslocal/`) | status, frame size | the same calls | the platform's API |
| Authorization (`authz/authz.go`) | the tokens | AuthorizeRequest, AuthorizeScopes, MCPMiddleware | HTTP and MCP routes |
| HTTP and MCP routes (`httpapi/`, `mcpapi/`) | none | decode, authorize, call the service, answer | authorization, control service |
| Configuration (`servercmd/command.go`) | none | extends resolution, merge, validation | YAML file, flags |
| Input names and numbers (`inputcode/`, `apiinput/`) | none | key chords, button names, text to key events, rounding | every handler |

What is hard in it: requests run concurrently through a service without a lock;
every backend call may fail, and may have had its effect all the same; the
frame a coordinate refers to may change while a command runs; file handles are
shared by duplicated descriptors; two backends end on their own while the
process serves, drains and closes; native threads write what Go goroutines
read; a program outlives the call that started it; a number passes integers of
four widths, and a name two tables. What makes each component correct:

- control service: what goes down comes up or somebody was told; no error is
  lost; a request alone has exactly the effect it names;
- FUSE files: a command runs at most once, with whole writes, and its error
  reaches the closes; every call returns;
- lifecycle: an accepted configuration works; every started backend is closed
  on return, a clean return cuts no request off, a backend's error is
  returned, a backend that ends stops the server;
- sessions: no call on a freed client; a screenshot is one frame with its own
  size; done is closed after the error is set, and Close returns after it;
  the messages of one call are not mixed with another's;
- EIS: ready exactly when the four devices are there; points map into the
  regions of the device that moves;
- the other backends: nothing of a call acts after it came back, the status
  tells the last outcome, calls return;
- requests: nothing reaches the desktop without its scope; text arrives as it
  was given and leaves no modifier down; numbers end up where they point.

`PROJECT.json` lists the hazards line by line, each with the properties that
cover it.

## 2. The modules

| Module | Models | Proofs |
|---|---|---|
| `ControlService` | the service's sequences of backend calls | `ControlServiceProofs` |
| `FuseWriteFile` | the input files of the FUSE filesystem | `FuseWriteFileProofs` |
| `Configuration` | defaults, flags, presets, validation, builders: operators | |
| `ServerLifecycle` | the three server commands and the Composite; extends `Configuration` | `ServerLifecycleProofs` |
| `Resource` | what `desktop.Resource` promises: abstract | |
| `RdpSession` | the RDP session; implements `Resource` | `RdpSessionProofs` |
| `VncSession` | the VNC session; implements `Resource` | `VncSessionProofs` |
| `EisBackend` | the KWin input backend; implements `Resource` | `EisBackendProofs` |
| `CallBackend` | commands, SSH, Windows, macOS, KWin screenshots | `CallBackendProofs` |
| `Access`, `Inputs` | tokens and scopes; numbers, names, text: operators | |
| `Requests` | a request from its surface to the desktop; extends both | `RequestsProofs` |

`ServerLifecycle` relies on a backend as `Resource` describes it: it ends at any
moment, and its Close returns with done closed. `RdpSession` and
`VncSession` contain the part of the server that they meet (it waits for its
handlers, or gives up, and closes), and `ControlService` takes a backend's call
as one step that may fail; `Requests` and the backends' modules say what is in
such a call. A module that is too general for TLC has an `MC` module with
its instance.

Twelve runs, one for each question (`PROJECT.json` has the properties of each):

| Run | Instance | Distinct states | Result |
|---|---|---|---|
| `control_safety` | 2 clients (symmetric), 13 commands, 2 frames | 667 thousand | passes |
| `fuse_write` | 2 threads, 2 descriptors, 2 writes | 104 thousand | passes |
| `fuse_flush` | the same, 3 writes | | violation |
| `lifecycle` | 2 requests, 15 sample backends, 2 platforms | 59 thousand | passes |
| `eis` | 2 pointers, 1 keyboard, 1 caller | 417 thousand | passes |
| `rdp` | 2 handlers, 2 frame sizes, 2 modes | 488 thousand | passes |
| `rdp_torn` | the same | | violation |
| `vnc` | 2 handlers, 2 runes, 3 screens | 85 thousand | passes |
| `calls` | 2 callers, 5 kinds of backend | 399 thousand | passes |
| `macos_permission` | the same | | violation |
| `requests` | 2 clients, 7 kinds of desktop, 7-bit ints | 529 thousand | passes |
| `names` | the same | | violation |

What is left to do, in order: the read-only files and the crop directory of
`fusefs`; the D-Bus connection that the two KWin backends share; drags and
chords of `Requests`; an abstract ledger of held inputs that `ControlService`
implements.

## 3. ControlService

One request per client at a time; `req[c]` is what the handler's goroutine has
on its stack: the command, the point it has mapped so far (`target`), the drag
index or the number of the click (`step`), how many keys of the chord
`pressed` holds (`depth`), and the error `releaseKeys` joins (`err`). `frame` is the size
the output's `Status()` gives, `held` the keys and buttons that are down on the
remote desktop. An action is the code up to and including one backend call:

| Action | Code in `control/service.go` |
|---|---|
| `Start` | the handler's checks before any call |
| `MapPoint` | `mapInputPoint`, once per point, each time with the size of that moment |
| `MoveToStart`, `ButtonDown`, `ButtonUp` | `Click`, `DoubleClick`, `Move`, the ends of `Drag` |
| `DragMove`, `DragAbort` | the loop of `Drag` and its release after an error |
| `WheelY`, `WheelX` | `Scroll` |
| `PressKey`, `ReleaseKey`, `KeysReleased` | `sendKeyChord`, `releaseKeys` |
| `TypeText`, `WaitDone`, `NativeCrop`, `FullCapture` | `Type`, `Wait`, `Screenshot` |
| `Resize` | external: the output's frame changes by itself |

Every call may return an error, and a call that does may have had its effect or
not. `sent`, `suspect`, `blamed` and `alone` are history variables no action
reads: where a client's last pointer event went, which inputs had an error for
their last event, whether a call of the request failed, and whether the
request has had the service for itself. Button names, keys, points and frame
sizes are model values; pixels and PNG encoding are left out.

The run `control_safety` shows:

- `NothingSilentlyHeld`: a key or button that is down belongs to a request that
  has still to release it, or its last event returned an error.
- `OkMeansNoFailure`: "ok" is answered only if no call of the request failed.
- `AloneMeansExact`: a request that is alone and meets no error holds exactly
  its own inputs, all keys of its chord together, its button from press to
  release.
- `ReleasedWhereItWent`: a button goes up where the pointer was sent last.

Bounds: two clients are enough for every interleaving of a pair, which is all
the properties relate; the chord `ctrl+letter+ctrl` has a repeated key, which
the parser accepts; drags of 0, 1 and 2 points are around the length check;
two frames let each mapping of a path see another size. Clients are symmetric.
That the loops over keys, points and clicks end is no property of its own: each
is a `range` of Go over what was checked at the start, or counts down to zero.

`AloneMeansExact` says "alone" because chords are not isolated, though
`docs/api.md` has `/keypress` press all keys before it releases them: of two
requests that share `ctrl`, the shorter one releases it while the other one's
letter is still down. That no index leaves its path or chord is proved
(`NoIndexPanic`) and not checked by a run.

## 4. FuseWriteFile

`file[h]` is the `writeHandle` of `fusefs/filesystem.go` with the number of
descriptors the kernel counts; `call[a]` the request that is served for a
thread, or for the kernel's own Release, which goes by the handle's name.
`TakeWrite` is `Write`; `Finish`, `Read` and `Ran` are `finish`: up to the
service's command, for which the mutex is kept, the command as it goes through
its payload, and the rest. The command is handed the buffer itself and not a
copy, so `Read` takes one byte at a time from whatever the buffer is by then. The kernel (`Dup`,
`SendWrite`, `SendFlush`, `SendRelease`) is external: each close of a
descriptor sends a Flush, the last one is followed by a Release when no call is
in progress. `log`, `ran`, `failed` and `reply` are history.

- `RunsAtMostOnce`: the command runs at most once, and never with nothing.
- `RunsWholeWrites`: what a command has read, at any moment of its run, is the
  beginning of the file that the first so many writes make, and all of that
  file when it succeeded: no write of another thread falls between two of its
  reads. The mutex, kept for the whole run, is all that sees to it; a handle
  that let go of it before the command ran would break this one and not
  `BufferIsTheFile`.
- `BufferIsTheFile`: the buffer is what the writes make of a file, defined
  without replaying them (`Holds`).
- `OkCloseMeansRun`: a close says "ok" only if nothing was written or the
  command ran and did not fail.
- `EveryCallReturns`: under weak fairness of each goroutine; the mutex is held
  across a step only while the command runs, once per file, so no goroutine is
  overtaken for ever.

The run `fuse_write` has two threads, two descriptors, chunks that follow each
other, overwrite and leave a hole, and two or three writes per file
(`MaxWrites` bounds the writes a thread may begin). `fuse_flush` is a
violation: `EveryWriteRuns` is what `docs/fuse.md` says of shell redirection,
and with a second writer on the redirection the first close runs the command
and the second writer's bytes are dropped. A command that failed is left out
there: its caller was told.

## 5. Configuration and ServerLifecycle

`Configuration` has the operators of `servercmd/command.go` that make a
configuration out of the file, the defaults, the flags and the presets
(`Load`, `Resolve`, `Merge`), that validate it (`Valid`), and what the builder of
each backend still refuses (`Builds`). A backend is a record of the fields that
either side looks at; of a text only its presence is kept, of a duration
whether it parses, of a port whether it fits, of the ways to give SSH its
credentials whether there is one.

`ServerLifecycle` is the main goroutine of the three commands (`main` is its position, `result`
what it will return), the backends it starts, the Composite with its watchers,
the requests, and the signal. A backend is modelled by what the Composite may
rely on (`desktop.Resource`): it ends at any moment with or without an error,
its `Err()` may change while it is up, and its `Close` returns with its done
channel closed.

- `AcceptedConfigsWork`: no builder refuses a configuration that was
  accepted, its output can show the screen and its input can send every kind of
  input, also when one backend is both.
- `ReturnClosesBackends`: after any failure on the way.
- `CleanExitCutsNobodyOff`: a return without an error has waited for the
  requests; past the timeout of `Shutdown` the error is returned. Over stdio
  nothing waits for running tools, so that mode is left out.
- `BackendErrorReturned`: `Composite.Err` looks at the backends when its own
  error is not set yet, which this needs when the other backend ended first.
- `EndsWithItsBackends`: under weak fairness of the main goroutine and the
  watchers (a backend's Close returns, Shutdown's timer runs); requests are not
  assumed to end. Over stdio the end of a backend is only logged.

The sample files of `MCServerLifecycle` have every type of backend, right and
with one thing wrong each, every pair of them as input and output, and one of
them as both, with and without flags for the backend `default`, on two
platforms. The defaults give `default` the type `rdp` before presets are
merged, so a `default` that extends `command-base` keeps type `rdp` unless it
names its own.

The process ends, so the run does not check for deadlock. A signal while there
is no signal context kills the process and proves nothing about closing.

## 6. EisBackend

The KWin input backend of `kwineis/backend.go`. `slot`, `regions`, `ready`, `up`
and `err` are the backend's fields, `run` the position of the event loop, and
`batch` the events it has dispatched and not handled: it keeps `b.mu` while
there are any, so a caller runs only when `Unlocked`. `queue`, `there` and
`link` are KWin's side, which is external: devices come, are paused and go in
any order, and KWin may disconnect or the connection be cut at any moment.

| Action | Code |
|---|---|
| `CheckStop`, `PollTimeout`, `PollFails`, `Dispatch`, `HandleEvent`, `Drained`, `CleanUp` | `run`, `finish`, `cleanup` |
| `AddDevice`, `RemoveDevice`, `Handle` | `addDeviceLocked`, `removeDeviceLocked`, `handleEventLocked` |
| `Boot...` | the select of `New`, with its five seconds |
| `CloseByServer`, `CloseEnd` | `Close` |
| `MapInputPoint`, `MoveMouse`, `RefuseZero`, `StartKey`, `WithDevice` | the input calls, in the steps between which `b.mu` is free |
| `FullScreenshot` | `setFrameSize` of `kwin/backend.go` |

The run `eis` shows:

- `DevicesUsable`: a slot holds a device that KWin has resumed, and the regions
  are those of the pointer that will move.
- `ReadyIsExact`: Ready is set exactly while there is a device for each kind of
  input. The exception the code has, and the property names (`stray`), is the
  removal of a device that was replaced before: it clears Ready though nothing
  is missing, until a device resumes.
- `CallsAreSound`: an input call fails only when the status says so, or is
  refused for what it asks (a negative point, a wheel delta of zero, a text
  with a rune that has no key), and a
  mapped point stays in the regions of the device that moves, unless that was
  replaced between the mapping and the move.
- `EndsAsPromised`: the backend implements `Resource` (section 8), whatever order
  KWin's disconnect, the loss of the connection and Close come in: its error comes with Done
  and is final, and Close returns later. And an end that nobody asked
  for has an error when the done channel closes, which is when the Composite
  reads it (`UnexpectedEndHasError`).
- `EndsWhenItMust`: Close returns, a lost link ends the backend, a failed New
  leaves no event loop behind; under weak fairness of the event loop, of Close
  and of New's timer. Nothing is assumed of KWin, which may stay silent, for
  the loop polls with a timeout.

The instance has two pointers, one of which can replace the other and only one
of which has a wheel, and a keyboard: every slot can be filled by one device or
another, or be missing. One caller is enough, since callers only read. At most
one event waits unread (`MaxQueue`); the disconnection adds to it, so batches
of one and two events occur, and any order of events over several batches.
Coordinates are in quarters of a pixel (`Den`), one point is at the far corner
and one is refused.

Before the first full screenshot there is no frame size, and points are sent as
they are, where `docs/architecture.md` has them mapped into the regions first:
`CallsAreSound` is about mapped points only.

## 7. RdpSession

`freerdp/client.go` and the part of `client_bridge.c` that runs the session and
copies frames. `boot`, `mode` and `blanks` are StartSession's loops; `ptr` and
`mem` are the session's pointer and what it points to; `loop` is the session's
thread, in and around FreeRDP; `gdi` is FreeRDP's frame, of which only the size
in bytes is kept, `snap` the snapshot (the size of the bytes copied and of the
dimensions beside them); `reader[r]` a call of Status, Screenshot or input,
with the pointer it has taken. A session that was rejected is replaced by a new
one in the same variables, since StartSession keeps one at a time.

| Action | Code |
|---|---|
| `StartOnce`, `StartFails`, `CloseRejected`, `TryNextMode` | `StartSession`, `startSessionOnce`, `newConfiguredClient` |
| `Tick`, `Deadline`, `SessionDone`, `Judge` | `waitForUsableStartupSnapshot` |
| `Connect`, `ConnectFails`, `Disconnect`, `Disconnected` | `gofreerdp_run_persistent`, `post_connect`, `post_disconnect` |
| `EndPaint`, `Resize`, `ResetSnapshot` | FreeRDP's callbacks |
| `Report` | the end of `run`: `setErr`, then the deferred close |
| `Request`, `GetClient` | a call takes the client; a request may make several, also while the server drains (`again`) |
| `UpdateSize`, `UpdateCopy`, `SnapshotSize`, `CopySnapshot` | `snapshot_update` (twice), `snapshot_size`, `copy_snapshot` and the rows of Screenshot |
| `CloseBegin`, `CloseEnd` | `Close` |
| `ServerStops`, `ServerCloses` | the server of section 5, over HTTP |

FreeRDP is external. Its frame has no lock, so `snapshot_update` has two steps
in a reader's goroutine: the size, and then, under the snapshot's mutex, the
bytes and the dimensions of that moment. If the frame has been freed by then,
the dimensions are arbitrary. The model stops when the client is used after it
was freed (`uaf`) or StartSession panics. `freerdp_abort_connect_context` is
taken to be remembered: a connection that begins after it fails.
`raced`, `late` and `moved` are history: the frame changed in the middle of an
update; the session was closed with handlers running; the frame changed since
this call began.

The run `rdp` shows:

- `NoUseAfterFree`: the thread never outlives its client, and no handler uses a
  freed one unless the server's drain timed out (`late`).
- `FailedStartFreesAll`: no mode leaves its client or thread behind.
- `ImplementsResource`: the session keeps the promises of section 8, from the
  moment StartSession returns it; by then it may have ended already.
- `ScreenshotIsCurrent`: an image has the dimensions of its bytes and is of the
  frame of now, or of one that changed since the call began; unless the frame
  changed in the middle of an update, which `rdp_torn` is
  about.
- `StartReturns`: under weak fairness of StartSession, of its own reads and of
  Close, and of the session's thread once it was aborted; strong fairness of
  the deadline (a select does not choose a ready tick for ever) and of the
  loop's look at the abort between two events. The server may draw, resize or
  stay silent for ever.

Bounds: two handlers, so that one may read while another one is caught by
Close; two frame sizes, so that a frame grows and shrinks; two modes, one that
is probed and the last one, which is not; two blank screenshots reject a mode.

`rdp_torn` is a violation: `docs/api.md` says that `/screenshot` returns the
latest framebuffer. The size is computed before the mutex is taken, and the
mutex does not hold the frame's thread, so a resize in between gives the bytes
of one size the dimensions of another; with a larger frame Screenshot's row
loop leaves its buffer and panics. When the session disconnects in between, the
bytes come from a frame that is freed.

## 8. Resource and VncSession

`Resource` is an abstract specification of `desktop.Resource`: Done is closed
once, the error is there by then and does not change any more, and Close
returns only afterwards. It is what `ServerLifecycle` relies on, and
`RdpSession`, `VncSession` and `EisBackend` implement it; the backends of
section 9 do not, for a reason given there.

`VncSession` is `vnc/client.go` with its bridge. `loop` is the goroutine of
`run`, `lock` the input lock, `call[h]` how many messages the input call of a
handler has still to send; `sock`, `mem` and `handle` are the connection, the
client and the cgo handle. The screen is a number that grows, and an update
carries the number it shows.

| Action | Code |
|---|---|
| `Connects`, `StartFails` | `StartSession` |
| `Tick`, `LockForRequest`, `RequestFrame` | the ticker's branch of `run` |
| `WaitForMessage`, `HandleMessage`, `ReadFails` | waiting for and handling messages, `updateFramebuffer` |
| `SetErr`, `End` | the end of `run`, with its deferred close |
| `Input`, `LockInput`, `Send` | the input calls under `withInputLock`; a request may make several, also while the server drains |
| `ServerStops`, `CloseBegin`, `CloseEnd` | the server of section 5, `Close` |
| `ScreenChanges`, `SendUpdate`, `LinkCut` | external: the VNC server and the network |

- `NoUseAfterFree`: the client and the handle outlive the loop, and the
  handlers unless the server's drain timed out (`late`): after its checks,
  nothing but the drain keeps a handler's call from a client that Close frees.
- `CallsDoNotMix`: a press and its release, and the runes of a text, are not
  mixed with another call, nor with the ticker's requests.
- `FrameFollowsScreen`: the screenshots catch up with the screen, whatever
  input is sent meanwhile.
- `CloseReturns`: the shut socket gets the loop out of whatever it is at.
- `ImplementsResource`.

Fairness: weak for the loop as a whole, for a handler that has the lock, for
Close and for the VNC server's owed updates. Strong for `WaitForMessage`, since
a select with two ready channels does not choose the tick for ever, and for
`LockForRequest`, since `sync.Mutex` hands the lock to a waiter that starves.
Two handlers are a pair beside the loop; a text of two runes may fail between
them; three screens let one be skipped and another be on its way.

## 9. CallBackend

The backends that have no goroutine: a call reaches the desktop, and what
became of it is written into the status. `kind` chooses one of five: commands
here, commands over SSH, Windows, macOS, KWin's screenshots. `call[c]` is what
caller `c` is at and the program it has started (`job`), which goes on when the
call is given up; `exited` is a program whose children hold its output.
`link` is the SSH or D-Bus connection, `dead` when nothing comes any more and
nobody is told; `granted` is what there is of macOS's display, Screen Recording
and input permissions. The status is a side each for output and input, which
only macOS tells apart: `ready` and `err` are the sides that are ready and that
show an error.

| Action | Code |
|---|---|
| `Begin`, `Refuse`, `BadArguments` | the checks and the rendered templates |
| `StartJob`, `TimesOut`, `JobReturns` | `run`, `exec.Cmd`, `sshClient.Run`, KWin's `capture` |
| `ReportCommand`, `Decode`, `ReportCapture` | `setErr`, `clearErr`, `setReady` |
| `MovePointer`, `CallWindows`, `ReportWindows` | `winlocal` |
| `CallMacos`, `RefreshLooks`, `RefreshWrites`, `SetReadyMacos` | `macoslocal`, `refreshStatus` in its two steps |
| `CloseBegin`, `CloseEnd` | `Close` |
| `JobActs`, `JobExits`, `OutputCloses`, `LinkLost`, `GrantsChange` | external |

On macOS the keys ask for the input permissions before they post an event and a
capture fails by itself; the pointer asks only for the display (`CallMacos`).
Afterwards the pointer's calls write the status with `setReady`, which takes the
permission to record the screen for a capture, and all others with
`refreshStatus`, which probes one (`Look`): the two may disagree, and what a
capture gives without the permission is left to macOS.

- `NothingComesLate`: nothing acts on the desktop after its call came back,
  except over SSH after an error: there a command that timed out is
  abandoned, and repeating it may do it twice. A call that succeeded has acted.
- `StatusTellsOutcome`: however many calls overlapped, the status that the last
  of them leaves tells what came of one of them and nothing older: a side
  without an error means that a call succeeded, an error on the input side that
  a call failed or, on macOS, that an input permission or the display is
  missing. There the input side is ready just when input is permitted, the
  output side never hides that Screen Recording is missing, and no error at all
  means that nothing is. Of two calls at once either may clear or cover the
  other's error. Two history variables say when this applies: `outcomes` has
  the results since nobody was at work, `steady` says that no Close and no
  change of what is granted fell into that time.
- `ClosedIsDown`: the status of a closed backend says so, unless a call
  outlives Close: that one makes macOS connected and both of them ready again.
- `CallsReturn`: each call returns, or the SSH server has gone silent and Close
  is yet to come; the timeout waits for such a server.

Fairness: goroutines and timers run, KWin answers, and children of a command
that exited end and close its output. A program need not end, nor sshd answer.
Two callers are a pair, all the properties relate.

`macos_permission` is a violation: `docs/architecture.md` and
`docs/configuration.md` say that on macOS actions return an error when a
permission is missing. Moves, buttons and wheels post their event and answer ok
(`ActionsNeedPermission`).

These backends do not
implement `Resource`: their error comes and goes after Close too, and none of them
ends by itself; a lost SSH connection fails every later command and the
server goes on.

## 10. Access, Inputs and Requests

`Access` has the checks of `authz` and the scope of each route and tool;
`Inputs` what `apiinput` and `inputcode` make of numbers, names and text, and
what each backend makes of the result. `Requests` puts them in sequence: a
request arrives on one of four surfaces, is authorized, decoded, turned into a
list of bursts of events, and each burst is sent in one step, so that two
requests interleave. The desktop is external: it has a keyboard with modifiers
and caps lock. A text that is sent as characters is taken to arrive whatever
modifiers are down, and `input_synchronize(0)` to turn caps lock off. Any call
of a backend may fail at any time, on a session that goes on: FreeRDP refuses an
event while the session is connected and not in its active state
(`client_bridge.c:656`), and each send may fail by itself. A call that fails
delivers nothing of its burst.

| Definition | Code |
|---|---|
| `Accepted`, `Stored`, `FindToken`, `ScopesAllow` | `authz.New`, `findToken`, `ScopesAllow` |
| `Authorize`, `ScopeOf` | `requireScope`, `MCPMiddleware`, the registered tools; nothing over stdio and FUSE |
| `RoundInt`, `PositionsOf`, `CropsOf`, `Rotation` | the conversions of numbers, for each kind of desktop |
| `ButtonKnown`, `KeyKnown`, `TypeBursts` | the tables of names and the TypeText of each backend |
| `Receive`, `Send`, `Refuse`, `SendFails`, `Reply` | a request's way |

- `NothingWithoutScope`: what reached the desktop was allowed by an entry with
  the request's bearer and audience and a scope `docs/configuration.md` names.
  The first entry with the bearer and the audience decides; a later one with more scopes is
  not looked at.
- `TypedIsText`: text that was answered ok is on the desktop rune by rune. Where
  characters are sent, always; where keys are (EIS), if no modifier was down
  and caps lock was off; on RDP, unless the release of a modifier before it was
  lost.
- `TypingLeavesNothingHeld`: a modifier that typing put down and that is down
  while nobody types is on RDP, where a text failed (`spoilt`) and none has gone
  through since. On every other desktop there is none.
- `TextsDoNotMix`: two texts arrive one after the other, except on Windows and
  with ydotool, where each rune is a call of its own.
- `NumbersAreTheAsked`: a position is within half a pixel, a wheel turns the
  way it was asked as long as the encoding has room for the delta, and a crop
  of a positive width is the one asked for.

`names` is a violation: `AcceptedNamesReachTheDesktop` says that a click of
left, right or middle is not refused for its name. The service gives the
backend the canonical name (`BTN_LEFT`), and RDP, VNC and ydotool look it up by
`left`; the same goes for the keys of RDP and VNC.

What the constants may be is named in two assumptions. `InputsAssumption`: an
int holds every int32, uint32, uint16, rotation and screen, since every build is for a
64-bit machine (`.github/workflows/build.yml`). `RequestsAssumption`: the requests
name a surface and an operation there is, carry integers and text of known
runes, and a configuration's entries are records with scopes.

In the run the widths are small: int has 7 bits, int32 5, uint16 4, a rotation 3, a
detent is 3, the screen is 6 wide, and the requests have numbers on both sides of each
bound. The configurations of tokens have none, two entries of one value, two
of different audiences, and one that is refused.

What the bounds of these properties say of the code, found while writing them:

- A wheel delta of 256 to 511 on RDP is read as a negative one, and a negative
  one is not in two's complement (-120 is read as -136, -1 as -255); beyond
  that the delta is refused.
- Windows, macOS and EIS cut a delta to 32 bits: far ones turn the other way or not at all.
- A text on RDP that fails after its shift went down leaves it down, on a
  session that lives on: `sendASCIIKeyLocked` returns at once
  (`freerdp/client.go:358-370`). Every key is typed under it until a text gets
  far enough to release the modifiers.
- `releaseModifiersLocked` passes over its errors: when a release is lost, the
  text after it is typed under that modifier and answered ok.
- KWin's `CaptureArea` gets the low 32 bits of a crop, unchecked.
- A crop of a negative width is accepted on Windows and macOS, where
  `image.Rect` swaps its edges, and refused everywhere else.
- A number that rounds to one more than the largest int passes `roundInt`; no
  backend that counts in ints has room for what comes out.
- The pointer moves of a VNC drag send a button mask of 0, and would release
  the button; as long as names are refused there is no drag on VNC to see it.

## 11. Proofs

Eight modules hold theorems; each proves, for every value of the constants that
satisfies the module's assumption, an inductive invariant `IInv` with one lemma
per action (or group of actions that disturb the same part of it).

| Module | Theorems |
|---|---|
| `ControlServiceProofs` | `TypeCorrect`, `NoIndexPanic`, `HeldIsAccounted`, `ErrorsReported`, `ReleasesThere`, `AloneIsExact` |
| `FuseWriteFileProofs` | `TypeCorrect`, `RunsOnce`, `BufferCorrect`, `WholeWrites`, `OkClose` |
| `ServerLifecycleProofs` | `TypeCorrect`, `NothingLeftOpen`, `CleanExitWaits`, `ErrorReturned`, `AcceptedWork` |
| `EisBackendProofs` | `TypeCorrect`, `DevicesStayUsable`, `StatusIsExact`, `EndHasError`, `CallsSound`, `KeepsPromises` |
| `RdpSessionProofs` | `TypeCorrect`, `ClientOutlivesUsers`, `NothingLeftBehind`, `KeepsPromises`, `ImagesAreWhole` |
| `VncSessionProofs` | `TypeCorrect`, `ClientOutlivesUsers`, `OneWriter`, `KeepsPromises` |
| `CallBackendProofs` | `TypeCorrect`, `LeavesNothing`, `StatusTells`, `StaysDown` |
| `RequestsProofs` | `TypeCorrect`, `ScopesHold`, `NumbersHold`, `TypedHolds`, `NothingHeld`, `TextsApart` |

- Control service. `IInv` adds to the types, for each request, which commands
  can be at which call and that the points mapped match the path (`ReqOK`): that
  is what bounds the indices of `DragMove` and `ReleaseKey`. `HeldIsAccounted`
  then follows from one lemma on a step that sends events for a set of inputs
  (`HeldStep`): outside the set nothing changes hands, inside it whatever is
  down afterwards is the request's or suspect; each action is such a step.
  Three more inductions stand on `IInv`: after a failed call a request only
  releases, and a chord keeps the error (`Told`, for `ErrorsReported`); the
  last event of a request went to the point it has reached (`Reached`, for
  `ReleasesThere`); and while a request is alone, every other client is idle and
  what is down is what it has pressed (`Solo`, for `AloneIsExact`).
- FUSE files. A buffer is not compared with a replay of the writes but with
  `Holds`, and one lemma (about `Overlay`) shows that a write at any offset
  keeps it. The invariant adds whom each agent is served for (`ServedFor`), and
  that until `done` is set the command has not run (`RunState`). `WholeWrites`
  adds what a step does to the writes and to what was read (`HandleStep`): while a
  command runs the mutex of its handle is held, so the buffer it goes on to read
  is the one it began with, and afterwards a log only grows. `OkClose` adds that the
  error a handle keeps is its command's (`KeptError`).
- Lifecycle. `Started` ties the position of the main goroutine to the backends
  that are open; `Decided` ties the result to the requests that are left. That
  an error is returned is an action property and needs only the shape of the
  step that notices the Composite. `AcceptedWork` shows that what
  `ValidBackend` lets through, for the roles it was validated for, its builder
  takes; it does not look into the presets' merge and so holds of whatever
  configuration the merge makes.
- EIS. `EndHasError` needs two facts about events: nothing follows a disconnect
  in the queue or in the batch, so no `connect` or `resumed` can clear the
  error of a backend that has ended. `StatusIsExact` is a second induction on
  top of `IInv`. The third, for `CallsSound`, is about a caller between its
  steps: what it has mapped is inside the regions it used. That rests on
  geometry: a nonempty finite set of naturals has a least and a greatest
  element, so the union of regions has an area, and a point scaled into it and
  clamped stays inside.
- RDP. `IInv` has three parts beside the types. `Owner`: pointer, client, thread and
  Close agree, Close frees only when done is closed, and an error is set only
  by a thread that is about to end. `Turn`: StartSession
  reads only while it waits and closes only afterwards, and a handler that is at
  work while the session is closed was not waited for. `Frames`: a reader that
  has not seen the frame move knows its size, and the snapshot is of the frame or
  empty, until an update is raced; this holds through the steps between the two
  bridge calls, and carries `ImagesAreWhole`.
- VNC. `Owner` and `Turn` say the same of the client, the loop and Close;
  `Locked` says who has the input lock, which makes `OneWriter`.
- `KeepsPromises`, in both sessions and in EIS, is the refinement of
  `Resource`: the initial states map, and each step is one of `Resource` or
  changes nothing it speaks of, under `IInv`. In EIS an error is set by the step
  that closes done, and the invariant is that there is none before.
- Calls. `Job` says what a caller has started: a call that reports has left its
  program only over SSH and with an error. `Told` carries the status: an error
  is cleared only by a call that has succeeded or goes on from there
  (`Clearing`), and on macOS what a call has looked at is what there is as long
  as nothing granted changes (`Looked`), so that each write tells the truth
  (`MacosTells`). `Outliving` says that who is at work after
  Close has outlived it.
- Requests. `Shape` and `TokensOK` give clients and tokens their form, and
  `Granted` says that a request that sends was allowed its scope. That the first
  entry found is one of those with the bearer needs that a nonempty set of
  indices has a least element, which follows from `<` being well founded on the
  naturals. `NumbersInv` adds what is still to be sent: the last burst shows
  the position, rotation or crop that was asked for, which is arithmetic on
  each kind of desktop's encoding, done once when the request is decoded.
  The three theorems on text share `TextInv`: what a client has got and what it
  has still to send make up its text (`Completes`). On RDP this holds on every
  keyboard until the client takes the lock, since its first bursts clean the
  keyboard, and from then on for the keyboard that is there, unless a release
  was missed; where runes are sent, it holds on any; whoever holds the lock is
  typing; and a modifier is down from typing only by who has the lock or after
  a text that failed, since one that misses nothing ends with none. Under it
  lie lemmas on `Press` (a burst may be split anywhere) and on what
  `TypeBursts` sends. These need induction over the events of a text, for
  which the library's theorems take an operator as a parameter; so it is done
  by the least natural number outside a set (`AllNumbers`).

Checked by TLC only: the liveness properties, since fairness and ENABLED are
out of the prover's reach (`EveryCallReturns`,
`EndsWithItsBackends`, `EndsWhenItMust`, `StartReturns`, `FrameFollowsScreen`,
`CloseReturns`, `CallsReturn`); and the merge of presets in `Configuration`,
which no theorem looks into. Every invariant, action property and refinement
of a passing run is a theorem, and `TypeOK` is proved of all eight modules.

## 12. Not modelled

Pixels, PNG and JSON; key code tables; packaging; the health route. Of the
filesystem, the read-only files and the crop directory. Of the Composite, the
merged Status, which only joins what its members say. Of `EisBackend`,
the D-Bus calls of New that fail before the loop starts and the encoding of
events; the D-Bus connection, which the screenshot backend closes before EIS
has said goodbye on it. Of `RdpSession`, Probe, half
painted frames, and failures of realloc and gdi_resize. Of the configuration,
the decoding of YAML, environment and flags, a flag that resets a field to its
zero value, passphrases without a key, and an `mcp_path` that collides with
another route, for which the router panics. Of `Requests`, drags, double clicks, waits
and chords, whose order is the control service's, and the expressions a number
may be written as.
