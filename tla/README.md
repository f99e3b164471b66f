# A TLA+ model of NixBench's standalone session

NixBench runs a graphical desktop on a NetBSD console.  What is hardest to get
right in it, and hardest to test, is not drawing.  It is the small system of
processes that lets an ordinary user's desktop use a privileged display, gives
the console away and takes it back, and ends cleanly when anything in it dies;
and, inside the desktop, the tables in which the shell, the Wayland server, the
X window manager and the applications each keep their own view of the same
windows, keys and menus.  These modules model both from the C source, check
them with TLC on small instances, and prove the central facts with TLAPS for
every value of the constants.

Paths below are relative to the repository (`src/privsep_helper.c` and so on).

## 1. The system

    root recovery supervisor --fork--> root device worker --fork--> session core
      (recovery record, lock,            (wsdisplay, wscons,          (Wayland, desktop,
       signals, restoration)              VT switching, heartbeat,      applications)
                                          protocol helper)
                                              |    \--fork--> runtime sentinel
                                              +--- socketpair, private protocol --- core

    in the core:   desktop runtime --- shell, windows, menus --- built-in applications
                        |
                   Wayland server ---- clients, theme renderer
                        |
                   X window manager --- Xwayland (an X socket and a Wayland socket)

### Parts, their state and operations

| part | source | state | operations | what makes it correct |
|---|---|---|---|---|
| protocol helper | `privsep_helper.c` | session generation, frame being received, frame being displayed, staging buffer, outbound ring, heartbeat token | feed (one handler per message), suspend, resume, send_input, complete_frame, send_ping, take_pong, report_fatal, consume_outbound | frames are shown whole, only on a console it owns, never over another ownership's pixels; controls are neither lost nor reordered; stale input is never sent |
| protocol codec | `privsep_protocol.c` | parser buffer, expected sequence number | encode, feed | what is decoded was encoded; malformed bytes are refused |
| privsep client | `host_privsep_client.c` | ownership as the core knows it, frame being sent, staged message, control queue, event queue | present, poll/wait, complete release/acquire, request shutdown, one handler per message | no message of it is refused by the helper; lifecycle events are never lost behind input |
| session core | `session_core.c` | pending serial, damage, shutdown flags; applications, runtime directory | handshake, event loop, present, orderly shutdown | what was drawn becomes visible; a logout ends the session |
| device worker | `wsdisplay_session_runner.c` (`run_device_worker`) | loop position, submitted frame | drain, input, flush, heartbeat, host event | a switch never waits for the core; it notices every death |
| wsdisplay host | `host_wsdisplay.c` | lifecycle state, signal flags, event queue, mapping | ingest signals, present, complete release/acquire, cleanup | writes video memory only while the console is ours |
| watchdog | `session_watchdog.c` | phase, deadline, tokens | note ready, note pong, advance, wait timeout | expires neither early nor late |
| supervisor | `wsdisplay_session_runner.c` (`supervise_device_worker`) | child status, signal escalation | signals, reap, contain, restore | the core is gone before the console is restored |
| runtime sentinel | `session_runtime_sentinel.c` | runtime directory handle | READY, CLEAN, CLEANED | the directory is removed only after the core's group is gone |
| recovery record, takeover | `wsdisplay_recovery.c`, `wsdisplay_console_session.c` | record on disk, saved console state | write, take over, restore, remove | a crash anywhere leaves a console that can be restored |
| raw input, shortcuts | `wscons_input.c`, `session_console_shortcuts.c` | held keys and buttons, carried motion, chord state | poll, suspend, resume | nothing stays held over a switch; neither device starves the other |
| Wayland server | `wayland_server.c` | surfaces, roles, focus, grab, data sources, menus, theme atlas | client requests, input, destruction | no table names what is gone; clients are told of focus once |
| Xwayland manager | `xwayland_rootless.c` | X windows, their surfaces, selections under conversion | X events, requests of the shell | the shell shows the X windows there are; what is on offer has an owner that is alive |
| desktop runtime, shell | `desktop_runtime.c`, `desktop.c`, `window.c`, `menu*.c`, ... | window table, gestures, keyboard owner, dialogs | pointer and key events, menu choices | a key or gesture has one owner; all tables agree on whose a window is |
| application host | `application.c`, `app_nixinfo.c` | applications' windows, events under way | open, close, menus, requests | events reach the application whose window it is |
| pure algorithms | `damage_region.c`, `framebuffer_*.c`, `session_frame_pacing.c`, `user_config.c` | little | merge, clip, convert, pace, parse | equal to a reference definition |

`PROJECT.json` lists every component, modelled or not, with its files and the
reason.

### Interactions

* Worker and core share one stream socket.  Each end is non-blocking, keeps a
  bounded queue, and may find the socket full with a message half written.
* The worker calls the helper synchronously; the helper calls back
  (`present_frame`) while it handles a commit, and that callback ingests the
  console signals.
* The kernel's process-mode VT switching talks to the worker by signals, whose
  handler only sets flags; the flags are acted on where the code ingests them.
* The core takes the changes of ownership as host events, and answers them by
  calls on its client, long after the console itself has changed hands.
* Supervisor, worker, core and sentinel share pipes whose closing is the only
  sign of a death, a lock, a record on disk and the console's own state.
* The desktop runtime calls the Wayland server synchronously, which calls back
  into it for every window that comes, goes or changes.  X windows arrive over
  two sockets in no fixed order: the X protocol says which windows there are,
  the Wayland protocol brings their surfaces.

### Hard behaviours

A message crosses a change of ownership; a second switch arrives before the
first was answered; a frame is void while a part of it is on the wire; a queue
is full of input when a control must go in; a peer is hung with the socket
full; any process dies between two steps; a pong and its deadline come
together; counters reach the end of their range; objects are destroyed in an
order nobody intended; a gesture begins with one owner and ends with another;
an answer arrives for a question that was since asked again.  `PROJECT.json`
lists them with the line where each bites and the properties that watch it.

## 2. Modules

| module | models | notes |
|---|---|---|
| `PrivsepMessages` | the messages of `privsep_protocol.h` | records with the fields the two ends decide on |
| `PrivsepHelper` | `privsep_helper.c` | one operator per C function, with its name; `HelperSpec` drives it by any core and any legal worker |
| `ConsoleDisplay` | nothing: the abstract specification of the display | what a user of the console is promised |
| `PrivsepSocket` | the two directions of the socketpair | external to the source; bounded, may be full, ends when a side closes |
| `PrivsepClient` | `host_privsep_client.c` | queues, staging, frame phases, ownership |
| `SessionCore` | the loop of `session_core.c` | reads, writes, events and presentation are actions of their own |
| `DeviceWorker` | `run_device_worker`, `host_wsdisplay.c`'s lifecycle, the kernel's VT switching | a program counter for the phase of the loop |
| `PrivsepSession` | worker, core and user composed | the session's properties, fairness and liveness |
| `SessionWatchdog` | `session_watchdog.c` in the loop that drives it | explicit clock, saturating deadlines, wrapping token |
| `SessionSupervisor` | supervisor, worker start-up and clean-up, sentinel, record, takeover | launchers in turn, any process killed anywhere |
| `ConsoleInput` | `wscons_input.c`, `session_console_shortcuts.c`, the worker's use of them | two devices, reducers, chords, the pointer's arithmetic |
| `WaylandSurfaces` | surfaces, roles, popups, focus and grab of `wayland_server.c` | a slot per surface |
| `Selections` | clipboard and primary selection of `wayland_server.c` and `xwayland_rootless.c` | offers, conversions, incremental transfers |
| `RootlessWindows` | X11 windows of `xwayland_rootless.c`, their surfaces in the server | two sockets, shell and focus |
| `ThemeAtlas` | `html_theme_renderer.c`, the server's atlas and layout transaction | WebKit and GTK are external |
| `ApplicationMenus` | the menu protocol of `wayland_server.c`, the menu bar, the GTK bridge's view | trees, models, commits, an open menu |
| `DesktopShell`, `ApplicationHost`, `DesktopRuntime` | `desktop.c`, `window.c`, menus; `application.c` and NixInfo; `desktop_runtime.c` | one input event, client operation or dispatch at a time |
| `MCPrivsepHelper`, `MCPrivsepSession`, `MCSessionSupervisor`, `MCWaylandSurfaces`, `MCParts`, `MCDesktopRuntime` | | instances for TLC |
| `PrivsepHelperProofs`, `PrivsepSessionProofs`, `SessionChannelProofs`, `SessionSupervisorProofs`, `WorkerPartsProofs`, `WaylandSurfacesProofs`, `ServerPartsProofs`, `RootlessWindowsProofs` | | theorems and their proofs |

`PrivsepHelper` is the core of the privileged half: `DeviceWorker` extends it
and uses its operators for every call the worker makes, and `PrivsepSession`
adds client, socket and core.  That the worker only ever drives the helper as
`HelperSpec` allows is checked and proved (`WorkerKeepsHelperSpec`), so what is
proved of the helper against an arbitrary core holds in the session.

`DesktopRuntime` composes the shell, the application host and clients' windows.
`MCParts` puts seven parts that share no state beside each other in one run:
only one of them moves in any behaviour.

Definitions carry the names of the functions they translate.  A definition
whose name begins with `Mutant` is a fault a property is tried against; no
specification uses one.

### Abstractions of the privileged session

* A **message** is a record; one send or receive is one message.  Partial
  writes are kept where they matter: a staged message or the head of the
  outbound ring may be *started* and then must not be dropped or replaced.
* The **outbound ring** is measured in records, with a reserve that input may
  not take; in the code both limits are bytes as well.  One consequence is out
  of the model's sight: a FATAL, shorter than a SUSPEND, could still fit where
  a SUSPEND did not.  Sequence numbers, which a purge rewrites, are left out.
* The **passes over a queue** (`purge_input`, the control messages of a queue,
  `discard_queued_input`) are recursive functions on positions rather than
  `SelectSeq`, so that the proofs can reason about them.
* A **pixel** is the stamp of the frame it came in, `<<generation, serial>>`;
  damage is a set of regions.  What this session never wrote is `Foreign`.  A
  data message carries one region.
* Helper **errors** keep which check failed, not the text.
* `abandoned_generation` and `abandoned_serial` of the helper are written and
  cleared, and nothing else reads them: omitted.
* **Serials, generations, tokens and switches** are bounded by constants whose
  role is `UINT64_MAX` or the length of a run (`MaxGeneration`, `MaxSerial`,
  `MaxFrame`, `MaxSwitches`, `MaxInputs`, `MaxPings`, `MaxToken`, `MaxTime`).
* The core's reads and writes are possible at any point of its loop; in the
  code they come in bursts before each event.  The model has more behaviours.
* The desktop is a source of damage; damage added after a shutdown began, which
  is never presented, is not kept.  OUTPUT_CHANGED reaches the core only in
  READY: the output does not change size on acquire in this composition (the
  helper's own specification does let it).
* The watchdog is folded to its outcomes in `DeviceWorker` (a ping is due, it
  expired) and modelled by itself in `SessionWatchdog`.  That a wait with
  output queued lasts a fixed slice, even past a deadline, is part of `Slack`.

### Abstractions of the supervisor and of the input

* `SessionSupervisor` has no clock: every deadline may pass at any moment.  One
  core and one sentinel exist at a time, and every session has a new runtime
  directory.  A record is whole or partial, and a partial one is refused by a
  run and by `--recover` alike.  The device calls of restoration and the read
  errors of verification are one outcome each; errors of `waitpid` itself are
  not modelled.  A process that was sent SIGKILL may linger.
* `ConsoleInput` chooses the content of an event when it is read.  It follows
  one axis of the pointer under the adaptive profile; the other axis is the
  same code on the other coordinate.  The keymap is constant; statistics,
  timestamps and the flat profile are left out.

### Abstractions of the desktop

* `WaylandSurfaces`: slots are interchangeable, a commit includes the attach
  before it, and a client never hangs a surface below itself (the code would
  not return).  A resize makes the surface unconfigured, so that a frame or an
  older acknowledgement in flight is a protocol error, as the code has it;
  `docs/project-status.md:73` disclaims resize negotiation.
* `Selections`: the manager's own claims are not told back to it; offers that
  are no longer valid are left out; requests for TARGETS keep no state; a
  client's death is the destruction of its objects one by one; a requestor uses
  one property; chunks of two incremental senders do not overtake each other
  inside one write.  Server teardown is left out.
* `RootlessWindows`: a repeated unmap or destroy is adjacent to the first and
  finds no entry; override-redirect windows are never shown by the shell;
  configure and close requests, identity texts and X11 popups are left out.
  One Wayland request is handled per dispatch, followed by the focus
  synchronisation.  The slots of the manager's table are anonymous: the pass
  over them takes the windows in any order.
* `ThemeAtlas`: a look is a fingerprint and the size of its atlas; the state is
  sent whenever the look changes; theme id and token match; GTK keeps its
  buffer; serials do not wrap; when WebKit and GTK do their part is open.
* `ApplicationMenus`: a request the server answers with a protocol error is
  not made; a menu object that outlives its toplevel is left out; which window
  is active otherwise is open.
* `DesktopRuntime`: a position is what it hits (`Points`).  Maximization,
  frames, labels, the hot item, screenshots, preferences and the launching of
  programs are left out; the server's own hover and focus are in
  `WaylandSurfaces`.  An id is not used again while a table names it, one
  built-in application (NixInfo) runs, and one client operation is taken per
  dispatch.  What the server refuses is a property of the window: it is `deaf`
  when its client has destroyed its toplevel or its X connection is gone, and
  `hidden` when the X server does not show it; a grab is `blank` when its
  surface has lost its contents.  A failed handler is kept as `fault` and ends
  the session.  Running out of memory is left out, and so is what the server
  tells the theme.  `HeldBound` bounds the keys and buttons down, `RefusalBound`
  the windows that refuse (one, with the left button at most); neither is a
  property.

## 3. Runs

Every run ends within five minutes on two workers.

| run | instance | states | question |
|---|---|---|---|
| `helper` | any core; 2 regions (interchangeable: symmetric), 2 generations, serials 1..2, 3 queue records of which 1 reserved, 1 token | 343,440 | does the helper keep frames whole, input within its ownership and controls in order, and implement `ConsoleDisplay`, whatever a core sends? |
| `session_frames` | 2 regions, 2 switches (3 ownerships), 2 frames, 2 inputs; event queue, control queue and socket of 2, ring of 3 with 1 reserved | 2,555,144 | is what completed visible, do both ends agree on the frame in flight, and is no change of ownership lost behind input? |
| `session_live` | both processes fair; 1 region, 1 switch, 2 frames, logout | 23,662 | do frames, redraws and logouts come to an end, and does the worker keep to the helper's specification? |
| `session_failures` | only the worker fair; core may crash or hang, console ioctls may fail, heartbeat may expire, shutdown deadline may pass; 1 switch, 1 frame, socket of 1, ring of 2 with 1 reserved | 297,220 | does anything delay a switch or leave a process behind? |
| `supervisor` | two launchers in turn (a run, one that injects a crash or a hang, or a preflight; then a run or a recovery), one process killed at any point | 1,721,853 | is a taken console always recorded, in one hand at a time, and success true? |
| `supervisor_live` | one launcher; a core, sentinel and worker that may do nothing of their own accord | 156,852 | do deadlines alone end the session?  (The launcher is not killed here: it gives up.) |
| `parts` | seven parts, each in turn alone (below) | 500,566 | the watchdog, the input, surfaces, selections, X windows, the theme and menus |
| `desktop` | 2 clients' windows, NixInfo with 1, the key F10, left and right buttons, with and without a dock; one window at a time refuses what it is asked | 193,676 | do all tables agree, has every key and gesture one owner, does the application host ever fail a handler, and do all follow the active window? |
| `claim_*` | the smallest instance that shows each | | the four disagreements of section 6 |

The instances of `parts`: the *watchdog* with grace 4, interval 2, timeout 3,
slack 1, tokens 1..2 and a clock of 0..14 started anywhere; the *input* with a
keymap of six keys, the chord keys Escape and F10, screens of 2 and 5, motions
of -2..1 and gains of 100, 130 and 250 (`InputBound`: with two keys down the
pointer stays where it starts); three symmetric *surface* slots of one client
(`SurfacesBound`); one program with two sources, of two pieces and of one, and
two X windows with texts of one and three pieces for the *selections*
(`SelectionBound`: either X window may own the clipboard, two conversions and two
X events may be on their way, and a Wayland copy may follow another while a text
goes to X11 in chunks, or meet an import under way); three X
*toplevels* with two surfaces, two windows and two messages waiting at a time
(`RootlessBound`); three *looks*, one without a size, three states and one
repaint for the theme (a fourth state also passes, in 1.3 million states of its
own); two clients and two commands of *menus* of one item (`MenuBound`).

Why these bounds are enough to be interesting: two regions are the fewest with
a partial frame, an unfinished frame and retained pixels at once; three
ownerships let a second switch overtake the answer to the first; two frames let
a frame be given up and the next begin; a queue of two and a socket of one or
two are full after very few messages, so blocking, overflow and half-written
records all happen; two tokens wrap at once; a clock of 14 started anywhere
covers saturation with every offset of interval and timeout; two launchers are
a session and its recovery, or a session and a second one that must be refused;
three surfaces are a toplevel and a chain of two popups; two texts of an X
window, one in one piece and one in three, are a plain and an incremental
transfer with another selection in the middle.  The proofs of section 4 remove
the bounds where they reach.

Deadlock is checked in the session runs: the composed system stops only when
both processes have ended (`Terminated`).  It is not in `helper`, where a helper
whose counters are used up may sit still; in the supervisor's runs, which stop
when every launcher has come and gone (that a session ends is what
`supervisor_live` asks); in `parts`, where devices and sockets may fall silent;
and in `desktop`, where a fault or a logout ends the session.

### Properties

*Helper.*  `RetainedFrameIsOnScreen` (the buffer partial damage builds on is
what is on the screen), `FullReplacementAfterAcquire`, `NoStaleInputQueued`,
`ControlsAreKept`, and the refinement `ImplementsConsoleDisplay`.

*Session.*  `CompletedFrameIsVisible`: when the core has been told that its
frame completed and the console has not moved, each region of video memory
holds what the core last drew there.  `ClientObeysProtocol` and
`HelperObeysProtocol`: each end refuses nothing of the other but one named
case.  `LifecycleIsInStep`: no suspension is lost, merged or repeated, and the
event the core must answer is queued once.  `FrameBookkeepingAgrees`: worker,
host and helper name the same frame while the worker still takes completions
(after a shutdown request it does not).  `WritesOnlyOwnConsole`,
`WorkerKeepsHelperSpec`.

*Session, liveness.*  `ReleaseNeverWaitsForCore`, `NobodyIsLeftBehind`,
`HeartbeatIsAnswered`, `FrameSlotIsFreed`, `RedrawIsPresented`,
`LogoutEndsSession`.

*Supervisor.*  `TakenConsoleHasRecord`, `ConsoleHasOneHand`,
`SuccessMeansSettled`, `RecordOutlivesSession`, `DirectoryOutlivesCore`; and
`SignalledLauncherEnds`, `OrphanedWorkerEnds`.

*Watchdog and input.*  `PongReadInTimeWins`, `HangIsNoticed`;
`CoreHoldsWhatIsDown`, `NeitherDeviceStarves`, `NoMotionIsLost`.

*Desktop.*  `SurfacesFitTogether` (`NothingDangles` and `GrabsAreNested`),
`FocusIsTold`, `ShellShowsX11`, `FramesFollowDesktop`, `MenusAreTheClients`;
`OwnersAgree`, `InputHasOneOwner`, `FocusIsFollowed`.  `SelectionHasOwner`: no
read, offer or publication of a Wayland selection outlives its source or is of
another than the current one, what goes to X11 in chunks is one source's whole
text, and an X text is on offer only while its selection has an owner or the
news of the loss is still to be read.  It does not say which side copied last:
that the code does not guarantee (section 6).  `HandlersKeepUp`: the application
host never fails a handler (no full queue, no batch or action it rejects, no
pump without end) and no action of the shell is for a window that is gone.  A
wish for a minimized window or for one more than the table holds, and a close,
resize, focus or motion the Wayland server refuses, do fail a handler and end
the session; the model has them all.

### Fairness

The worker and the core are separate processes that the operating system
schedules, so weak fairness of a process's next step is the justified
assumption: `WF_vars(Worker)` always, because the worker's loop never blocks
without a timeout, and `WF_vars(Core)` only where the claim is about a core
that runs.  `session_failures` assumes nothing of the core; the two properties
there that need it say so in their formula.  The user is never obliged to
switch, type, draw or log out, and no device or watchdog is obliged to fail.

In the supervisor the launcher is weakly fair.  An iteration of the worker's
loop may take several outcomes; strong fairness of the two iterations in which
a deadline is found passed (`escalation`, `forced sleep`) says only that time
goes on.  Of its other steps the worker is obliged only to those that have a
deadline and to the watch of the pipe whose closing tells it that the launcher
is gone.  The core is obliged to nothing.

## 4. Proofs

Checked by `tlapm`, from the named assumptions on the constants only:
`HelperAssumption`, `SocketAssumption`, `ClientAssumption`, `WorkerAssumption`,
`CoreAssumption`, `SessionAssumption`, `SupervisorAssumption`, `WatchdogAssumption`,
`InputAssumption`, `SurfacesAssumption`, `NobodyAssumption`, `MenuAssumption`,
`SelectionsAssumption`, `AtlasAssumption`, `RootlessAssumption`.  All are ranges implied by the types and
`#define`s of the code, or name what the model needs from its instance (a region
exists, names of keys differ, the value that means "none" is no value of the
set it is added to).  TLC evaluates each of them in the runs.

| theorem | states, for every value of the constants |
|---|---|
| `RetainedFrame`, `FullReplacement`, `NoStaleInput`, `ControlsStay` | the helper's four properties, against any core |
| `HelperImplementsConsoleDisplay`, `SessionImplementsConsoleDisplay` | the abstract display, implemented by the helper and by the whole session |
| `WorkerKeepsHelper` | the session's worker keeps to the helper's specification |
| `OwnConsoleOnly`, `FrameBookkeeping`, `LifecycleInStep` | `WritesOnlyOwnConsole`, `FrameBookkeepingAgrees`, `LifecycleIsInStep` |
| `HelperNeverOutOfOrder`, `ClientNeverAtFault` | `HelperObeysProtocol`, `ClientObeysProtocol` |
| `CompletedIsVisible` | `CompletedFrameIsVisible` |
| `TakenConsoleRecorded`, `OneHandOnConsole`, `SuccessIsSettled`, `RecordKeptForSession`, `DirectoryKeptForCore` | the supervisor's five safety properties |
| `PongWins`, `HangNoticed`, `ExpiryIsNeverEarly`, `OneToken` | the watchdog's |
| `CoreKeysCorrect`, `DevicesTakeTurns`, `MotionIsKept`, `ReducerStaysValid` | the input's |
| `SurfacesFit`, `FocusIsAlwaysTold` | `SurfacesFitTogether`, `FocusIsTold`, for any table of slots and any number of clients |
| `MenusCorrect`, `SelectionsHaveOwners`, `FramesCorrect`, `X11WindowsShown` | `MenusAreTheClients`, `SelectionHasOwner`, `FramesFollowDesktop`, `ShellShowsX11` |
| `...TypeCorrect`, `OneFrame`, `EventIsQueued`, `CoreLag`, `SupervisorInvariant`, `SurfaceInvariant`, `RootlessInvAlways` | types, and invariants worth knowing by themselves |

**`PrivsepHelperProofs`.**  Most of the helper's steps are *quiet*: they queue
a message, or fail and close the frame, and change nothing a pixel property
reads.  `RejectIsQuiet`, `ReceiveCases` and `WorkerCases` split the next-state
relation into quiet steps and the seven that matter (begin, data, drop,
present, suspend, resume, shutdown), each with its own lemma.

`RetainedFrameIsOnScreen` is not inductive: while a frame is half received the
staging buffer differs from the screen, and the property says nothing then.
`HelperInv` adds the two facts that carry it over: `PiecesAreStaged` (regions
already received of an open frame carry that frame's stamp) and `RestIsRetained`
(regions it does not damage, or has not received, still equal the screen as
long as the buffer is valid).  At a commit the two meet: received regions are
copied, the others agree already.  Together with `FullReplacementAfterAcquire`
this also gives the refinement: a frame that is presented leaves every region
either freshly stamped or stamped in this generation, which is `Show`; `suspend`
is `Lose`, `resume` is `Regain`, everything else stutters.

The queue's properties rest on what the two passes over it return.  A pass is a
recursive function on positions, and what it computes is shown by the least
counterexample: if some position were wrong there would be a least one, and the
pass's own equation says it is right (`LeastOf`, `Induct`).  `QueueInv` then says
that queued input is of the ownership in progress (`Fresh`) and that none is
queued while there is none (`Silent`).

**`PrivsepSessionProofs`.**  Four layers.  First the *types of everything in
transit*: a frame message anywhere between the client's staging and the helper
fits the ranges the helper expects (`FrameFits`, `StagedFits`); from it, each
step of the worker is a step of `HelperSpec` or leaves the helper alone, which
is `WorkerKeepsHelperSpec`, and the helper's theorems, refinement included,
hold in the session.  Second `VtInv`: kernel, signal flags and host lifecycle
are together in one of six situations, and only in one of them may video
memory be written.  Third `Books`: worker, host and helper name the same frame,
and completions under way are distinct and of that frame or of one given up.

Fourth, the generations.  Counting lemmas first (what appending,
concatenating, taking the head and discarding input do to the number of
messages of a kind).  `OwedInv`: while the client waits for an answer of the
core, the event that asks for it is queued, once.  `LagInv`: the helper's
generation is the client's plus the SUSPENDs between them; before READY is
processed, it is the generation READY names plus the SUSPENDs behind it, and
before READY is sent nothing is said at all.  `HelperSays` is the one lemma
about what a step of the helper adds to the control messages.

**`SessionChannelProofs`.**  A message may be long under way when it is read, so the
argument is about the whole queue of them.  `Along(R, V, q, u, w)` says that the
messages of the queue `q`, read one after the other, lead from `u` to `w` by steps
that `R` allows; lemmas say what appending, reading and purging do to such a way
(`AlongAppend`, `AlongTail`, `PurgeAlong`) and that whatever only grows along it
has grown at its end (`AlongRises`).  `HearInv`: what is under way to the core
(socket and helper's queue together) leads from what the core knows of output,
activity and generation to what the helper knows, each step one the client's
handlers expect.  `SaidInv` orders the two ends' histories: nobody answers what
was not asked.  `TraceInv` ties a completion to its frame: a generation's frame
has traces (its messages, the open and the presented frame, the completion under
way), no more than one of them past its end, and a trace of the current generation
is of the frame the client waits for.  `ClientInv` is what the client keeps of
itself.  With them only one refusal of the client is left, the one the property
names.

The other direction has the same form.  `ObeyInv`: what the core has sent leads from
what the helper has received (greeting, shutdown request, open frame and its pieces,
last serial, the generation whose picture it has kept: `Progresses`) to what the core
has written (`Ahead`), each step one the helper's handlers accept.  So the first
message under way is always one that follows; what the helper may still hold against
it is that the console changed hands since (`ReceiveTaken`, `Excused`).  `PongInv`
counts the heartbeat: PINGs to be read, PONGs to be sent and PONGs under way are
together one at most, and none unless the helper waits for it, with the token it
waits for.  `BornInv` says that frames under way are of no later generation than the
helper's, which rules a crossing out while there has been no suspension.

`CompletedFrameIsVisible` speaks of the moment after a completion, and the pixels are
written long before.  `PixInv` says what the screen shows all the while, if the core
is active in the helper's own generation and has drawn since it began: with no frame,
or one that is presented already, every region shows what the core last drew there;
with a frame on its way, every region outside its damage does, and those inside were
drawn for that frame.  When the frame is presented the two meet, because the frame the
helper has open is the client's, damage included (`OpenIsSent`, from `ObeyInv`).  And
the console can not have gone unnoticed: a core that is active in the helper's
generation has heard every SUSPEND (`Awake`, from `HearInv`).

**`SessionSupervisorProofs`.**  Every safety property here is about who may
*still* act.  `LockInv` and `HandInv` keep a second launcher out while a worker
of the first lives; `RecordInv` ties each phase of taking over and restoring to
what is on disk; `CoreInv` and `SentinelInv` say what a worker knows of core and
directory at each point of its end; `ArmedInv` that a fault is injected only in
a run that was told to require one; `RunInv` that the verdict of the launcher
rests on the exit status it saw.

**`WorkerPartsProofs`.**  Two parts that share no state.

*The heartbeat.*  `WatchdogInv` adds `WakesInTime` (the loop wakes no
later than its deadline plus a slack) and `DeadlineIsDated` (each phase's
deadline is a known distance from the last sign of life or the last ping).

*Keyboard and mouse.*  `InputInv` joins `CoreHoldsWhatIsDown` to what it needs:
the reducers are valid (`KeysAreValid`, `PointerInv`) and the turn of the devices
is (`TurnInv`).  `MotionIsKept` is arithmetic on the gain and the remainder it
carries over: with a gain of at least one, no remainder can cancel a motion.

**`WaylandSurfacesProofs`.**  `Below`, `RootToplevel` and `MappedSlots` repeat a step
as often as there are slots, so the module first shows what a number of steps
that large reaches: `BelowIsClosed` and `BelowIsLeast` (a chain of sets cannot
grow more often than there are slots), `BelowHangs`, `TopIsReached` and
`RootOfParent` (the climb ends above every overlay).  All but the first two need
that nothing hangs, at any depth, from itself: `Acyclic` says that no set of
slots hangs within itself, a form in which both hanging a slot anew
(`PopupIsHung`, `SubsurfaceIsHung`) and taking slots away (`AcyclicStays`) are
one choice of a set.

`SurfaceInv` then has four parts.  `SlotFits` ties a slot's role to the objects
that are alive; `Hangs` says that an overlay hangs from a surface that is there,
and a popup from a toplevel or from a popup that hangs itself, so that the climb
`popup_grab` decides by ends at a toplevel; `SeatFits` and `ToldFits` are `NothingDangles` and
`FocusIsTold` with what a dying client still believes.  `NestedStays` and
`GrabIsNested` carry `GrabsAreNested`: `PopupToward` finds the popup through which
a grab hangs from another, and `popup_has_live_child` says there is only one.
Each helper of the server (`OverlaysDismissed`, `Unmapped`, `ClearedKeyboard`,
`Settled` for a slot that is released or not) has a lemma that it leaves a world
that fits, so that a handler's lemma is the chain of its helpers'.  A commit of
no buffer blanks the slot before it unmaps it, and in between a window has no
contents: `UnmapOfBlank` shows that the order makes no difference.

**`ServerPartsProofs`.**  Three parts that share no state.

*Menus.*  `MenuInv` is `Objects` (which objects of the protocol exist and whose
they are), `Binds` (which window shows whose model) and `Shows` (what an open
menu shows, and where its commands go).

*Selections.*  The property lets a text from X11 stay on offer after its owner
is gone, as long as the manager has not read the news.  `NewsInOrder` makes that
inductive: an announced owner is still there, or its loss is announced further
back in the queue, so reading one event never consumes the last word about a
selection.  `Keeps` is what every step leaves of the X server: news in order, and
no selection without both owner and news.  `ServerOk` and `ManagerOk` are then
the two sides' records.

*Frames.*  `FramesFollowDesktop` speaks of quiet moments only, and the invariant
has to say what leads there: `AtlasLinked` follows a state from the server to the
renderer (`StatesOk`), through the render (`RendererOk`) and back as
acknowledgement, announcement, picture, tile and commit (`AcksOk`, `BeginsOk`,
`LayoutsOk`, `LayingOk`).  Two facts are subtle.  A state that interrupts a layout
makes the server ignore *all* that is left of it; `BeginsOk` and `LayoutsOk` show
that the requests of different layouts never mix, so the ignoring ends with the
right commit and no request in good faith is refused.  And `CurrentOk`: the
layout of the state that is current is never one of those ignored, so that once
it is complete it is shown, or its commit is the last request of the queue.

**`RootlessWindowsProofs`.**  `ShellShowsX11` too speaks of quiet moments: nothing waits on
either socket.  `RootlessInv` says at all others what is still to be heard, and on
which socket.  `Orderly` is about one window's X events: a window the manager
knows and that is not mapped has its end under way with no new map request
after it, and the name of a surface or a request of its state is never read when
the manager has forgotten the window.  `Told` is about one surface's requests:
it is made before anything is drawn on it, and it is there, or its making is
under way, for as long as a window has it; otherwise its end is.  `Matches` ties
an entry of the manager's table to the mapped window it is for: what the entry
does not say yet is among the news.  `OwnersFit` is the part that a reused surface
id could break: a window's surface is nowhere, not in the table, not in the shell
and not in an event still unread, taken for another's.  Every handler is then an
instance of one of a dozen changes (`Makes`, `Draws`, `Leaves`, `Adopts`, `Names`,
`Associates`, `Fullscreens`, `Rereads`, `Forgets`, `Made`, `Pictured`, `Ended`) with
a lemma that it keeps the invariant.  The end of a dispatch tries the slots of the
table one after the other; which slot a window has is left open (`Orders`), and
`PassEffect` shows, by induction over the slots, that a pass that changes nothing
leaves no association to be made.

### Only model-checked

* **Liveness**, all of it: it rests on fairness and `ENABLED`, out of the
  prover's reach.
* **`ApplicationHost` and `DesktopRuntime`** (`OwnersAgree`, `InputHasOneOwner`,
  `HandlersKeepUp`, `FocusIsFollowed`): an application's
  handler and the events it causes run until the queue is empty, a RECURSIVE
  operator (`Pump`), and the prover takes none.

## 5. Not modelled

Pure drawing (theme, window, menu and shell renderers, wallpaper, PNG), back-end
probes and smoke tests, the hosted SDL and headless back ends, and the contents
of the built-in applications: little state that two actors share.  Credential
checks are one verdict of the operating system.  The pure algorithms (damage,
pacing, pixel formats, configuration files) have no protocol around them.

## 6. Where the code and its documentation disagree

### Shown by a run

Each run checks one formula and finds it violated.

1. **A release can be refused** (`claim_release`).  `wsdisplay_present` ingests
   the console signals.  If the release signal arrived before a commit is
   handled, present returns SUSPENDED, the helper takes that for a failure of
   the device, the loop ends, and `cleanup_context` answers the release with
   `VT_RELDISP(VT_FALSE)`: the switch is refused and the session ends.
   `docs/privilege-boundary.md:166-168` describes a release that is
   acknowledged without waiting for the core.
2. **A second release too soon ends the session** (`claim_reacquire`).  A stale
   frame stays open in the helper until its ABORT is read.  Release the console
   again in that window and the second SUSPEND abandons the same serial, which
   the client forgot when the ABORT left: `handle_suspend` takes the message
   for out of order.  `tests/session_core_test.c:352` and `:385` intend both
   races to be survived.
3. **A well-formed input event ends the session** (`claim_input`).  A toplevel
   keeps its role when its objects are destroyed.  A client that then commits a
   buffer has a shell window without a toplevel, the server cannot serve a
   resize or close of it, and the session ends for everybody
   (`wayland_server.c:8181`, `session_core.c:1198`).  `DesktopRuntime` has the same
   refusals at their callers (`deaf`).
4. **A client never hears of a release** (`claim_grab`).  With a dock theme a
   right button that went down on a client's content and comes up over the bare
   desktop is taken for the context menu (`desktop_runtime.c:1754`);
   `wayland_server.h:180` promises it to the grabbed surface.

### Met while modelling

The models keep these behaviours; no run is about them.

* A FRAME_BEGIN that crosses a release carries the old generation, and
  `handle_frame_begin` rejects it: the session ends.  The rest of a frame
  *begun* before the release is tolerated.  `tests/privsep_helper_test.c:607`
  pins the rejection; the documentation of reacquisition does not expect it.
  This and 2 above are the only ways the two ends misunderstand each other
  (`ClientObeysProtocol`, `HelperObeysProtocol`).
* Choosing About, Settings, Wallpaper or NixInfo from the menu while that window
  is minimized, or the window table full, ends the session (`desktop.c:253`,
  `session_core.c:1192`).
* A drag of the dock with a client's grab by another button leaves
  `cde_dock_dragging` set when the left button comes up: the next gesture of
  the shell loses its release.
* X fullscreen does not synchronise the menu bar.  Choosing NixInfo from the
  then stale desktop menu leaves the Wayland keyboard focus stale until the next
  dispatch (the exemption in `FocusIsFollowed`).
* Selections: the import of an X text may replace a Wayland selection made
  after it, and the manager's claim on the X selections then stays with nothing
  behind it; a stale XFixes notification (`xwayland_rootless.c:955`) releases a
  newer claim, where `wayland_server.h:274` says otherwise; a late answer of
  the previous owner cancels the new owner's import, or passes for its answer
  (`:1016`), as the chunks of an earlier incremental text may for a later one's.
* A commit read after X has unmapped its window shows it again until the
  `wl_surface` is destroyed.  The X focus is not brought up to date when a
  surface is associated late (`wayland_server.c:1560`, `:7553`), though
  `docs/standalone-session.md:129` says it follows.  Focus on an X window that
  was unmapped a moment ago makes `XSetInputFocus` fail and the session end
  (`xwayland_rootless.c:609`; `FocusRefused` in `DesktopRuntime`).  A second map request that races an unmap leaves
  a window mapped and unmanaged.
* `find_surface_by_resource_id` (`wayland_server.c:576`) does not ask which
  client the id belongs to.  A fullscreen request before the first drawing is
  dropped, and `_NET_WM_STATE` stays set over a remap.
* The theme renderer, given a state in two reads of the socket while it
  finishes an older picture, may begin to draw with no size; it exits and is
  not started again (`html_theme_renderer.c:1105`, `:1577`).
  `docs/html-themes.md:156` promises the last good pixels for a while;
  `html_theme_atlas_resource_destroyed` drops them at once.
* `apply_shell_action` takes a launcher's command before it looks at the menu's
  source (`desktop_runtime.c:1157`): an item of an application with such a
  command starts a program instead of reaching its client.

## 7. Plan

1. A proof of `FrameBookkeepingAgrees` past a shutdown request (it holds there too,
   in TLC, unless the worker reported a fatal error).
2. `PrivsepOutbound`: byte ring, sequence numbers and their rewriting by a
   purge, as a refinement of the record queue here.
3. `DamageRegion`, `FramePacing`, `FramebufferShadow`, `UserConfig`: algorithms
   against reference definitions.
