--------------------------- MODULE ApplicationHost ---------------------------
(***************************************************************************)
(* The host of the built-in applications (application.c) and the one it    *)
(* runs, NixInfo (nixinfo.c), as operators on a record d that holds the    *)
(* shell, the application's slot, the bounded queue of events and the      *)
(* application's own notion of its windows.  A handler's failure is kept   *)
(* in d.fault, with what failed.                                           *)
(***************************************************************************)
EXTENDS DesktopShell

CONSTANTS
    QueueCapacity,      \* NB_APPLICATION_EVENT_QUEUE_CAPACITY
    RequestCapacity,    \* NB_APPLICATION_REQUEST_CAPACITY
    PumpLimit,          \* NB_APPLICATION_EVENT_PUMP_LIMIT
    MaxInfoWindows      \* NB_NIXINFO_MAX_WINDOWS

ASSUME CapacitiesAssumption ==
    {QueueCapacity, RequestCapacity, PumpLimit, MaxInfoWindows} \subseteq Nat \ {0}

Source == "nixinfo"

Ok(d) == d.fault = "none"
Fail(d, why) == [d EXCEPT !.fault = IF @ = "none" THEN why ELSE @]

(***************************************************************************)
(* NixInfo's menu follows its windows: an empty slot is a window None.     *)
(***************************************************************************)
InfoMenu(n) ==
    LET count == Cardinality(DOMAIN n.windows)
        hasActive == n.active \in DOMAIN n.windows
        system == hasActive /\ n.windows[n.active] = "system"
    IN  {"quit"}
        \cup (IF count < MaxInfoWindows THEN {"new window"} ELSE {})
        \cup (IF n.about # None \/ count < MaxInfoWindows THEN {"about"} ELSE {})
        \cup (IF system THEN {"version"} ELSE {})
        \cup (IF hasActive THEN {"close window"} ELSE {})
        \cup (IF hasActive /\ count > 1 THEN {"close others"} ELSE {})

InfoInit == [windows |-> <<>>, active |-> None, about |-> None]

HostInit(floating) ==
    [shell |-> ShellInit(floating), running |-> FALSE, stopping |-> FALSE,
     windows |-> <<>>, menu |-> InfoMenu(InfoInit), events |-> <<>>, focused |-> None,
     info |-> InfoInit, fault |-> "none"]

SlotWindows(d) == {d.windows[i].window : i \in DOMAIN d.windows}

(***************************************************************************)
(* Events and the focus.                                                   *)
(***************************************************************************)
Event(type, w, cookie) ==
    [type |-> type, window |-> w, cookie |-> cookie, command |-> "none"]

HasRoom(d, needed) == Len(d.events) + needed <= QueueCapacity
Queue(d, e) == IF HasRoom(d, 1) THEN [d EXCEPT !.events = Append(@, e)] ELSE Fail(d, "application")

\* The window the application has the focus in, if the active one is its own.
WantedFocus(d) == IF d.shell.active \in SlotWindows(d) THEN d.shell.active ELSE None

\* queue_focus_change: with one application there is one event to queue.
QueueFocus(d) ==
    IF WantedFocus(d) = d.focused THEN d
    ELSE IF ~HasRoom(d, 1) THEN Fail(d, "application")
    ELSE Queue([d EXCEPT !.focused = WantedFocus(d)], Event("focus changed", WantedFocus(d), "none"))

\* Window identifiers are not reused while anything still names them.
Named(d) ==
    Open(d.shell) \cup SlotWindows(d) \cup DOMAIN d.info.windows
        \cup {d.events[i].window : i \in DOMAIN d.events} \cup {d.focused, d.info.about, d.info.active}
FreshWindow(d) == CHOOSE w \in 1 .. Cardinality(Named(d)) + 1 : w \notin Named(d)

(***************************************************************************)
(* What a handler's requests do.  Each applies only if those before did.   *)
(***************************************************************************)
Request(type, w, cookie) == [type |-> type, window |-> w, cookie |-> cookie, menu |-> {}]

Opened(d, w, cookie) ==
    Queue([d EXCEPT !.shell = OpenWindow(@, w, Source, d.menu),
                    !.windows = Append(@, [window |-> w, cookie |-> cookie])],
          Event("window opened", w, cookie))

ApplyOpen(d, cookie) ==
    IF ~HasRoom(d, 3) THEN Fail(d, "application")
    ELSE IF CanOpenWindow(d.shell, Source, d.menu)
    THEN QueueFocus(Opened(d, FreshWindow(d), cookie))
    ELSE Queue(d, Event("window opened", None, cookie))

CookieOf(d, w) == d.windows[CHOOSE i \in DOMAIN d.windows : d.windows[i].window = w].cookie

\* (Definitions named Mutant... are faults the properties must find.)
MutantCloseUntold(d, w) ==
    [d EXCEPT !.shell = DestroyWindow(@, w),
              !.windows = SelectSeq(@, LAMBDA b : b.window # w)]

CloseSlotWindow(d, w) ==
    Queue([d EXCEPT !.shell = DestroyWindow(@, w),
                    !.windows = SelectSeq(@, LAMBDA b : b.window # w)],
          Event("window closed", w, CookieOf(d, w)))

ApplyClose(d, w) ==
    IF HasRoom(d, 3) /\ w \in SlotWindows(d)
    THEN QueueFocus(CloseSlotWindow(d, w)) ELSE Fail(d, "application")

ApplyActivate(d, w) ==
    IF ~HasRoom(d, 2) \/ w \notin SlotWindows(d) THEN Fail(d, "application")
    ELSE IF CanActivate(d.shell, w)
    THEN QueueFocus([d EXCEPT !.shell = ActivateWindow(@, w)])
    ELSE Fail([d EXCEPT !.shell = CancelIfOwned(@)], "minimized")

MutantPublishUnshown(d, menu) == [d EXCEPT !.menu = menu]

\* The slot's menu is double-buffered: windows show the copy just made.
ApplyPublish(d, menu) ==
    [d EXCEPT !.menu = menu,
              !.shell = IF d.windows # <<>> THEN UpdateMenuSource(@, Source, menu) ELSE @]

\* begin_stop: the windows close from the last to the first, then STOP.
CloseAll(d) == FoldLeft(LAMBDA e, b : CloseSlotWindow(e, b.window), d, Reverse(d.windows))

BeginStop(d) ==
    IF ~d.running \/ d.stopping \/ ~HasRoom(d, Len(d.windows) + 3)
    THEN Fail(d, "application")
    ELSE Queue(QueueFocus(CloseAll([d EXCEPT !.stopping = TRUE])), Event("stop", None, "none"))

Apply(d, r) ==
    CASE ~Ok(d) \/ ~d.running \/ d.stopping -> Fail(d, "application")
      [] OTHER ->
        CASE r.type = "open" -> ApplyOpen(d, r.cookie)
          [] r.type = "close" -> ApplyClose(d, r.window)
          [] r.type = "activate" -> ApplyActivate(d, r.window)
          [] r.type = "publish" -> ApplyPublish(d, r.menu)
          [] r.type = "exit" -> BeginStop(d)

\* nb_application_requests_are_valid.
BatchIsValid(batch) ==
    /\ Len(batch) <= RequestCapacity
    /\ Cardinality({i \in DOMAIN batch : batch[i].type = "publish"}) <= 1
    /\ (\E i \in DOMAIN batch : batch[i].type = "exit") => Len(batch) = 1

\* request_targets_are_valid: no request names a window closed before it.
TargetsAreValid(d, batch) ==
    /\ Len(d.windows) + Cardinality({i \in DOMAIN batch : batch[i].type = "open"}) <= MaxWindows
            \/ \A i \in DOMAIN batch : batch[i].type # "open"
    /\ \A i \in DOMAIN batch : batch[i].type \in {"close", "activate"} =>
            /\ batch[i].window \in SlotWindows(d)
            /\ \A j \in 1 .. i - 1 : batch[j].type = "close" => batch[j].window # batch[i].window

EventsOf(d, r) ==
    CASE r.type \in {"open", "close"} -> 3
      [] r.type = "activate" -> 2
      [] r.type = "exit" -> Len(d.windows) + 3
      [] OTHER -> 0

BatchHasRoom(d, batch) == HasRoom(d, FoldLeft(LAMBDA n, r : n + EventsOf(d, r), 0, batch))

ApplyBatch(d, batch) ==
    IF /\ BatchIsValid(batch) /\ d.running /\ ~d.stopping
       /\ TargetsAreValid(d, batch) /\ BatchHasRoom(d, batch)
    THEN FoldLeft(Apply, d, batch)
    ELSE Fail(d, "application")

(***************************************************************************)
(* NixInfo's handler: its new state, and the requests it makes.            *)
(***************************************************************************)
Publish(n) == [Request("publish", None, "none") EXCEPT !.menu = InfoMenu(n)]

OpenedState(n, e) ==
    IF e.window = None \/ Cardinality(DOMAIN n.windows) >= MaxInfoWindows
    THEN n
    ELSE [windows |-> [w \in DOMAIN n.windows \cup {e.window} |->
                          IF w = e.window THEN e.cookie ELSE n.windows[w]],
          active |-> e.window,
          about |-> IF e.cookie = "about" THEN e.window ELSE n.about]

ClosedState(n, w) ==
    IF w \notin DOMAIN n.windows THEN n
    ELSE [windows |-> [v \in DOMAIN n.windows \ {w} |-> n.windows[v]],
          active |-> IF n.active = w THEN None ELSE n.active,
          about |-> IF n.about = w THEN None ELSE n.about]

InfoAfter(n, e) ==
    CASE e.type = "window opened" -> OpenedState(n, e)
      [] e.type = "window closed" -> ClosedState(n, e.window)
      [] e.type = "focus changed" ->
            [n EXCEPT !.active = IF e.window \in DOMAIN n.windows THEN e.window ELSE None]
      [] e.type = "stop" -> [n EXCEPT !.active = None]
      [] OTHER -> n

NewSystemWindow(n) ==
    IF Cardinality(DOMAIN n.windows) < MaxInfoWindows
    THEN <<Request("open", None, "system")>> ELSE <<>>

CommandRequests(n, e) ==
    CASE e.command = "new window" -> NewSystemWindow(n)
      [] e.command = "about" /\ n.about # None -> <<Request("activate", n.about, "none")>>
      [] e.command = "about" /\ n.about = None /\ Cardinality(DOMAIN n.windows) < MaxInfoWindows ->
            <<Request("open", None, "about")>>
      [] e.command = "quit" -> <<Request("exit", None, "none")>>
      [] e.command = "version" /\ n.windows[e.window] = "system" -> <<Publish(n)>>
      [] e.command = "close window" -> <<Request("close", e.window, "none")>>
      [] e.command = "close others" ->
            LET others == SetToSeq(DOMAIN n.windows \ {e.window})
            IN  [i \in DOMAIN others |-> Request("close", others[i], "none")]
      [] OTHER -> <<>>

InfoRequests(n, e) ==
    CASE e.type = "start" /\ DOMAIN n.windows = {} -> NewSystemWindow(n)
      [] e.type = "start" /\ DOMAIN n.windows # {} /\ n.active # None ->
            <<Request("activate", n.active, "none")>>
      [] e.type = "menu command" /\ e.window \in DOMAIN n.windows -> CommandRequests(n, e)
      [] e.type = "close requested" /\ e.window \in DOMAIN n.windows ->
            <<Request("close", e.window, "none")>>
      [] e.type = "window opened" /\ e.window # None ->
            IF OpenedState(n, e) = n THEN <<Request("close", e.window, "none")>>
            ELSE <<Publish(OpenedState(n, e))>>
      [] e.type = "window closed" /\ e.window \in DOMAIN n.windows -> <<Publish(ClosedState(n, e.window))>>
      [] e.type = "focus changed" -> <<Publish(InfoAfter(n, e))>>
      [] OTHER -> <<>>

(***************************************************************************)
(* Delivery.                                                               *)
(***************************************************************************)
HasLiveTarget(d, e) ==
    CASE e.type = "menu command" -> e.window \in SlotWindows(d) /\ e.command \in d.menu
      [] e.type = "close requested" -> e.window \in SlotWindows(d)
      [] OTHER -> TRUE

Informational == {"window closed", "focus changed"}

\* The failure of the first event leaves an application that never started.
FailedStart(d, e) ==
    IF ~Ok(d) /\ e.type = "start" /\ d.windows = <<>> THEN [d EXCEPT !.running = FALSE] ELSE d

IsDelivered(d, e) ==
    IF e.type = "stop" THEN d.stopping
    ELSE d.running /\ (d.stopping => e.type \in Informational) /\ HasLiveTarget(d, e)

\* The application hears of the event; what it asks for is then applied.
Heard(d, e, requests) ==
    IF e.type = "stop" THEN [d EXCEPT !.running = FALSE, !.stopping = FALSE]
    ELSE IF d.stopping THEN d
    ELSE FailedStart(ApplyBatch(d, requests), e)

ProcessEvent(d, e) ==
    IF IsDelivered(d, e)
    THEN Heard([d EXCEPT !.info = InfoAfter(@, e)], e, InfoRequests(d.info, e)) ELSE d

RECURSIVE Pump(_, _)
\* pump_events: a failure drops whatever is still queued.
Pump(d, processed) ==
    IF ~Ok(d) THEN [d EXCEPT !.events = <<>>]
    ELSE IF d.events = <<>> THEN d
    ELSE IF processed = PumpLimit THEN [Fail(d, "application") EXCEPT !.events = <<>>]
    ELSE Pump(ProcessEvent([d EXCEPT !.events = Tail(@)], Head(d.events)), processed + 1)

SyncFocus(d) == IF Ok(d) THEN Pump(QueueFocus(d), 0) ELSE d

\* nb_application_host_start; a failure after START opened windows stops it again.
Unstarted(d) == [Pump(BeginStop([d EXCEPT !.fault = "none"]), 0) EXCEPT !.fault = d.fault]
Started(d) == IF Ok(d) \/ ~d.running \/ d.stopping THEN d ELSE Unstarted(d)

Start(d) ==
    IF d.running \/ d.stopping \/ d.windows # <<>> THEN Fail(d, "application")
    ELSE Started(Pump(Queue([d EXCEPT !.running = TRUE], Event("start", None, "none")), 0))

Restarted(d) == IF Ok(d) THEN Start(d) ELSE d
Restart(d) == Restarted(Pump(BeginStop(d), 0))

\* nb_application_host_dispatch_shell_action.
IsForApplication(d, a) ==
    \/ a.type = "menu command" /\ a.source = Source
    \/ a.type = "close requested" /\ a.window \in SlotWindows(d)

Accepts(d, a) ==
    /\ d.running /\ ~d.stopping /\ a.window \in SlotWindows(d)
    /\ a.type = "menu command" => a.command \in d.menu

Addressed(d, a) ==
    IF IsForApplication(d, a) /\ Accepts(d, a)
    THEN Queue(d, [Event(a.type, a.window, CookieOf(d, a.window)) EXCEPT !.command = a.command]) ELSE d

Refused(d, a) == IF IsForApplication(d, a) /\ ~Accepts(d, a) THEN Fail(d, "application") ELSE d

Dispatch(d, a) == Pump(Addressed(Refused(QueueFocus(d), a), a), 0)
=============================================================================
