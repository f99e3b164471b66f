---------------------------- MODULE ConsoleInput ----------------------------
(***************************************************************************)
(* The keyboard and the mouse of a session: what the kernel reports, the   *)
(* reducer that turns it into host events (wscons_input.c), the console's  *)
(* own chords (session_console_shortcuts.c), and the worker's drain_input, *)
(* which forwards the rest to the core while the console is the session's. *)
(* The pointer has the adaptive profile, which the worker sets; of its two *)
(* axes this is the horizontal one, with what the other does to it.        *)
(***************************************************************************)
EXTENDS Integers, Sequences, FiniteSetsExt

CONSTANTS
    KeyMap,             \* xkb name of each keycode, from 1; "" if it has none
    ControlKeys,        \* the names in enum nb_wscons_control_key, in its order
    PointerButtons,     \* pointer buttons
    Widths,             \* logical widths of the output
    Deltas,             \* raw relative motions
    Gains               \* percent, what gain_for_velocity can return

ASSUME InputAssumption ==
    /\ KeyMap \in Seq(STRING)
    /\ \A i, j \in DOMAIN KeyMap : KeyMap[i] = KeyMap[j] /\ KeyMap[i] # "" => i = j
    /\ \E i \in DOMAIN KeyMap : KeyMap[i] = "ESC"
    /\ ControlKeys \in Seq(STRING \ {""})
    /\ \E i \in DOMAIN ControlKeys : ControlKeys[i] = "ESC"
    /\ Widths \subseteq Nat \ {0} /\ Widths # {}
    /\ Deltas \subseteq Int
    /\ Gains \subseteq 100 .. 250
    /\ \A c \in DOMAIN KeyMap : KeyMap[c] \notin PointerButtons  \* two kinds of events

VARIABLES
    ours,               \* the console belongs to the session
    over,               \* why the worker's loop ended: "", "emergency" or "failed"
    active,             \* the devices are open
    readable,           \* the devices the kernel has an event of
    prefer_mouse,
    pressed,            \* keycodes with keyboard_keys[].pressed
    releasing,          \* keycodes with keyboard_keys[].release_pending
    controls,           \* names with control_keys[].pressed
    mask, count, cursor,    \* pending_key_release_{mask,count,cursor}
    buttons,            \* pressed_buttons
    width,              \* logical_width
    pointer,            \* pointer_x and the adaptive motion state
    modifiers, chordKeys, consumed,     \* struct nb_session_console_shortcuts
    held,               \* history: keys and buttons the core was told are down
    passedOver          \* history: reads of the other device since this one was readable

deviceVars == <<active, readable, prefer_mouse, passedOver>>
keyVars == <<pressed, releasing, controls, mask, count, cursor>>
shortcutVars == <<modifiers, chordKeys, consumed>>
inputVars == <<ours, over, deviceVars, keyVars, buttons, width, pointer, shortcutVars, held>>

Devices == {"keyboard", "mouse"}

Codes == DOMAIN KeyMap

CodeOf(name) == CHOOSE c \in Codes : KeyMap[c] = name

Names(codes) == {KeyMap[c] : c \in codes}

\* Keys with a control_keys[] entry, of those the keymap has.
ControlNames(codes) == Names(codes) \cap {ControlKeys[i] : i \in DOMAIN ControlKeys}

-----------------------------------------------------------------------------
(***************************************************************************)
(* Opening and closing the devices.                                        *)
(***************************************************************************)
\* reset_adaptive_motion
AtRest(p) == [p EXCEPT !.remainder = 0, !.direction = 0, !.gain = 100, !.grouped = FALSE]

MutantResetReducer(p) ==
    /\ releasing' = {} /\ controls' = {} /\ mask' = {} /\ count' = 0 /\ cursor' = 0
    /\ buttons' = {}
    /\ pointer' = AtRest(p)
    /\ UNCHANGED pressed

\* nb_wscons_input_reducer_reset
ResetReducer(p) ==
    /\ pressed' = {} /\ releasing' = {} /\ controls' = {}
    /\ mask' = {} /\ count' = 0 /\ cursor' = 0
    /\ buttons' = {}
    /\ pointer' = AtRest(p)

ResetShortcuts == modifiers' = {} /\ chordKeys' = {} /\ consumed' = {}

\* Closing a device discards what the kernel had of it.
CloseDevices ==
    /\ active' = FALSE /\ readable' = {} /\ passedOver' = [d \in Devices |-> 0]
    /\ UNCHANGED prefer_mouse
    /\ ResetReducer(pointer)

InputInit ==
    /\ ours = TRUE /\ over = ""
    /\ active = TRUE /\ prefer_mouse = TRUE /\ readable = {}
    /\ passedOver = [d \in Devices |-> 0]
    /\ pressed = {} /\ releasing = {} /\ controls = {}
    /\ mask = {} /\ count = 0 /\ cursor = 0 /\ buttons = {}
    /\ width \in Widths
    /\ pointer = [x |-> (width - 1) \div 2, remainder |-> 0, direction |-> 0,
                  gain |-> 100, grouped |-> FALSE]
    /\ modifiers = {} /\ chordKeys = {} /\ consumed = {} /\ held = {}

Reading == over = ""

\* handle_host_event, release requested.  The core gives up its keys and
\* buttons when it is told.
ReleaseConsole ==
    /\ Reading /\ ours
    /\ ours' = FALSE /\ held' = {}
    /\ CloseDevices /\ ResetShortcuts
    /\ UNCHANGED <<over, width>>

Clamp(coordinate, extent) ==
    IF coordinate < 0 THEN 0 ELSE IF coordinate >= extent THEN extent - 1 ELSE coordinate

\* handle_host_event, acquire requested, and resume_input_and_helper.  The
\* output may have another size, and a device may fail to open.
AcquireConsole ==
    /\ Reading /\ ~ours
    /\ ours' = TRUE
    /\ ResetShortcuts
    /\ width' \in Widths
    /\ ResetReducer([pointer EXCEPT !.x = Clamp(@, width')])
    /\ \/ active' = TRUE /\ prefer_mouse' = TRUE /\ UNCHANGED over
       \/ over' = "failed" /\ UNCHANGED <<active, prefer_mouse>>
    /\ UNCHANGED <<readable, passedOver, held>>

\* fail_poll: a device is gone, or cannot be read.
DeviceFails ==
    /\ Reading /\ active
    /\ over' = "failed"
    /\ CloseDevices
    /\ UNCHANGED <<ours, width, shortcutVars, held>>

\* The user's doing; the event itself is chosen when it is read.
DeviceReadable ==
    /\ Reading /\ active
    /\ \E d \in Devices \ readable : readable' = readable \cup {d}
    /\ UNCHANGED <<ours, over, active, prefer_mouse, passedOver, keyVars, buttons, width,
                   pointer, shortcutVars, held>>

MutantTurnOf(d) ==
    /\ Reading /\ active /\ count = 0
    /\ d \in readable
    /\ readable = Devices => (d = "mouse") = prefer_mouse
    /\ prefer_mouse' = IF readable = Devices THEN prefer_mouse ELSE d = "keyboard"
    /\ readable' \in {readable, readable \ {d}}
    /\ passedOver' = [o \in Devices |-> IF o # d /\ o \in readable THEN passedOver[o] + 1 ELSE 0]

\* nb_wscons_input_poll reads one event of the device whose turn it is, if no
\* release is pending; the other has the next turn.
TurnOf(d) ==
    /\ Reading /\ active /\ count = 0
    /\ d \in readable
    /\ readable = Devices => (d = "mouse") = prefer_mouse
    /\ prefer_mouse' = (d = "keyboard")
    /\ readable' \in {readable, readable \ {d}}
    /\ passedOver' = [o \in Devices |-> IF o # d /\ o \in readable THEN passedOver[o] + 1 ELSE 0]

-----------------------------------------------------------------------------
(***************************************************************************)
(* The console's chords (nb_session_console_shortcuts_apply), and what     *)
(* drain_input forwards.  An event is a key's name, whether it went down,  *)
(* and whether it was down already.                                        *)
(***************************************************************************)
KeyEvent(name, down, repeat) == [key |-> name, down |-> down, repeat |-> repeat]

Controlling == {"LCTL", "RCTL"}
Alternating == {"LALT", "RALT"}
FunctionKeys == {"FK01", "FK02", "FK03", "FK04", "FK05", "FK06",
                 "FK07", "FK08", "FK09", "FK10", "FK11", "FK12"}
ChordKeys == FunctionKeys \cup {"BKSP"}

\* A first press with Ctrl and Alt down.
StartsChord(e) ==
    /\ e.key \in ChordKeys /\ e.down /\ e.key \notin chordKeys /\ ~e.repeat
    /\ modifiers \cap Controlling # {} /\ modifiers \cap Alternating # {}

Updated(set, e, relevant) ==
    IF e.key \notin relevant THEN set ELSE IF e.down THEN set \cup {e.key} ELSE set \ {e.key}

ShortcutsApply(e) ==
    /\ modifiers' = Updated(modifiers, e, Controlling \cup Alternating)
    /\ chordKeys' = Updated(chordKeys, e, ChordKeys)
    /\ consumed' = IF StartsChord(e) THEN consumed \cup {e.key}
                   ELSE IF e.down THEN consumed ELSE consumed \ {e.key}

\* A key consumed when it was pressed is consumed until it is released.
IsConsumed(e) == StartsChord(e) \/ e.key \in consumed

Forward(e) == held' = IF e.down THEN held \cup {e.key} ELSE held \ {e.key}

\* drain_input, for a key event.  The virtual console a chord asks for is
\* only requested here: the release comes as an event of the host.
DrainKey(e) ==
    /\ ShortcutsApply(e)
    /\ IF IsConsumed(e) THEN UNCHANGED held ELSE Forward(e)

-----------------------------------------------------------------------------
(***************************************************************************)
(* Keys (reduce_key_event, reduce_all_keys_up, poll_pending).              *)
(***************************************************************************)
KeyDown ==
    /\ TurnOf("keyboard")
    /\ \E c \in Codes :
         LET e == KeyEvent(KeyMap[c], TRUE, c \in pressed)
         IN /\ KeyMap[c] # ""
            /\ ~(KeyMap[c] = "BKSP" /\ StartsChord(e))
            /\ pressed' = pressed \cup {c}
            /\ controls' = controls \cup ControlNames({c})
            /\ DrainKey(e)
    /\ UNCHANGED <<ours, over, active, releasing, mask, count, cursor, buttons, width, pointer>>

\* The keyboard is not in raw mode and sends the character Escape.
AsciiEscape ==
    /\ TurnOf("keyboard")
    /\ LET c == CodeOf("ESC")
       IN /\ pressed' = pressed \cup {c}
          /\ controls' = controls \cup {"ESC"}
          /\ DrainKey(KeyEvent("ESC", TRUE, c \in pressed))
    /\ UNCHANGED <<ours, over, active, releasing, mask, count, cursor, buttons, width, pointer>>

KeyUp ==
    /\ TurnOf("keyboard")
    /\ \E c \in pressed :
         /\ pressed' = pressed \ {c}
         /\ controls' = controls \ ControlNames({c})
         /\ DrainKey(KeyEvent(KeyMap[c], FALSE, FALSE))
    /\ UNCHANGED <<ours, over, active, releasing, mask, count, cursor, buttons, width, pointer>>

\* Keys that have no name, or go up without having gone down, and characters.
KeyIgnored ==
    /\ TurnOf("keyboard")
    /\ UNCHANGED <<ours, over, active, keyVars, buttons, width, pointer, shortcutVars, held>>

\* Ctrl+Alt+Backspace closes the devices before anything is forwarded.
EmergencyChord ==
    /\ TurnOf("keyboard") /\ readable' = {}
    /\ \E c \in Codes :
         LET e == KeyEvent(KeyMap[c], TRUE, c \in pressed)
         IN KeyMap[c] = "BKSP" /\ StartsChord(e) /\ ShortcutsApply(e)
    /\ over' = "emergency" /\ active' = FALSE
    /\ ResetReducer(pointer)
    /\ UNCHANGED <<ours, width, held>>

\* nb_wscons_input_reducer_poll_pending on these keys: control keys first, in
\* their order, then the others from the cursor on.
FirstPending(keys) ==
    IF keys.mask # {}
    THEN CodeOf(ControlKeys[Min({i \in DOMAIN ControlKeys : ControlKeys[i] \in keys.mask})])
    ELSE Min({c \in keys.releasing : c > keys.cursor})

MutantReleaseNext(keys) ==
    LET c == FirstPending(keys)
        left == keys.count - 1
    IN /\ releasing' = keys.releasing \ {c}
       /\ mask' = keys.mask \ ControlNames({c})
       /\ count' = left
       /\ cursor' = IF left = 0 THEN 0 ELSE c
       /\ DrainKey(KeyEvent(KeyMap[c], FALSE, FALSE))

ReleaseNext(keys) ==
    LET c == FirstPending(keys)
        left == keys.count - 1
    IN /\ releasing' = keys.releasing \ {c}
       /\ mask' = keys.mask \ ControlNames({c})
       /\ count' = left
       /\ cursor' = IF left = 0 THEN 0 ELSE IF keys.mask # {} THEN keys.cursor ELSE c
       /\ DrainKey(KeyEvent(KeyMap[c], FALSE, FALSE))

\* All keys that are down are released, one event for each poll.
AllKeysUp ==
    /\ TurnOf("keyboard") /\ pressed # {}
    /\ pressed' = {} /\ controls' = {}
    /\ ReleaseNext([releasing |-> pressed, mask |-> controls, count |-> Cardinality(pressed),
                    cursor |-> 0])
    /\ UNCHANGED <<ours, over, active, buttons, width, pointer>>

PollPending ==
    /\ Reading /\ active /\ count # 0
    /\ ReleaseNext([releasing |-> releasing, mask |-> mask, count |-> count, cursor |-> cursor])
    /\ UNCHANGED <<ours, over, deviceVars, pressed, controls, buttons, width, pointer>>

-----------------------------------------------------------------------------
(***************************************************************************)
(* The mouse (reduce_button_event, reduce_relative_event).                 *)
(***************************************************************************)
\* A button that changes; one that is already so is ignored.
Button ==
    /\ TurnOf("mouse")
    /\ \E b \in PointerButtons :
         \/ b \notin buttons /\ buttons' = buttons \cup {b} /\ held' = held \cup {b}
         \/ b \in buttons /\ buttons' = buttons \ {b} /\ held' = held \ {b}
         \/ UNCHANGED <<buttons, held>>
    /\ UNCHANGED <<ours, over, active, keyVars, width, pointer, shortcutVars>>

\* prepare_adaptive_gain: a first motion, or one at the time of the last, keeps
\* the gain; a pause, another clock, or a time in the past starts afresh; else
\* the gain is that of the filtered velocity.
AdaptiveGains(p) ==
    {[p EXCEPT !.grouped = TRUE]}
      \cup IF ~p.grouped THEN {}
           ELSE {[AtRest(p) EXCEPT !.grouped = TRUE]}
                  \cup {[p EXCEPT !.gain = g,
                                  !.remainder = IF p.gain > 100 /\ g = 100 THEN 0 ELSE @]
                            : g \in Gains}

Direction(d) == IF d < 0 THEN -1 ELSE IF d > 0 THEN 1 ELSE 0

MutantTowards(p, d) == [p EXCEPT !.direction = IF d = 0 THEN @ ELSE Direction(d)]

\* prepare_adaptive_direction: turning round gives up the fraction carried.
Towards(p, d) ==
    IF d = 0 THEN p
    ELSE [p EXCEPT !.direction = Direction(d),
                   !.remainder = IF p.direction \in {0, Direction(d)} THEN @ ELSE 0]

\* C's division, which truncates, and the remainder that goes with it.
Hundredths(n) == IF n >= 0 THEN n \div 100 ELSE -((-n) \div 100)

\* scaled_pointer_delta, moved_coordinate and the edge of the output.
Moved(p, d) ==
    LET scaled == d * p.gain + p.remainder
        delta == Hundredths(scaled)
        to == Clamp(p.x + delta, width)
        outward == (d < 0 /\ p.x = 0) \/ (d > 0 /\ p.x = width - 1)
    IN IF to - p.x # delta \/ outward
       THEN [AtRest(p) EXCEPT !.x = to]
       ELSE [p EXCEPT !.x = to, !.remainder = scaled - 100 * delta]

Motion(d) ==
    /\ TurnOf("mouse")
    /\ pointer' \in {Moved(Towards(p, d), d) : p \in AdaptiveGains(pointer)}
    /\ UNCHANGED <<ours, over, active, keyVars, buttons, width, shortcutVars, held>>

\* A motion along the other axis shares the gain, and stops both at its edge.
MotionAcross ==
    /\ TurnOf("mouse")
    /\ \E p \in AdaptiveGains(pointer) : pointer' \in {p, AtRest(p)}
    /\ UNCHANGED <<ours, over, active, keyVars, buttons, width, shortcutVars, held>>

-----------------------------------------------------------------------------
InputNext ==
    \/ ReleaseConsole
    \/ AcquireConsole
    \/ DeviceFails
    \/ DeviceReadable
    \/ KeyDown
    \/ AsciiEscape
    \/ KeyUp
    \/ KeyIgnored
    \/ EmergencyChord
    \/ AllKeysUp
    \/ PollPending
    \/ Button
    \/ \E d \in Deltas : Motion(d)
    \/ MotionAcross

InputSpec == InputInit /\ [][InputNext]_inputVars

-----------------------------------------------------------------------------
(***************************************************************************)
(* Properties.                                                             *)
(***************************************************************************)
\* What control_key_state_is_valid and reducer_is_valid ask of the reducer
\* before each operation, which fails otherwise and ends the session: the
\* pending releases, their mask, count and cursor, the mirror of the control
\* keys, and the pointer agree whatever order events come in.
KeysAreValid ==
    /\ pressed \subseteq {c \in Codes : KeyMap[c] # ""}
    /\ releasing \subseteq {c \in Codes : KeyMap[c] # ""}
    /\ pressed \cap releasing = {}
    /\ controls = ControlNames(pressed)
    /\ mask = ControlNames(releasing)
    /\ count = Cardinality(releasing)
    /\ cursor \in {0} \cup Codes
    /\ mask # {} => cursor = 0
    /\ mask = {} => \A c \in releasing : c > cursor
    /\ count = 0 => cursor = 0

PointerIsValid ==
    /\ pointer.x \in 0 .. width - 1
    /\ pointer.remainder \in -99 .. 99
    /\ pointer.direction \in {-1, 0, 1}
    /\ pointer.gain \in 100 .. 250

InputTypeOK ==
    /\ ours \in BOOLEAN /\ active \in BOOLEAN /\ prefer_mouse \in BOOLEAN
    /\ over \in {"", "emergency", "failed"}
    /\ readable \subseteq Devices
    /\ buttons \subseteq PointerButtons
    /\ width \in Widths

ReducerIsValid == InputTypeOK /\ KeysAreValid /\ PointerIsValid

\* The core believes a key or a button down exactly when it is: pressed, or
\* waiting for the release of an "all keys up", and not taken by a chord.  No
\* sequence of chords, repeats, lost releases and console switches leaves a
\* key stuck, or sends a release the core never saw the press of.
CoreHoldsWhatIsDown ==
    Reading => held = (Names(pressed \cup releasing) \ consumed) \cup buttons

\* Neither device waits for more than one event of the other, however fast
\* that one reports (nb_wscons_input_poll's prefer_mouse).
NeitherDeviceStarves == \A d \in Devices : passedOver[d] <= 1

\* The adaptive profile never loses a motion: with no gain below 100 percent
\* the pointer goes at least as far as the mouse, unless the output ends.
NoMotionIsLost ==
    [][\A d \in Deltas \ {0} :
          Motion(d) => IF d > 0 THEN pointer'.x >= Clamp(pointer.x + d, width)
                                ELSE pointer'.x <= Clamp(pointer.x + d, width)]_inputVars
=============================================================================
