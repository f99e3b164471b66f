------------------------------ MODULE Selections ------------------------------
(***************************************************************************)
(* Copy and paste: the selection of the Wayland server, the rootless X     *)
(* window manager that trades it with the X server's CLIPBOARD and         *)
(* PRIMARY, and the programs on both sides.  A copied text is the sequence *)
(* of its pieces, each named after the data source or X window that copied *)
(* it, so that a mixture of two texts can be told.                         *)
(*                                                                         *)
(* The X server is external: its event queue towards the window manager,   *)
(* the owners of its selections and the property imports go through.  The  *)
(* manager's requests are checked ones and take effect within the handler. *)
(***************************************************************************)
EXTENDS Integers, FiniteSets, Sequences

CONSTANTS
    Programs,       \* Wayland clients
    Sources,        \* wl_data_source objects, each used once
    XWindows,       \* X clients' windows; each copies one text
    Pieces,         \* chunks of NB_X11_SELECTION_TRANSFER_CHUNK_BYTES in each text
    MaxPieces,      \* NB_X11_SELECTION_TRANSFER_MAX_BYTES, in chunks
    MaxXEvents,     \* bound: X events that wait while X clients act
    Nothing         \* no source, window, text, selection or focus

Manager == "xwm"        \* the manager's own window
XSelections == {"clipboard", "primary"}

ASSUME SelectionsAssumption ==
    /\ Pieces \in [Sources \cup XWindows -> Nat \ {0}]
    /\ MaxPieces \in Nat \ {0}
    /\ Nothing \notin Programs \cup Sources \cup XWindows \cup XSelections \cup {Manager}
    /\ Nothing \notin Seq(Sources \cup XWindows)
    /\ Manager \notin XWindows /\ "external" \notin Sources

VARIABLES
    server,     \* the selection fields of struct nb_wayland_server
    xserver,    \* owners, the import property, conversions and events
    xwm,        \* the selection fields of struct nb_xwayland_rootless
    sending     \* chunks, and the empty one, each X window still has to write; 0 if none

selectionVars == <<server, xserver, xwm, sending>>

TextOf(t) == [i \in 1 .. Pieces[t] |-> t]
Oversize(text) == Len(text) > MaxPieces

SelectionInit ==
    /\ server = [source |-> [s \in Sources |-> [owner |-> Nothing, text |-> FALSE, gone |-> FALSE]],
                 kind |-> "none", current |-> Nothing, text |-> Nothing, reading |-> Nothing,
                 devices |-> {}, offers |-> {}, focus |-> Nothing]
    /\ xserver = [owner |-> [x \in XSelections |-> Nothing], property |-> Nothing,
                  conversions |-> {}, events |-> <<>>, gone |-> {}]
    /\ xwm = [ready |-> FALSE, external |-> Nothing, stage |-> "none", selection |-> Nothing,
              target |-> Nothing, incoming |-> <<>>,
              exports |-> [w \in XWindows \cup {Manager} |-> Nothing]]
    /\ sending = [w \in XWindows |-> 0]

-----------------------------------------------------------------------------
(***************************************************************************)
(* The Wayland server's selection: operators on `server`.  An offer is     *)
(* from a source, or from the external text of the current generation; one *)
(* that was invalidated or outdated gives nothing and is left out.         *)
(***************************************************************************)
Live(v, s) == v.source[s].owner # Nothing /\ ~v.source[s].gone

MutantSelectionClear(v) ==
    [v EXCEPT !.reading = Nothing, !.kind = "none", !.current = Nothing, !.text = Nothing]

\* selection_clear: cancels the read, invalidates the source's offers, and
\* the next generation outdates those of an external text.
SelectionClear(v) ==
    [v EXCEPT !.reading = Nothing, !.kind = "none", !.current = Nothing, !.text = Nothing,
              !.offers = {o \in @ : o.from \notin {v.current, "external"}}]

CanBeOffered(v) ==
    \/ v.kind = "source" /\ v.current # Nothing /\ Live(v, v.current)
    \/ v.kind = "external" /\ v.text # Nothing

\* data_device_send_selection_to_client
SendSelection(v, c) ==
    IF c \in v.devices /\ CanBeOffered(v)
    THEN [v EXCEPT !.offers = @ \cup {[client |-> c,
                                       from |-> IF v.kind = "source" THEN v.current ELSE "external"]}]
    ELSE v

SendToFocused(v) == SendSelection(v, v.focus)

\* nb_wayland_server_set_external_clipboard_text
SetExternal(v, text) ==
    SendToFocused([SelectionClear(v) EXCEPT !.kind = "external", !.text = text])

\* nb_wayland_server_clear_external_clipboard
ClearExternal(v) == IF v.kind = "external" THEN SendToFocused(SelectionClear(v)) ELSE v

\* nb_wayland_server_clipboard_text
ClipboardText(v) ==
    IF v.kind = "source" /\ v.current # Nothing THEN v.text ELSE Nothing

\* data_offer_receive: what the client that takes the offer is sent.
Received(v, o) ==
    CASE o.from \in Sources -> IF Live(v, o.from) THEN TextOf(o.from) ELSE Nothing
      [] o.from = "external" /\ v.kind = "external" -> v.text
      [] OTHER -> Nothing

-----------------------------------------------------------------------------
(***************************************************************************)
(* The X server: operators on `xserver`.  XFixes also reports what the     *)
(* manager's own claims do; those events are dropped here because the      *)
(* handler drops them.                                                     *)
(***************************************************************************)
Tell(d, e) == [d EXCEPT !.events = Append(@, e)]

OwnerChanged(d, x, w) ==
    Tell([d EXCEPT !.owner[x] = w], [type |-> "owner", selection |-> x, window |-> w])

\* set_native_clipboard_owner(true)
Claimed(d) == [d EXCEPT !.owner = [x \in XSelections |-> Manager]]

\* set_native_clipboard_owner(false), each selection that is the manager's.
ReleasedOne(d, x) == IF d.owner[x] = Manager THEN OwnerChanged(d, x, Nothing) ELSE d
Released(d) == ReleasedOne(ReleasedOne(d, "clipboard"), "primary")

\* clipboard_notify_xwayland
Notified(d, available) ==
    IF ~xwm.ready THEN d ELSE IF available THEN Claimed(d) ELSE Released(d)

\* What the X server is told when selection_clear releases the claim.
ReleasedBy(v, d) == IF v.kind = "source" THEN Notified(d, FALSE) ELSE d

Answered(d, x, target, ok) ==
    Tell(d, [type |-> "answer", selection |-> x, target |-> target, ok |-> ok])

Written(d, value) == Tell([d EXCEPT !.property = value], [type |-> "written"])

\* xcb_convert_selection of the manager's window: the owner is asked, or
\* the manager itself, or the server refuses.
Convert(d, x, target) ==
    CASE d.owner[x] = Nothing -> Answered(d, x, target, FALSE)
      [] d.owner[x] = Manager -> Tell(d, [type |-> "request", selection |-> x, window |-> Manager])
      [] OTHER -> [d EXCEPT !.conversions = @ \cup {[to |-> d.owner[x], selection |-> x,
                                                     target |-> target]}]

\* xcb_get_property with delete: a transfer to the manager itself notices.
PropertyRead(d, m) ==
    IF d.property # Nothing /\ m.exports[Manager] # Nothing
    THEN Tell([d EXCEPT !.property = Nothing], [type |-> "deleted", window |-> Manager])
    ELSE [d EXCEPT !.property = Nothing]

-----------------------------------------------------------------------------
(***************************************************************************)
(* Wayland clients.  A client that dies destroys its objects one after     *)
(* another, each with its destroy handler.                                 *)
(***************************************************************************)
WaylandOnly == UNCHANGED <<xwm, sending>>

CreateSource(c, s) ==
    /\ server.source[s].owner = Nothing
    /\ server' = [server EXCEPT !.source[s].owner = c]
    /\ WaylandOnly /\ UNCHANGED xserver

\* data_source_offer of a text type
OfferText(s) ==
    /\ Live(server, s) /\ ~server.source[s].text
    /\ server' = [server EXCEPT !.source[s].text = TRUE]
    /\ WaylandOnly /\ UNCHANGED xserver

\* data_source_resource_destroyed
DestroySource(s) ==
    /\ Live(server, s)
    /\ LET v == [server EXCEPT !.source[s].gone = TRUE]
       IN  IF server.current = s
           THEN /\ server' = SendToFocused(SelectionClear(v))
                /\ xserver' = ReleasedBy(server, xserver)
           ELSE server' = v /\ UNCHANGED xserver
    /\ WaylandOnly

\* data_device_manager_get_data_device
GetDevice(c) ==
    /\ c \notin server.devices
    /\ LET v == [server EXCEPT !.devices = @ \cup {c}]
       IN  server' = IF v.focus = c THEN SendSelection(v, c) ELSE v
    /\ WaylandOnly /\ UNCHANGED xserver

ReleaseDevice(c) ==
    /\ c \in server.devices
    /\ server' = [server EXCEPT !.devices = @ \ {c}]
    /\ WaylandOnly /\ UNCHANGED xserver

DestroyOffer(o) ==
    /\ o \in server.offers
    /\ server' = [server EXCEPT !.offers = @ \ {o}]
    /\ WaylandOnly /\ UNCHANGED xserver

\* data_device_set_selection by the client with the keyboard; another's
\* source is only cancelled.
SetSelection(c, s) ==
    /\ c \in server.devices /\ server.focus = c
    /\ s # Nothing => Live(server, s) /\ server.source[s].owner = c /\ server.current # s
    /\ LET v == SelectionClear(server)
       IN  server' =
             IF s = Nothing THEN v
             ELSE [SendToFocused([v EXCEPT !.kind = "source", !.current = s])
                     EXCEPT !.reading = IF server.source[s].text THEN s ELSE Nothing]
    /\ xserver' = ReleasedBy(server, xserver)
    /\ WaylandOnly

\* keyboard_change_focus, to a surface of another client or of none.
FocusClient(c) ==
    /\ c # server.focus
    /\ server' = SendSelection([server EXCEPT !.focus = c], c)
    /\ WaylandOnly /\ UNCHANGED xserver

\* clipboard_read_finish at the end of the pipe, on an error, or past the
\* limit.  A text over the limit never succeeds.
ReadFinish(success) ==
    /\ server.reading # Nothing
    /\ success => ~Oversize(TextOf(server.reading))
    /\ LET published == success /\ server.kind = "source" /\ server.current = server.reading
       IN  /\ server' = [server EXCEPT !.reading = Nothing,
                                       !.text = IF published THEN TextOf(server.reading) ELSE @]
           /\ xserver' = IF published THEN Notified(xserver, TRUE) ELSE xserver
    /\ WaylandOnly

-----------------------------------------------------------------------------
(***************************************************************************)
(* X clients (external).  They act while few of their events wait.         *)
(***************************************************************************)
XRunning(w) == xwm.ready /\ w \notin xserver.gone /\ Len(xserver.events) < MaxXEvents

Copy(w, x) ==
    /\ XRunning(w) /\ xserver.owner[x] # w
    /\ xserver' = OwnerChanged(xserver, x, w)
    /\ UNCHANGED <<server, xwm, sending>>

\* The window is destroyed: it owns nothing any more and answers nothing.
Exit(w) ==
    /\ XRunning(w)
    /\ LET d == [xserver EXCEPT !.gone = @ \cup {w}, !.conversions = {q \in @ : q.to # w}]
           without(e, x) == IF e.owner[x] = w THEN OwnerChanged(e, x, Nothing) ELSE e
       IN  xserver' = Tell(without(without(d, "clipboard"), "primary"),
                           [type |-> "destroyed", window |-> w])
    /\ sending' = [sending EXCEPT ![w] = 0]
    /\ UNCHANGED <<server, xwm>>

\* The window answers a conversion it was asked for: with its targets, with
\* its text, with the announcement of a text in chunks of which it promises
\* no more than there are, or with a refusal.
Answer(q) ==
    /\ XRunning(q.to) /\ q \in xserver.conversions
    /\ LET d == [xserver EXCEPT !.conversions = @ \ {q}]
           values == IF q.target = "targets" THEN {[type |-> "targets"]}
                     ELSE {v \in {[type |-> "text", data |-> TextOf(q.to)]} : Pieces[q.to] = 1}
                          \cup [type : {"incr"}, size : 1 .. Pieces[q.to]]
       IN  \/ \E value \in values :
                /\ xserver' = Answered(Written(d, value), q.selection, q.target, TRUE)
                /\ sending' = IF value.type = "incr"
                              THEN [sending EXCEPT ![q.to] = Pieces[q.to] + 1] ELSE sending
           \/ xserver' = Answered(d, q.selection, q.target, FALSE) /\ UNCHANGED sending
    /\ UNCHANGED <<server, xwm>>

\* It writes the next chunk once the one before is gone, at last an empty one.
WriteChunk(w) ==
    /\ XRunning(w) /\ sending[w] > 0 /\ xserver.property = Nothing
    /\ xserver' = Written(xserver, [type |-> "text",
                                    data |-> IF sending[w] > 1 THEN <<w>> ELSE <<>>])
    /\ sending' = [sending EXCEPT ![w] = @ - 1]
    /\ UNCHANGED <<server, xwm>>

\* It asks for the manager's text, or deletes the chunk it has read.
Paste(w, x) ==
    /\ XRunning(w) /\ xserver.owner[x] = Manager
    /\ ~\E i \in DOMAIN xserver.events : xserver.events[i].type \in {"request", "deleted"}
    /\ xserver' = IF xwm.exports[w] = Nothing
                  THEN Tell(xserver, [type |-> "request", selection |-> x, window |-> w])
                  ELSE Tell(xserver, [type |-> "deleted", window |-> w])
    /\ UNCHANGED <<server, xwm, sending>>

-----------------------------------------------------------------------------
(***************************************************************************)
(* The rootless window manager: one X event at a time, in the order they   *)
(* came (nb_xwayland_rootless_dispatch).                                   *)
(***************************************************************************)
\* The interface is published once the manager runs.
BecomeReady ==
    /\ ~xwm.ready
    /\ xwm' = [xwm EXCEPT !.ready = TRUE]
    /\ xserver' = IF ClipboardText(server) # Nothing THEN Claimed(xserver) ELSE xserver
    /\ UNCHANGED <<server, sending>>

Head1 == Head(xserver.events)
Rest == [xserver EXCEPT !.events = Tail(@)]
Handles(type) == xserver.events # <<>> /\ Head1.type = type /\ UNCHANGED sending

\* finish_external_selection_import
Finished(m, imported) ==
    [m EXCEPT !.external = IF imported THEN m.selection ELSE @,
              !.stage = "none", !.selection = Nothing, !.target = Nothing, !.incoming = <<>>]

\* request_external_selection
Requested(m, x, target) ==
    [m EXCEPT !.incoming = IF target = "targets" THEN <<>> ELSE @,
              !.stage = target, !.selection = x, !.target = target]

\* handle_xfixes_selection_notify
OwnerLost ==
    /\ Handles("owner") /\ Head1.window = Nothing
    /\ LET x == Head1.selection
           m == [xwm EXCEPT !.external = IF @ = x THEN Nothing ELSE @]
       IN  /\ server' = IF xwm.external = x THEN ClearExternal(server) ELSE server
           /\ xwm' = IF xwm.selection = x THEN Finished(m, FALSE) ELSE m
    /\ xserver' = Rest

OwnerIsNew ==
    /\ Handles("owner") /\ Head1.window # Nothing
    /\ LET x == Head1.selection
       IN  /\ server' = IF xwm.external # Nothing THEN ClearExternal(server) ELSE server
           /\ xwm' = Requested([xwm EXCEPT !.external = Nothing], x, "targets")
           /\ xserver' = Convert(Released(Rest), x, "targets")

\* handle_selection_notify.  What it reads is whatever the property holds.
AnswerIsWrong ==
    \/ xwm.stage = "none" \/ ~Head1.ok
    \/ Head1.selection # xwm.selection \/ Head1.target # xwm.target

AnswerIgnored ==
    /\ Handles("answer") /\ AnswerIsWrong
    /\ xwm' = IF Head1.selection = xwm.selection THEN Finished(xwm, FALSE) ELSE xwm
    /\ xserver' = Rest
    /\ UNCHANGED server

PropertyIs(type) == xserver.property # Nothing /\ xserver.property.type = type

TargetsCome ==
    /\ Handles("answer") /\ ~AnswerIsWrong /\ xwm.stage = "targets"
    /\ \E offersText \in BOOLEAN :
         IF PropertyIs("targets") /\ offersText
         THEN /\ xwm' = Requested(xwm, xwm.selection, "text")
              /\ xserver' = Convert(PropertyRead(Rest, xwm), xwm.selection, "text")
         ELSE /\ xwm' = Finished(xwm, FALSE)
              /\ xserver' = PropertyRead(Rest, xwm)
    /\ UNCHANGED server

TextComes ==
    /\ Handles("answer") /\ ~AnswerIsWrong /\ xwm.stage # "targets"
    /\ LET v == xserver.property
       IN  CASE PropertyIs("incr") ->
                  /\ xwm' = [xwm EXCEPT !.incoming = <<>>,
                                        !.stage = IF v.size <= MaxPieces THEN "incr" ELSE "drain"]
                  /\ UNCHANGED server
             [] PropertyIs("text") /\ ~Oversize(v.data) ->
                  xwm' = Finished(xwm, TRUE) /\ server' = SetExternal(server, v.data)
             [] OTHER -> xwm' = Finished(xwm, FALSE) /\ UNCHANGED server
    /\ xserver' = PropertyRead(Rest, xwm)

\* handle_incremental_selection_import
ChunkComes ==
    /\ Handles("written")
    /\ IF xwm.stage \notin {"incr", "drain"}
       THEN xserver' = Rest /\ UNCHANGED <<server, xwm>>
       ELSE LET v == xserver.property
                empty == v = Nothing \/ (v.type = "text" /\ v.data = <<>>)
            IN  /\ xserver' = PropertyRead(Rest, xwm)
                /\ CASE empty /\ (xwm.stage = "drain" \/ v = Nothing) ->
                          xwm' = Finished(xwm, FALSE) /\ UNCHANGED server
                     [] empty /\ xwm.stage = "incr" /\ v # Nothing ->
                          xwm' = Finished(xwm, TRUE) /\ server' = SetExternal(server, xwm.incoming)
                     [] ~empty /\ xwm.stage = "incr" /\ v.type = "text"
                          /\ ~Oversize(xwm.incoming \o v.data) ->
                          xwm' = [xwm EXCEPT !.incoming = @ \o v.data] /\ UNCHANGED server
                     [] OTHER ->
                          xwm' = [xwm EXCEPT !.incoming = <<>>, !.stage = "drain"] /\ UNCHANGED server

\* handle_selection_request for a text; a text of several chunks is
\* snapshotted, one for each requestor (and property) at a time.
TextRequested ==
    /\ Handles("request")
    /\ LET w == Head1.window
           text == ClipboardText(server)
           chunked == text # Nothing /\ Len(text) > 1
           exported == text # Nothing /\ ~Oversize(text) /\ (chunked => xwm.exports[w] = Nothing)
           value == IF chunked THEN [type |-> "incr", size |-> Len(text)]
                    ELSE [type |-> "text", data |-> text]
       IN  /\ xwm' = IF exported /\ chunked
                     THEN [xwm EXCEPT !.exports[w] = [text |-> text, sent |-> 0]] ELSE xwm
           /\ xserver' = IF w # Manager THEN Rest
                         ELSE IF exported THEN Answered(Written(Rest, value), Head1.selection, "text", TRUE)
                         ELSE Answered(Rest, Head1.selection, "text", FALSE)
    /\ UNCHANGED server

\* handle_incremental_selection_export, nb_x11_selection_outgoing_next
NextChunk ==
    /\ Handles("deleted")
    /\ LET w == Head1.window
           export == xwm.exports[w]
           done == export.sent = Len(export.text)
       IN  IF export = Nothing THEN xserver' = Rest /\ UNCHANGED xwm
           ELSE /\ xwm' = [xwm EXCEPT !.exports[w] =
                             IF done THEN Nothing ELSE [export EXCEPT !.sent = @ + 1]]
                /\ xserver' = IF w # Manager THEN Rest
                              ELSE Written(Rest, [type |-> "text",
                                     data |-> IF done THEN <<>> ELSE <<export.text[export.sent + 1]>>])
    /\ UNCHANGED server

\* nb_x11_selection_outgoing_cancel_requestor
RequestorGone ==
    /\ Handles("destroyed")
    /\ xwm' = [xwm EXCEPT !.exports[Head1.window] = Nothing]
    /\ xserver' = Rest
    /\ UNCHANGED server

-----------------------------------------------------------------------------
SelectionNext ==
    \/ \E c \in Programs : GetDevice(c) \/ ReleaseDevice(c)
    \/ \E c \in Programs, s \in Sources : CreateSource(c, s)
    \/ \E c \in Programs, s \in Sources \cup {Nothing} : SetSelection(c, s)
    \/ \E c \in Programs \cup {Nothing} : FocusClient(c)
    \/ \E s \in Sources : OfferText(s) \/ DestroySource(s)
    \/ \E o \in server.offers : DestroyOffer(o)
    \/ \E success \in BOOLEAN : ReadFinish(success)
    \/ \E w \in XWindows : Exit(w) \/ WriteChunk(w)
    \/ \E w \in XWindows, x \in XSelections : Copy(w, x) \/ Paste(w, x)
    \/ \E q \in xserver.conversions : Answer(q)
    \/ BecomeReady \/ OwnerLost \/ OwnerIsNew \/ AnswerIgnored \/ TargetsCome \/ TextComes
    \/ ChunkComes \/ TextRequested \/ NextChunk \/ RequestorGone

SelectionSpec == SelectionInit /\ [][SelectionNext]_selectionVars

(***************************************************************************)
(* Properties.                                                             *)
(***************************************************************************)
\* Nothing outlives the selection it belongs to: the read is of the current
\* source, no offer names a source that is gone or an outdated text, the text
\* given to X11 is the current source's, and what is sent in chunks is whole.
ClipboardIsCurrent ==
    /\ server.current # Nothing <=> server.kind = "source"
    /\ server.current # Nothing => Live(server, server.current)
    /\ server.reading \in {Nothing, server.current}
    /\ \A o \in server.offers :
         /\ Received(server, o) # Nothing
         /\ o.from \in Sources => o.from = server.current
    /\ ClipboardText(server) # Nothing => server.text = TextOf(server.current)
    /\ \A w \in XWindows : xwm.exports[w] # Nothing => \E s \in Sources : xwm.exports[w].text = TextOf(s)

\* Once every event is handled, a text imported from X11 is on offer only
\* while its selection has an owner.
ExternalHasOwner ==
    server.kind = "external" /\ xserver.events = <<>> => xserver.owner[xwm.external] # Nothing

\* No read, offer or publication of a Wayland selection outlives its source or
\* is of another than the current one, what is sent to X11 in chunks is one
\* source's whole text, and a text from X11 is on offer only while its
\* selection has an owner or the news of the loss is still to be read
\* (selection_clear, clipboard_read_finish, handle_xfixes_selection_notify).
\* Which side copied last is not asked: a late import replaces a newer Wayland
\* selection, and an answer of an earlier X11 owner passes for the next one's.
SelectionHasOwner == ClipboardIsCurrent /\ ExternalHasOwner
=============================================================================
