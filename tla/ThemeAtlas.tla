------------------------------ MODULE ThemeAtlas ------------------------------
(***************************************************************************)
(* Window frames drawn by another process.  The Wayland server             *)
(* (wayland_server.c) tells the theme renderer (html_theme_renderer.c) how *)
(* the desktop looks; the renderer lets WebKit draw all frames in one      *)
(* picture, the atlas, and sends it back with a layout that says where     *)
(* each frame is.  Both directions are asynchronous: while a picture is    *)
(* drawn or on its way, the desktop may change again.                      *)
(*                                                                         *)
(* A look is all the server tells of the desktop: output, dock, clock and  *)
(* windows; it also stands for the size of the atlas that shows it.        *)
(* WebKit and GTK are external: a document is loaded, a snapshot shows the *)
(* document loaded last, the window gets its size, each in its own time.   *)
(* The server's copy of an older picture (html_theme_retained_pixels) is   *)
(* for renderers that submit no pixels and stays empty with this one.      *)
(***************************************************************************)
EXTENDS Naturals, Sequences

CONSTANTS
    Looks,          \* looks of the desktop
    Bare,           \* those without a window to frame
    MaxStates,      \* bound: states the server sends
    MaxRepaints,    \* bound: buffers GTK commits outside of the protocol
    NoAtlas         \* no layout, picture or document

ASSUME AtlasAssumption ==
    /\ Bare \subseteq Looks /\ MaxStates \in Nat /\ MaxRepaints \in Nat /\ NoAtlas \notin Looks
    /\ NoAtlas \notin [gen : Nat, look : Looks, tiles : BOOLEAN]
    /\ NoAtlas \notin [gen : Nat, look : Looks, drawn : Looks]

VARIABLES
    theme,      \* the html_theme_... fields of struct nb_wayland_server
    renderer,   \* struct renderer_state
    states,     \* events on their way to the renderer
    answers     \* requests on their way to the server

atlasVars == <<theme, renderer, states, answers>>

AtlasInit ==
    /\ \E look \in Looks :
         theme = [link |-> "none", look |-> look, sent |-> NoAtlas, serial |-> 0, acked |-> 0,
                  pending |-> NoAtlas, layout |-> 0, requested |-> FALSE, discard |-> FALSE,
                  pixels |-> NoAtlas, shown |-> NoAtlas, picture |-> NoAtlas,
                  surface |-> NoAtlas, fresh |-> FALSE, repaints |-> 0]
    /\ \E desktop \in BOOLEAN :
         renderer = [desktop |-> desktop, configured |-> FALSE, serial |-> 0, look |-> NoAtlas,
                     shell |-> FALSE, windows |-> FALSE, packed |-> FALSE, render |-> FALSE,
                     drawing |-> 0, gen |-> 0, laying |-> FALSE, loading |-> NoAtlas,
                     document |-> NoAtlas, snapshot |-> FALSE, publish |-> FALSE, quit |-> FALSE]
    /\ states = <<>> /\ answers = <<>>

-----------------------------------------------------------------------------
(***************************************************************************)
(* The server: operators on `theme`.                                       *)
(***************************************************************************)
Linked == theme.link = "up"

\* nb_theme_atlas_abort and what goes with it
Aborted(v) ==
    [v EXCEPT !.pending = NoAtlas, !.pixels = NoAtlas, !.layout = 0, !.requested = FALSE]

MutantSendState(v) ==
    IF v.sent = v.look THEN v ELSE [Aborted(v) EXCEPT !.serial = @ + 1, !.sent = v.look]

\* send_html_theme_state.  The rest of a layout it interrupts is ignored.
SendState(v) ==
    IF v.sent = v.look THEN v
    ELSE [IF v.pending # NoAtlas THEN [Aborted(v) EXCEPT !.discard = TRUE] ELSE v
            EXCEPT !.serial = @ + 1, !.sent = v.look]

\* The state travels as two events: between configure, theme and shell_state
\* and the windows with state_done the renderer may have other things to do.
Sent(old, new) ==
    IF new.serial = old.serial THEN states
    ELSE states \o <<[type |-> "state", serial |-> new.serial, look |-> new.look],
                     [type |-> "done", serial |-> new.serial, look |-> new.look]>>

\* A protocol error, like the end of the renderer, takes the theme down.
Unlinked(v, link) ==
    [Aborted(v) EXCEPT !.link = link, !.sent = NoAtlas, !.acked = 0, !.discard = FALSE,
                       !.shown = NoAtlas, !.picture = NoAtlas, !.surface = NoAtlas, !.fresh = FALSE]

Refused(v) == Unlinked(v, "refused")

OutOfDate(v) == v.layout # 0 /\ (v.layout # v.serial \/ v.acked # v.serial)

\* nb_theme_atlas_commit takes a layout with its generation and a tile.
CanCommit(v, gen) == v.pending # NoAtlas /\ v.pending.gen = gen /\ v.pending.tiles

\* try_publish_html_theme_atlas, with submitted pixels or with the surface's
TryPublish(v) ==
    LET ready == v.pixels # NoAtlas /\ v.pixels.gen = v.pending.gen /\ v.pixels.look = v.pending.look
        waits == ~ready /\ (v.surface = NoAtlas \/ ~v.fresh)
        fits == v.layout # 0 /\ (ready \/ v.surface = v.pending.look)
                /\ CanCommit(v, v.pending.gen)
    IN  CASE ~v.requested \/ v.pending = NoAtlas -> v
          [] v.requested /\ v.pending # NoAtlas /\ OutOfDate(v) -> Aborted(v)
          [] v.requested /\ v.pending # NoAtlas /\ ~OutOfDate(v) /\ waits -> v
          [] v.requested /\ v.pending # NoAtlas /\ ~OutOfDate(v) /\ ~waits /\ ~fits -> Refused(v)
          [] OTHER -> [Aborted(v) EXCEPT !.shown = v.pending,
                                         !.picture = IF ready THEN v.pixels ELSE @,
                                         !.pixels = IF ready THEN NoAtlas ELSE v.pixels]

\* html_theme_atlas_ack_state
AckState(v, m) ==
    IF m.serial = 0 \/ m.serial > v.serial THEN Refused(v)
    ELSE IF m.serial < v.serial THEN v ELSE [v EXCEPT !.acked = m.serial]

\* nb_theme_atlas_begin: generations only grow
CanBegin(v, m) ==
    v.pending = NoAtlas /\ m.gen > (IF v.shown = NoAtlas THEN 0 ELSE v.shown.gen)

\* html_theme_atlas_begin_layout
BeginLayout(v, m) ==
    IF v.acked # v.serial THEN [Aborted(v) EXCEPT !.discard = TRUE]
    ELSE IF ~CanBegin(v, m) THEN Refused(v)
    ELSE [Aborted(v) EXCEPT !.discard = FALSE, !.fresh = FALSE, !.layout = v.serial,
                            !.pending = [gen |-> m.gen, look |-> m.look, tiles |-> FALSE]]

\* nb_theme_atlas_add_tile and nb_theme_atlas_add_action_region: the tiles of
\* the renderer fit, each with its window's regions, and stand for one.
WithTile(v) == [v EXCEPT !.pending.tiles = TRUE]

\* html_theme_atlas_add_tile
AddTile(v) ==
    IF v.discard THEN v ELSE IF v.pending = NoAtlas THEN Refused(v) ELSE WithTile(v)

\* html_theme_atlas_submit_pixels
SubmitPixels(v, m) ==
    IF v.discard THEN v
    ELSE IF v.pending = NoAtlas \/ m.gen # v.pending.gen \/ m.look # v.pending.look THEN Refused(v)
    ELSE TryPublish([v EXCEPT !.pixels = [gen |-> m.gen, look |-> m.look, drawn |-> m.drawn]])

\* html_theme_atlas_commit_layout
CommitLayout(v, m) ==
    IF v.discard THEN [v EXCEPT !.discard = FALSE]
    ELSE IF OutOfDate(v) THEN Aborted(v)
    ELSE IF ~CanCommit(v, m.gen) THEN Refused(v)
    ELSE TryPublish([v EXCEPT !.requested = TRUE])

\* html_theme_manager_register_atlas
Register ==
    /\ theme.link = "none"
    /\ theme' = SendState([theme EXCEPT !.link = "up"])
    /\ states' = Sent(theme, theme')
    /\ UNCHANGED <<renderer, answers>>

\* What the user or a client does to the desktop.
DesktopChanges ==
    /\ theme.serial < MaxStates
    /\ \E look \in Looks \ {theme.look} :
         theme' = IF Linked THEN SendState([theme EXCEPT !.look = look]) ELSE [theme EXCEPT !.look = look]
    /\ states' = Sent(theme, theme')
    /\ UNCHANGED <<renderer, answers>>

Serve ==
    /\ Linked /\ answers # <<>>
    /\ LET m == Head(answers)
       IN  theme' = CASE m.type = "ack" -> AckState(theme, m)
                      [] m.type = "begin" -> BeginLayout(theme, m)
                      [] m.type = "tile" -> AddTile(theme)
                      [] m.type = "pixels" -> SubmitPixels(theme, m)
                      [] m.type = "commit" -> CommitLayout(theme, m)
    /\ answers' = Tail(answers)
    /\ UNCHANGED <<renderer, states>>

\* surface_commit: GTK paints the renderer's window when it likes.
SurfaceCommit ==
    /\ Linked /\ theme.repaints < MaxRepaints
    /\ \E look \in Looks :
         theme' = TryPublish([theme EXCEPT !.surface = look, !.fresh = TRUE, !.repaints = @ + 1])
    /\ UNCHANGED <<renderer, states, answers>>

-----------------------------------------------------------------------------
(***************************************************************************)
(* The renderer: operators on `renderer`, one action for each source of    *)
(* its main loop.                                                          *)
(***************************************************************************)
Alive == Linked /\ ~renderer.quit
Requests(messages) == answers' = answers \o messages

HasRenderState(r) == r.windows \/ (r.desktop /\ r.shell)

ScheduleRender(r) ==
    IF ~r.configured \/ ~HasRenderState(r) \/ r.laying \/ r.snapshot THEN r
    ELSE [r EXCEPT !.render = TRUE]

\* live_window_configure
WindowConfigured ==
    /\ Alive /\ ~renderer.configured
    /\ renderer' = ScheduleRender([renderer EXCEPT !.configured = TRUE])
    /\ UNCHANGED <<theme, states, answers>>

Hears(type) == Alive /\ states # <<>> /\ Head(states).type = type /\ states' = Tail(states)

\* atlas_configure, atlas_theme, atlas_shell_state
StateBegins ==
    /\ Hears("state")
    /\ renderer' = [renderer EXCEPT !.serial = Head(states).serial, !.look = Head(states).look,
                                    !.shell = TRUE, !.windows = FALSE, !.packed = FALSE,
                                    !.laying = FALSE, !.render = FALSE, !.publish = FALSE]
    /\ UNCHANGED <<theme, answers>>

\* atlas_clear_windows, atlas_window, atlas_state_done
StateDone ==
    /\ Hears("done")
    /\ LET r == [renderer EXCEPT !.windows = renderer.look \notin Bare, !.packed = TRUE]
       IN  renderer' = IF HasRenderState(r) THEN ScheduleRender(r) ELSE [r EXCEPT !.render = FALSE]
    /\ Requests(<<[type |-> "ack", serial |-> renderer.serial]>>)
    /\ UNCHANGED theme

\* build_live_atlas_document: a page with the frames of the state as it is now
DocumentOf(r) == r.look

\* begin_live_render_idle.  Before the windows are packed there is no size
\* to draw in, and the renderer gives up.
BeginRender ==
    /\ Alive /\ renderer.render
    /\ LET r == [renderer EXCEPT !.render = FALSE]
           g == r.gen + 1
       IN  CASE ~HasRenderState(r) -> renderer' = r /\ UNCHANGED answers
             [] HasRenderState(r) /\ ~r.packed ->
                  renderer' = [r EXCEPT !.quit = TRUE] /\ UNCHANGED answers
             [] OTHER ->
                  /\ renderer' = [r EXCEPT !.gen = g, !.drawing = r.serial, !.laying = TRUE,
                                           !.publish = FALSE, !.loading = DocumentOf(r)]
                  /\ Requests(<<[type |-> "begin", gen |-> g, look |-> r.look]>>)
    /\ UNCHANGED <<theme, states>>

\* load_changed with WEBKIT_LOAD_FINISHED
LoadFinished ==
    /\ Alive /\ renderer.loading # NoAtlas
    /\ renderer' = [renderer EXCEPT !.document = renderer.loading, !.loading = NoAtlas,
                                    !.snapshot = @ \/ renderer.laying]
    /\ UNCHANGED <<theme, states, answers>>

Layout(r) == <<[type |-> "tile"], [type |-> "commit", gen |-> r.gen]>>

\* live_snapshot_finished: the picture of an older state is thrown away.
\* The layout follows at once if the window has its size, or later.
SnapshotFinished ==
    /\ Alive /\ renderer.snapshot
    /\ LET r == [renderer EXCEPT !.snapshot = FALSE]
           pixels == <<[type |-> "pixels", gen |-> r.gen, look |-> r.look, drawn |-> r.document]>>
       IN  IF r.drawing # r.serial
           THEN renderer' = ScheduleRender([r EXCEPT !.laying = FALSE]) /\ UNCHANGED answers
           ELSE \/ renderer' = [r EXCEPT !.publish = TRUE] /\ Requests(pixels)
                \/ renderer' = [r EXCEPT !.laying = FALSE, !.publish = FALSE]
                   /\ Requests(pixels \o Layout(r))
    /\ UNCHANGED <<theme, states>>

\* publish_live_layout from its timer; after 40 attempts it gives up.
PublishLayout ==
    /\ Alive /\ renderer.publish
    /\ IF ~renderer.laying
       THEN renderer' = [renderer EXCEPT !.publish = FALSE] /\ UNCHANGED answers
       ELSE \/ renderer' = [renderer EXCEPT !.laying = FALSE, !.publish = FALSE]
               /\ Requests(Layout(renderer))
            \/ renderer' = [renderer EXCEPT !.publish = FALSE, !.quit = TRUE] /\ UNCHANGED answers
    /\ UNCHANGED <<theme, states>>

\* html_theme_atlas_resource_destroyed, after the renderer gave up or died;
\* it is not started again.
RendererGone ==
    /\ Linked
    /\ theme' = Unlinked(theme, "gone")
    /\ renderer' = [renderer EXCEPT !.quit = TRUE]
    /\ states' = <<>> /\ answers' = <<>>

AtlasNext ==
    \/ Register \/ DesktopChanges \/ Serve \/ SurfaceCommit
    \/ WindowConfigured \/ StateBegins \/ StateDone \/ BeginRender \/ LoadFinished
    \/ SnapshotFinished \/ PublishLayout \/ RendererGone

AtlasSpec == AtlasInit /\ [][AtlasNext]_atlasVars

(***************************************************************************)
(* Properties.                                                             *)
(***************************************************************************)
\* The frames on the screen are cut from the picture their layout is of.
AtlasIsWhole ==
    theme.shown # NoAtlas =>
        /\ theme.picture # NoAtlas
        /\ theme.picture.gen = theme.shown.gen
        /\ theme.picture.drawn = theme.shown.look

\* Nothing is on its way and the renderer waits for the next state.
AtlasIsQuiet ==
    /\ Alive /\ renderer.configured /\ states = <<>> /\ answers = <<>>
    /\ ~renderer.render /\ renderer.loading = NoAtlas /\ ~renderer.snapshot /\ ~renderer.publish

\* Whatever the desktop does meanwhile, the renderer is never disconnected
\* for a request it made in good faith, layout and picture belong together,
\* and when all is quiet the frames are those of the desktop as it is.
FramesFollowDesktop ==
    /\ theme.link # "refused"
    /\ AtlasIsWhole
    /\ AtlasIsQuiet /\ HasRenderState(renderer) =>
         theme.shown # NoAtlas /\ theme.shown.look = theme.look
=============================================================================
