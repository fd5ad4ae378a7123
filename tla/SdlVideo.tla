------------------------------ MODULE SdlVideo ------------------------------
(***************************************************************************)
(* The picture on the SDL2 platform (platform/platform_sdl.cpp): surfaces  *)
(* in memory, the textures that stand for them on the other side, and the  *)
(* two ways a frame is shown: by an SDL renderer, for cores that draw by   *)
(* themselves, and in the OpenGL context that the core draws in, too.      *)
(*                                                                         *)
(* A surface is known by its address, which malloc gives to another when   *)
(* it is deleted, and by a generation, which its contents take from one    *)
(* counter.  The renderer keeps a texture for each address; the context    *)
(* has one texture for all the overlays.  All of it runs on one thread.    *)
(*                                                                         *)
(* Contents, sizes and formats are from small sets; where a picture goes   *)
(* is Geometry's; depth, culling and the masks of OpenGL are left out.     *)
(***************************************************************************)
EXTENDS Naturals, Sequences, FiniteSets

CONSTANTS
  Addresses,     \* where malloc puts surfaces, which is nowhere at 0
  Contents,      \* what is drawn in them
  Unpainted,         \* the contents of a new one
  MaxGeneration, \* bound: surfaces made, mapped or read back
  DisplaySizes   \* of the window

ASSUME SdlVideoAssumption ==
  /\ 0 \notin Addresses
  /\ MaxGeneration \in Nat /\ Unpainted \in Contents

\* What a surface is for.  A decoration is two, which are made together.
SdlSlots == {"base", "background", "decoration", "full", "corner"}

VARIABLES
  heap,       \* address: the surface there, or NoSurface
  slotOf,     \* slot: the address of its surface, or None
  next_surface_generation,
  shownBy,     \* what the window belongs to: presenter, context, none, ended
  textures,   \* presenter: address: its texture, or NoTexture
  context,    \* context: see NewContext
  video_filter, video_shader,
  vsync_enabled, vsync_applied,
  interval,   \* whether the device waits for the display
  windowSize, displaySize,  \* of the window; of rr_display_t
  logical     \* the renderer's logical size

surfaceVars == <<heap, slotOf, next_surface_generation>>
cacheVars == <<textures, context>>
sdlFilterVars == <<video_filter, video_shader>>
vsyncVars == <<vsync_enabled, vsync_applied, interval>>
sdlWindowVars == <<windowSize, displaySize, logical>>
sdlVideoVars == <<surfaceVars, shownBy, cacheVars, sdlFilterVars, vsyncVars,
                  sdlWindowVars>>

NoSurface == [generation |-> 0]
NoTexture == [made |-> FALSE]
NoAddress == 0
NoContext == [made |-> FALSE]

\* The size and the format each may have; a page and the game's picture grow.
ShapeFor(slot) ==
  CASE slot \in {"base", "full"} -> {1, 2} \X {"RGB565"}
    [] slot = "background" -> { <<1, "RGB888">> }
    [] slot \in {"decoration", "corner"} -> { <<1, "RGBA8888">> }

\* Every name of OpenGL's state that the code reads or writes.  unit0 and unit1
\* are the textures bound to two units, of which one is active.
OfCore(active) ==
  [draw |-> "core", read |-> "core", program |-> "core", vao |-> "core",
   array |-> "core", active |-> active, unit0 |-> "core", unit1 |-> "core",
   viewport |-> "core", unpack |-> "core", blend |-> "core",
   scissor |-> "core"]
Names == DOMAIN OfCore("unit0")

SdlVideoInit ==
  /\ heap = [a \in Addresses |-> NoSurface]
  /\ slotOf = [s \in SdlSlots |-> NoAddress]
  /\ next_surface_generation = 1
  /\ shownBy = "none" /\ textures = [a \in Addresses |-> NoTexture]
  /\ context = NoContext
  /\ video_filter = "linear" /\ video_shader = "off"
  /\ vsync_enabled \in BOOLEAN /\ vsync_applied = FALSE /\ interval = FALSE
  /\ windowSize \in DisplaySizes /\ displaySize = windowSize
  /\ logical = displaySize

SlotMade(s) == slotOf[s] # NoAddress
SurfaceIn(s) == heap[slotOf[s]]
Pair == {"decoration", "background"}
Budget(n) == next_surface_generation + n <= MaxGeneration

-----------------------------------------------------------------------------
(* Surfaces.                                                               *)

\* rr_surface_create, where malloc puts it, and rr_surface_destroy, which
\* leaves the textures of that address.
Created(h, a, slot, shape, g) ==
  /\ heap' = [h EXCEPT ![a] = [generation |-> g, shape |-> shape,
                               contents |-> Unpainted]]
  /\ slotOf' = [slotOf EXCEPT ![slot] = a]
Free(h) == {a \in Addresses : h[a] = NoSurface}
Destroyed(slots) ==
  [a \in Addresses |->
     IF \E s \in slots : slotOf[s] = a THEN NoSurface ELSE heap[a]]
DeviceOpen == shownBy \in {"presenter", "context"}

\* A surface takes the place of the one that was there, which goes first, when
\* there is none or it has another size.
ReplaceSurface ==
  /\ DeviceOpen /\ Budget(1)
  /\ \E slot \in {"base", "full", "corner"} :
       /\ shownBy = "context" => slot # "base"
       /\ LET freed == Destroyed({slot})
          IN \E shape \in ShapeFor(slot), a \in Free(freed) :
               /\ SlotMade(slot) => SurfaceIn(slot).shape # shape
               /\ Created(freed, a, slot, shape, next_surface_generation)
  /\ next_surface_generation' = next_surface_generation + 1
  /\ UNCHANGED <<shownBy, cacheVars, sdlFilterVars, vsyncVars, sdlWindowVars>>

\* decoration.cpp: the new pair is made and drawn before the old one goes.
ReplaceDecoration ==
  /\ DeviceOpen /\ Budget(4)
  /\ \E c \in Contents \ {Unpainted}, a, b \in Free(heap) :
       /\ a # b
       /\ LET g == next_surface_generation
              Drawn(slot, n) == [generation |-> n, contents |-> c,
                                 shape |-> CHOOSE s \in ShapeFor(slot) : TRUE]
          IN heap' = [Destroyed(Pair) EXCEPT
                        ![a] = Drawn("decoration", g + 2),
                        ![b] = Drawn("background", g + 3)]
       /\ slotOf' = [slotOf EXCEPT !["decoration"] = a, !["background"] = b]
  /\ next_surface_generation' = next_surface_generation + 4
  /\ UNCHANGED <<shownBy, cacheVars, sdlFilterVars, vsyncVars, sdlWindowVars>>
RemoveDecoration ==
  /\ DeviceOpen /\ SlotMade("decoration") /\ heap' = Destroyed(Pair)
  /\ slotOf' = [s \in SdlSlots |-> IF s \in Pair THEN NoAddress ELSE slotOf[s]]
  /\ UNCHANGED <<next_surface_generation, shownBy, cacheVars, sdlFilterVars,
                 vsyncVars, sdlWindowVars>>

\* rr_surface_map, and what is drawn then; the loading screen, a page, a
\* message and a frame each are.  Mutant: the generation of a map is forgotten.
MappedQuietly(surface) == surface
Mapped(surface) ==
  [surface EXCEPT !.generation = next_surface_generation]
DrawIn(slot) ==
  /\ DeviceOpen /\ slot \notin Pair /\ SlotMade(slot) /\ Budget(1)
  /\ \E c \in Contents \ {SurfaceIn(slot).contents} :
       heap' = [heap EXCEPT ![slotOf[slot]] =
                  [Mapped(SurfaceIn(slot)) EXCEPT !.contents = c]]
  /\ next_surface_generation' = next_surface_generation + 1
  /\ UNCHANGED <<slotOf, shownBy, cacheVars, sdlFilterVars, vsyncVars,
                 sdlWindowVars>>

-----------------------------------------------------------------------------
(* The renderer.                                                           *)

Blending(shape) == IF shape[2] = "RGBA8888" THEN "blend" ELSE "none"
Opaque == "opaque"

\* A present is drawn step by step: of it, the textures so far, and what was
\* drawn.  what: the slot; current: whether what is seen is its contents.
Shows(slot, contents, mode) ==
  [what |-> slot, current |-> contents = SurfaceIn(slot).contents,
   mode |-> mode]

\* render_surface.  Making a texture, or writing to it, may fail.
EntryFor(ts, a) ==
  IF ts[a].made /\ ts[a].shape = heap[a].shape THEN ts[a]
  ELSE [made |-> TRUE, shape |-> heap[a].shape, generation |-> 0,
        contents |-> Unpainted, blend |-> Blending(heap[a].shape)]
Uploaded(entry, surface) ==
  [entry EXCEPT !.generation = surface.generation,
                !.contents = IF entry.generation # surface.generation
                             THEN surface.contents ELSE @]
TextureLeft(step, a, texture) == [step EXCEPT !.textures[a] = texture]
Rendered(step, slot, entry, opacity) ==
  LET a == slotOf[slot]
      uploaded == Uploaded(entry, heap[a])
      mode == <<opacity, IF opacity = Opaque THEN uploaded.blend ELSE "blend">>
  IN [textures |->
        [step.textures EXCEPT ![a] =
           [uploaded EXCEPT !.blend = Blending(entry.shape)]],
      seen |-> Append(step.seen, Shows(slot, uploaded.contents, mode))]
render_surface(step, slot, opacity, fails) ==
  LET a == slotOf[slot]
      entry == EntryFor(step.textures, a)
  IN IF ~SlotMade(slot) THEN step
     ELSE IF fails = <<slot, "texture">> /\ entry # step.textures[a]
     THEN TextureLeft(step, a, NoTexture)
     ELSE IF fails = <<slot, "upload">>
               /\ entry.generation # heap[a].generation
     THEN TextureLeft(step, a, entry)
     ELSE Rendered(step, slot, entry, opacity)

Failures == {<<"none", "none">>} \cup (SdlSlots \X {"texture", "upload"})
Opacities == {Opaque, "half"}

\* rr_presenter_post: the base alone.
rr_presenter_post(step, fails) == render_surface(step, "base", Opaque, fails)

\* rr_presenter_post_multiple: the decoration under the game and, if it is
\* transparent, again over it; then the page and the corners that are visible.
post_multiple(step, visible, opacity, fails) ==
  LET Drawn(st, slot, o) ==
        IF slot \in visible THEN render_surface(st, slot, o, fails) ELSE st
      behind == IF "decoration" \in visible
                THEN render_surface(step, "background", Opaque, fails)
                ELSE step
      base == render_surface(behind, "base", Opaque, fails)
      above == IF "decoration" \in visible
                    /\ SurfaceIn("decoration").shape[2] = "RGBA8888"
               THEN render_surface(base, "decoration", Opaque, fails)
               ELSE base
  IN Drawn(Drawn(above, "full", opacity), "corner", Opaque)

\* What a present may show: the base alone, or with what is visible.
Visible == {v \in SUBSET {"decoration", "full", "corner"} :
              \A s \in v : SlotMade(s)}
NothingYet == [textures |-> textures, seen |-> << >>]
Presents ==
  {rr_presenter_post(NothingYet, fails) : fails \in Failures} \cup
  {post_multiple(NothingYet, visible, o, fails) :
     visible \in Visible, o \in Opacities, fails \in Failures}
Present ==
  /\ shownBy = "presenter" /\ SlotMade("base")
  /\ \E step \in Presents : textures' = step.textures
  /\ UNCHANGED <<surfaceVars, shownBy, context, sdlFilterVars, vsyncVars,
                 sdlWindowVars>>

-----------------------------------------------------------------------------
(* The context.                                                            *)

NewContext(fbo, works) ==
  [made |-> TRUE, fbo |-> fbo,
   works |-> works,         \* whether the shaders can be compiled
   program |-> FALSE, failed |-> FALSE,
   overlay |-> [surface |-> NoAddress],
   filter |-> "linear",     \* of the texture of the core's frame
   post_texture_filter |-> "unknown"]

Bind(g, texture) == [g EXCEPT ![g.active] = texture]

\* The names that were saved are restored, and before them the texture of the
\* first unit, which is active.  Mutant: the core's unit is made active first.
RestoredNames(before, bound, names) ==
  LET Of(n) == IF n \in names THEN before[n] ELSE bound[n]
  IN [draw |-> Of("draw"), read |-> Of("read"), program |-> Of("program"),
      vao |-> Of("vao"), array |-> Of("array"), active |-> Of("active"),
      unit0 |-> Of("unit0"), unit1 |-> Of("unit1"),
      viewport |-> Of("viewport"), unpack |-> Of("unpack"),
      blend |-> Of("blend"), scissor |-> Of("scissor")]
RestoredActiveFirst(before, during, names) ==
  RestoredNames(before, Bind([during EXCEPT !.active = before.active],
                             before.unit0), names)
GlRestored(before, during, names) ==
  RestoredNames(before, Bind(during, before.unit0), names)

\* A swap is drawn step by step, too: OpenGL, the context, what was drawn.
SwapStep(gl, ctx, seen) == [gl |-> gl, context |-> ctx, seen |-> seen]
WithGl(step, gl) == SwapStep(gl, step.context, step.seen)
Bound(step, name, value) == WithGl(step, [step.gl EXCEPT ![name] = value])

\* ensure_post_pipeline, which leaves its buffer bound.
ensure_post_pipeline(step) ==
  IF step.context.program THEN step
  ELSE IF step.context.failed \/ ~step.context.works
  THEN SwapStep(step.gl, [step.context EXCEPT !.failed = TRUE], step.seen)
  ELSE SwapStep([step.gl EXCEPT !.vao = "none", !.array = "ours"],
            [step.context EXCEPT !.program = TRUE], step.seen)

\* Mutant: what was uploaded is known by its surface alone.
UploadedIsSurface(overlay, slot) == overlay.surface = slotOf[slot]
UploadedIs(overlay, slot) ==
  /\ overlay.surface = slotOf[slot]
  /\ overlay.generation = SurfaceIn(slot).generation
  /\ overlay.shape = SurfaceIn(slot).shape
OverlayOf(overlay, slot) ==
  IF UploadedIs(overlay, slot) THEN overlay
  ELSE [surface |-> slotOf[slot], generation |-> SurfaceIn(slot).generation,
        shape |-> SurfaceIn(slot).shape, contents |-> SurfaceIn(slot).contents]

\* blit_overlay.  Without the shaders an overlay is not drawn.
OverlayNames ==
  {"draw", "program", "vao", "array", "unpack", "blend", "active", "viewport"}
blit_overlay(start, slot, opacity) ==
  LET step == ensure_post_pipeline(Bound(start, "active", "unit0"))
      overlay == OverlayOf(step.context.overlay, slot)
      during == [Bind(step.gl, "ours") EXCEPT
                   !.draw = "window", !.program = "ours", !.vao = "ours",
                   !.viewport = "ours", !.blend = "ours",
                   !.unpack = IF overlay = step.context.overlay THEN @
                              ELSE "ours"]
      mode == IF opacity = Opaque THEN Blending(SurfaceIn(slot).shape)
              ELSE "blend"
  IN IF ~step.context.program
     THEN Bound(step, "active", start.gl.active)
     ELSE SwapStep(GlRestored(start.gl, during, OverlayNames),
               [step.context EXCEPT !.overlay = overlay],
               Append(step.seen,
                      Shows(slot, overlay.contents, <<opacity, mode>>)))

\* blit_decoration_damage, which restores the scissor it sets.
blit_decoration_damage(start) ==
  LET step == blit_overlay(Bound(start, "scissor", "ours"), "decoration",
                           Opaque)
  IN Bound(step, "scissor", start.gl.scissor)

draw_overlays(step, visible, opacity) ==
  LET Drawn(st, slot, o) ==
        IF slot \in visible THEN blit_overlay(st, slot, o) ELSE st
  IN Drawn(Drawn(step, "full", opacity), "corner", Opaque)

GameSeen(filter) ==
  [what |-> "game", current |-> filter = video_filter,
   mode |-> <<Opaque, "none">>]

\* draw_post_processed_frame, which draws nothing where there is nothing to do
\* to the frame, or no shader to do it.
NothingToDo(upright) == video_shader = "off" /\ upright
Processes(step, upright) ==
  ~NothingToDo(upright) /\ ensure_post_pipeline(step).context.program
draw_post_processed_frame(start, upright) ==
  LET step == IF NothingToDo(upright) THEN start
              ELSE ensure_post_pipeline(start)
      known == step.context.post_texture_filter = video_filter
      filter == IF known THEN step.context.filter ELSE video_filter
  IN IF ~Processes(start, upright) THEN step
     ELSE SwapStep([step.gl EXCEPT !.draw = "window", !.viewport = "ours",
                  !.program = "ours", !.active = "unit0", !.unit0 = "frame",
                  !.vao = "none"],
               [step.context EXCEPT !.filter = filter,
                  !.post_texture_filter = video_filter],
               Append(step.seen, GameSeen(filter)))

\* rr_context_swap_buffers, of the framebuffer the core has drawn in.
SwapNames == {"read", "draw", "program", "vao", "active", "viewport"}
SwappedFramebuffer(start, visible, opacity, upright) ==
  LET cleared == WithGl(start, [start.gl EXCEPT !.active = "unit0",
                                !.draw = "window", !.viewport = "ours"])
      decorated == "decoration" \in visible
      behind == IF decorated
                THEN blit_overlay(cleared, "decoration", Opaque)
                ELSE cleared
      drawn == draw_post_processed_frame(Bound(behind, "read", "frame"),
                                         upright)
      game == IF Processes(behind, upright) THEN drawn
              ELSE SwapStep(drawn.gl, drawn.context,
                        Append(drawn.seen, GameSeen(video_filter)))
      window == Bound(game, "draw", "window")
      above == IF decorated THEN blit_decoration_damage(window) ELSE window
      all == draw_overlays(above, visible, opacity)
  IN WithGl(all, GlRestored(start.gl, all.gl, SwapNames))

\* The same, for a core that has drawn in the window itself: its picture is
\* copied when it needs a shader or a decoration.  Nothing is restored.
SwappedDefault(start, visible, opacity, upright, fits) ==
  LET window == SwapStep([start.gl EXCEPT !.draw = "window",
                                          !.read = "window"],
                         start.context, <<GameSeen(video_filter)>>)
      decorated == "decoration" \in visible
      wanted == ~NothingToDo(upright) \/ decorated
      ready == IF wanted THEN ensure_post_pipeline(window) ELSE window
      copies == wanted /\ ready.context.program /\ fits
      copied == SwapStep([ready.gl EXCEPT !.active = "unit0",
                                          !.unit0 = "frame",
                                          !.viewport = "ours"],
                         ready.context, << >>)
      behind == IF decorated THEN blit_overlay(copied, "decoration", Opaque)
                ELSE copied
      game == draw_post_processed_frame(behind, upright)
      above == IF decorated THEN blit_decoration_damage(game) ELSE game
  IN draw_overlays(IF copies THEN above ELSE ready, visible, opacity)

\* A swap: what it is asked to show, and which unit the core left active; the
\* core leaves what it likes of OpenGL behind.
Swaps ==
  {s \in [visible : Visible, opacity : Opacities, upright : BOOLEAN,
          fits : BOOLEAN, active : {"unit0", "unit1"}] :
     /\ s.opacity = Opaque \/ "full" \in s.visible
     /\ s.fits \/ ~context.fbo}
Swapped(s) ==
  LET start == SwapStep(OfCore(s.active), context, << >>)
  IN IF context.fbo
     THEN SwappedFramebuffer(start, s.visible, s.opacity, s.upright)
     ELSE SwappedDefault(start, s.visible, s.opacity, s.upright, s.fits)
SwapBuffers ==
  /\ shownBy = "context"
  /\ \E s \in Swaps : context' = Swapped(s).context
  /\ UNCHANGED <<surfaceVars, shownBy, textures, sdlFilterVars, vsyncVars,
                 sdlWindowVars>>

\* rr_context_surface_lock for a screenshot, and its unlock: a surface that is
\* never shown, and a binding that is restored before the buffer of it.
SurfaceLock ==
  /\ shownBy = "context" /\ Budget(1)
  /\ next_surface_generation' = next_surface_generation + 1
  /\ UNCHANGED <<heap, slotOf, shownBy, cacheVars, sdlFilterVars, vsyncVars,
                 sdlWindowVars>>

-----------------------------------------------------------------------------
(* The window and its device.                                              *)

\* rr_presenter_create.  A renderer that waits for the display is asked for,
\* and a software one that does not when there is none.
rr_presenter_create ==
  /\ shownBy = "none" /\ shownBy' = "presenter"
  /\ \E waits, told \in BOOLEAN :
       /\ waits => vsync_enabled
       /\ interval' = waits
       /\ vsync_applied' = (told /\ (~vsync_enabled \/ waits))
  /\ logical' = displaySize
  /\ UNCHANGED <<surfaceVars, cacheVars, sdlFilterVars, vsync_enabled,
                 windowSize, displaySize>>

\* video_configure for a core that draws in OpenGL: the loading screen and its
\* presenter go, rr_context_create follows, or the process ends.
Refreshed(size) ==
  /\ displaySize' = size
  /\ logical' = IF shownBy = "presenter" THEN size ELSE logical
AllFreed ==
  /\ heap' = [a \in Addresses |-> NoSurface]
  /\ slotOf' = [s \in SdlSlots |-> NoAddress]
  /\ textures' = [a \in Addresses |-> NoTexture]
rr_context_create ==
  /\ shownBy \in {"none", "presenter"} /\ ~SlotMade("decoration")
  /\ AllFreed /\ Refreshed(windowSize)
  /\ \/ shownBy' = "ended" /\ UNCHANGED <<context, interval, vsync_applied>>
     \/ /\ shownBy' = "context"
        /\ \E fbo, works \in BOOLEAN : context' = NewContext(fbo, works)
        /\ vsync_applied' \in BOOLEAN
        /\ interval' = (vsync_applied' /\ vsync_enabled)
  /\ UNCHANGED <<next_surface_generation, sdlFilterVars, vsync_enabled,
                 windowSize>>

\* video_deinit.
SdlDeinit ==
  /\ DeviceOpen /\ shownBy' = "ended" /\ AllFreed
  /\ context' = NoContext
  /\ UNCHANGED <<next_surface_generation, sdlFilterVars, vsyncVars,
                 sdlWindowVars>>

\* rr_video_vsync_set, from the menu, an option or at the start; an SDL before
\* 2.0.18 cannot tell a renderer.
VsyncSet(enabled, ok) ==
  /\ vsync_enabled' = enabled /\ vsync_applied' = (DeviceOpen /\ ok)
  /\ interval' = IF DeviceOpen /\ ok THEN enabled ELSE interval
  /\ UNCHANGED <<surfaceVars, shownBy, cacheVars, sdlFilterVars,
                 sdlWindowVars>>
rr_video_vsync_set ==
  shownBy # "ended" /\ \E enabled, ok \in BOOLEAN : VsyncSet(enabled, ok)

\* The player, and the next time the frontend asks for a size.
ResizeWindow ==
  /\ windowSize' \in DisplaySizes \ {windowSize}
  /\ UNCHANGED <<surfaceVars, shownBy, cacheVars, sdlFilterVars, vsyncVars,
                 displaySize, logical>>
refresh_display_size ==
  /\ shownBy # "ended" /\ windowSize # displaySize /\ Refreshed(windowSize)
  /\ UNCHANGED <<surfaceVars, shownBy, cacheVars, sdlFilterVars, vsyncVars,
                 windowSize>>

\* rr_video_filter_set and rr_video_shader_set.
SetFilters ==
  /\ DeviceOpen
  /\ \/ video_filter' \in {"linear", "nearest"} /\ UNCHANGED video_shader
     \/ video_shader' \in {"off", "crt"} /\ UNCHANGED video_filter
  /\ UNCHANGED <<surfaceVars, shownBy, cacheVars, vsyncVars, sdlWindowVars>>

PictureSteps ==
  \/ ReplaceSurface \/ ReplaceDecoration \/ RemoveDecoration
  \/ \E slot \in SdlSlots : DrawIn(slot)
  \/ Present \/ SwapBuffers \/ SurfaceLock \/ SetFilters
DeviceSteps ==
  \/ rr_presenter_create \/ rr_context_create \/ SdlDeinit
WindowSteps ==
  rr_video_vsync_set \/ ResizeWindow \/ refresh_display_size
SdlVideoNext == PictureSteps \/ DeviceSteps \/ WindowSteps
SdlVideoSpec == SdlVideoInit /\ [][SdlVideoNext]_sdlVideoVars

-----------------------------------------------------------------------------
(* Properties.                                                             *)

\* Whatever was drawn, replaced, put at another's address or failed to be
\* uploaded before, what a frame shows of a surface is what is in it then,
\* opaque unless it is a page over a game, and blended as its format asks; and
\* what it shows of the game is filtered as was last asked.
SeenTrue(p) ==
  /\ p.current
  /\ p.mode[1] = Opaque \/ p.what = "full"
  /\ p.mode[2] = IF p.what \in {"decoration", "corner"} \/ p.mode[1] = "half"
                 THEN "blend" ELSE "none"
AllTrue(seen) == \A i \in DOMAIN seen : SeenTrue(seen[i])
PictureCurrent ==
  shownBy = "presenter" /\ SlotMade("base") =>
    \A step \in Presents : AllTrue(step.seen)

\* After a frame has been shown, what the swap saves of the core's OpenGL is as
\* the core left it: framebuffers, program, textures of both units, view and
\* blending, with or without decorations, pages and shaders that cannot be
\* compiled.  (The buffer of vertices is not: see the findings.)
CoreStateKept(s, gl) ==
  context.fbo => \A n \in Names \ {"array"} : gl[n] = OfCore(s.active)[n]

\* Every frame that is shown has the game in it, once.  (Not of a core that
\* draws in the window, with a decoration and no shader: see the findings.)
GameSeenOnce(s, seen) ==
  context.fbo \/ ~NothingToDo(s.upright) \/ "decoration" \notin s.visible =>
    Cardinality({i \in DOMAIN seen : seen[i].what = "game"}) = 1

\* The three of them, of whatever the context is asked to show next.
SwapsTrue ==
  shownBy = "context" =>
    \A s \in Swaps :
      LET swapped == Swapped(s)
      IN /\ AllTrue(swapped.seen)
         /\ CoreStateKept(s, swapped.gl)
         /\ GameSeenOnce(s, swapped.seen)

\* What the frontend says of vertical synchronization is so while there is a
\* device, and the renderer scales what is drawn for the display there is.
WindowTrue ==
  /\ DeviceOpen /\ vsync_applied => interval = vsync_enabled
  /\ shownBy = "presenter" => logical = displaySize

SdlPictureTrue == PictureCurrent /\ SwapsTrue /\ WindowTrue
=============================================================================
