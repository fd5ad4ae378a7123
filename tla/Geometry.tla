------------------------------ MODULE Geometry ------------------------------
(***************************************************************************)
(* Where the picture goes: the sizes a core asks for when it starts and    *)
(* while it runs, the surface or context they are drawn in, and the        *)
(* rectangle of the panel a frame is scaled to (video.cpp, aspect_viewport *)
(* .h, core_option_resolution.h, video-helper.cpp).  A ratio is a pair of  *)
(* a numerator and a denominator, where the code has floats.               *)
(***************************************************************************)
EXTENDS Integers

CONSTANTS Setups,     \* devices with the cores that are tried on them
          Panels,     \* device: its panel as <<width, height>>
          Windows,    \* sizes the window of the desktop platform may have
          Asked,      \* core: the geometries it asks for
          Chosen,     \* aspect ratios a player may choose
          MaxReshapes \* bound: requests of the core and the player

Sizes == Nat \X Nat

ASSUME GeometryAssumption ==
  /\ Windows \subseteq Sizes
  /\ \A s \in Setups :
       /\ s.handset # "SDL" => Panels[s.handset] \in Sizes
       /\ Asked[s.core] \subseteq [base : Sizes, max : Sizes, ratio : Sizes]

VARIABLES
  handset, geoCore, hardware, \* hardware: isOpenGL
  screen,        \* rr_display_width_get, rr_display_height_get
  wide,          \* isWideScreen
  resolution, opt_aspect, tate, perfect, \* options and settings
  opening,       \* the opening of a decoration, or NoSize
  base, maxSize, \* base_width, base_height; max_width, max_height
  allocated,     \* the size of the surface or of the context, or NoSize
  aspect, game_aspect, \* aspect_ratio, game_aspect_ratio
  isGameVertical, view, \* view: x, y, w, h
  current,       \* currentWidth, currentHeight, or NoSize
  geoPc,         \* load, run, stopped
  frame,         \* history: the frame view was computed for: its size and
                 \* whether pixel perfect scaling was allowed; NoFrame when
                 \* something has changed since
  reshapes       \* bound

choiceVars == <<resolution, opt_aspect, tate, perfect>>
sizeVars == <<base, maxSize, allocated>>
viewVars == <<isGameVertical, view, current, frame>>
geoVars == <<handset, geoCore, hardware, screen, wide, choiceVars, opening,
             sizeVars, aspect, game_aspect, viewVars, geoPc, reshapes>>

NoSize == <<0, 0>>
NoRatio == <<0, 1>>
NoFrame == [size |-> NoSize, page |-> FALSE]

Lower(a, b) == a[1] * b[2] < b[1] * a[2]
Same(a, b) == a[1] * b[2] = b[1] * a[2]
Inverted(a) == <<a[2], a[1]>>
cmpf(a, b) ==  \* they differ by less than 0.005
  LET gap == a[1] * b[2] - b[1] * a[2]
  IN 200 * (IF gap < 0 THEN -gap ELSE gap) < a[2] * b[2]
Least(a, b) == IF a < b THEN a ELSE b
Times(n, a) == (n * a[1]) \div a[2]
Over(n, a) == (n * a[2]) \div a[1]
Rounded(n, a) == (2 * n * a[1] + a[2]) \div (2 * a[2])  \* lround(n * a)
ALIGN(n) == ((n + 31) \div 32) * 32
Fits(small, large) == small[1] <= large[1] /\ small[2] <= large[2]
Turned(size) == <<size[2], size[1]>>

sdl == handset = "SDL"
hasDeviceRotatedScreen == handset \in {"RG351V", "RG353", "RG503"}
isFlycast == geoCore = "flycast"
isTateNow(a) ==
  \/ tate \in {"enabled", "reversed"}
  \/ tate = "auto" /\ Lower(a, <<1, 1>>) /\ isFlycast

-----------------------------------------------------------------------------
(* Sizes.                                                                  *)

resolvedAspect(requested, told, size) ==
  IF requested[1] > 0 THEN requested
  ELSE IF told[1] > 0 THEN told
  ELSE IF size[1] > 0 /\ size[2] > 0 THEN size ELSE <<4, 3>>

\* The options of a core that say at which size it renders.
updateResolutionFromCoreOption(value) ==
  IF geoCore \in {"flycast", "n64"} /\ value \in {"320x240", "640x480"}
  THEN value ELSE resolution

applyConfiguredResolution(g) ==
  IF resolution = "320x240"
  THEN [g EXCEPT !.base = <<320, 240>>, !.max = <<320, 240>>]
  ELSE IF resolution = "640x480" /\ ~(isFlycast /\ handset = "RG552")
  THEN [g EXCEPT !.base = <<640, 480>>, !.max = <<640, 480>>]
  ELSE g

\* getFixedWidth and getFixedHeight.
Fixed(size) ==
  CASE isFlycast /\ resolution = "320x240" -> <<320, 240>>
    [] isFlycast /\ resolution = "640x480" /\ handset = "RG552" -> <<640, 480>>
    [] geoCore = "mgba" -> <<240, 160>>
    [] OTHER -> size

\* A software core draws in a surface, a hardware core in a context.
SurfaceFor(size) == <<ALIGN(size[1]), ALIGN(size[2])>>
Target(size) == IF hardware THEN Fixed(size) ELSE SurfaceFor(Fixed(size))

GeoInit ==
  /\ \E s \in Setups :
       handset = s.handset /\ geoCore = s.core /\ hardware = s.hardware
  /\ screen \in IF sdl THEN Windows ELSE {Panels[handset]}
  /\ resolution \in IF isFlycast THEN {"", "320x240", "640x480"} ELSE {""}
  /\ opt_aspect \in {NoRatio} \cup Chosen
  /\ tate \in {"disabled", "enabled", "auto"} /\ perfect \in BOOLEAN
  /\ opening \in {NoSize, <<screen[1] \div 2, screen[2] \div 2>>}
  /\ opening # NoSize => perfect  \* a decoration forces it
  /\ wide = FALSE /\ base = NoSize /\ maxSize = NoSize
  /\ allocated = NoSize /\ aspect = <<1, 1>> /\ game_aspect = <<1, 1>>
  /\ isGameVertical = FALSE /\ view = [x |-> 0, y |-> 0, w |-> 0, h |-> 0]
  /\ current = NoSize /\ frame = NoFrame /\ geoPc = "load" /\ reshapes = 0

\* display_width and display_height: what a player calls width and height.
Upright == IF sdl \/ handset = "RG503" THEN screen ELSE Turned(screen)

\* What PPSSPP may leave out, and what DuckStation gets instead.
Amended(g) ==
  CASE geoCore = "ppsspp" /\ g.base[2] = 0 ->
         [g EXCEPT !.base = <<480, 272>>, !.max = <<480, 272>>]
    [] geoCore = "duckstation" -> [g EXCEPT !.max = Turned(Upright)]
    [] OTHER -> g

\* A core gives its sizes when it starts, but for PPSSPP.
Given(g) == 0 \notin {g.base[1], g.base[2], g.max[1], g.max[2]}
video_configure ==
  /\ geoPc = "load"
  /\ \E asked \in {g \in Asked[geoCore] : Given(g) \/ geoCore = "ppsspp"} :
       LET amended == Amended(asked)
           g == applyConfiguredResolution(amended)
           own == resolvedAspect(NoRatio, amended.ratio, amended.base)
       IN /\ base' = g.base /\ maxSize' = g.max /\ game_aspect' = own
          /\ aspect' = IF opt_aspect # NoRatio THEN opt_aspect
                       ELSE IF geoCore = "dosbox" THEN <<4, 3>> ELSE own
          /\ \/ geoPc' = "run" /\ allocated' = Target(g.max)
             \/ geoPc' = "stopped" /\ UNCHANGED allocated  \* an exception
  /\ wide' = Lower(<<1, 1>>, Upright)
  /\ UNCHANGED <<handset, geoCore, hardware, screen, choiceVars, opening,
                 viewVars, reshapes>>

Reshapes ==
  /\ geoPc = "run" /\ reshapes < MaxReshapes /\ reshapes' = reshapes + 1
  /\ UNCHANGED <<handset, geoCore, hardware, wide, opening, current>>

\* The ratio of the core is in use unless the player chose one.
Resolved(g, size) ==
  /\ game_aspect' = resolvedAspect(NoRatio, g.ratio, size)
  /\ aspect' = IF opt_aspect = NoRatio THEN game_aspect' ELSE aspect

\* A surface is made anew when it becomes too small; a context cannot be.
\* Mutant: only its width is looked at.
WidthOnly(max) == max[1] > maxSize[1]
Exceeds(max) == ~Fits(max, maxSize)

\* video_reconfigure_geometry; when it fails the loop ends.
video_reconfigure_geometry ==
  /\ Reshapes /\ UNCHANGED <<screen, choiceVars, view, isGameVertical>>
  /\ \E asked \in Asked[geoCore] :
       LET g == applyConfiguredResolution(asked)
           Refused == geoPc' = "stopped"
                      /\ UNCHANGED <<base, maxSize, aspect, game_aspect,
                                     frame>>
       IN \/ /\ ~Given(asked) \/ (hardware /\ Exceeds(g.max))
             /\ Refused /\ UNCHANGED allocated
          \/ /\ Given(asked) /\ ~hardware /\ Exceeds(g.max)
             /\ Refused /\ allocated' = NoSize
          \/ /\ Given(asked) /\ ~(hardware /\ Exceeds(g.max))
             /\ allocated' = IF ~hardware /\ Exceeds(g.max)
                             THEN SurfaceFor(g.max) ELSE allocated
             /\ base' = g.base /\ maxSize' = g.max /\ Resolved(g, g.base)
             /\ frame' = NoFrame /\ UNCHANGED geoPc

\* What does not fit is left out.
video_reconfigure_base_geometry ==
  /\ Reshapes /\ UNCHANGED <<screen, choiceVars, view, isGameVertical>>
  /\ UNCHANGED <<maxSize, allocated, geoPc>>
  /\ \E g \in Asked[geoCore] :
       IF 0 \in {g.base[1], g.base[2]} \/ ~Fits(g.base, maxSize)
       THEN UNCHANGED <<base, aspect, game_aspect, frame>>
       ELSE LET own == resolvedAspect(NoRatio, g.ratio, g.base)
            IN IF base = g.base /\ Same(own, game_aspect)
               THEN UNCHANGED <<base, aspect, game_aspect, frame>>
               ELSE base' = g.base /\ Resolved(g, g.base) /\ frame' = NoFrame

-----------------------------------------------------------------------------
(* prepareScreen.                                                          *)

Rect(x, y, size) == [x |-> x, y |-> y, w |-> size[1], h |-> size[2]]
Whole == Rect(0, 0, screen)
\* Both (screen - size) / 2 and screen / 2 - size / 2 are in the code.
Middle(size) ==
  LET At(i) == IF size[i] > screen[i] THEN -((size[i] - screen[i]) \div 2)
               ELSE (screen[i] - size[i]) \div 2
  IN Rect(At(1), At(2), size)
Halves(size) ==
  Rect(screen[1] \div 2 - size[1] \div 2, screen[2] \div 2 - size[2] \div 2,
       size)

\* Pixel perfect: the largest whole multiple, its axes exchanged on a panel
\* that is mounted on its side.
PixelPerfect(size) ==
  LET most == Least(screen[1] \div size[1], screen[2] \div size[2])
      scale == IF most < 1 THEN 1 ELSE most
      scaled == <<size[1] * scale, size[2] * scale>>
  IN Middle(IF ~sdl /\ wide /\ handset # "RG503" THEN Turned(scaled)
            ELSE scaled)

DuckStationView ==
  LET w == Upright[2] h == (w * 4) \div 3
  IN IF wide THEN Rect(0, (Upright[1] - h) \div 2, <<w, h>>)
     ELSE Rect(0, 0, Turned(Upright))

\* rr::fitAspect, and the same for a window, which does not clamp.
fitAspect(a) ==
  Middle(IF Lower(a, screen) THEN <<Rounded(screen[2], a), screen[2]>>
         ELSE <<screen[1], Rounded(screen[1], Inverted(a))>>)

\* Fitted to one side of the panel and cut at the other.
AtWidth(h) == Halves(<<screen[1], Least(h, screen[2])>>)
AtHeight(w) == Halves(<<Least(w, screen[1]), screen[2]>>)

\* A game that is wider than high, on a panel mounted on its side.
Landscape(a) ==
  IF cmpf(a, Turned(screen)) THEN Whole
  ELSE IF Lower(a, Turned(screen)) THEN AtWidth(Times(screen[1], a))
  ELSE AtHeight(IF handset = "RG503" THEN Times(screen[2], a)
                ELSE Over(screen[2], a))

\* Such a game where the panel is upright.  The ratio of a window is its width
\* over its height, that of a panel the inverse, and both are inverted here.
LandscapeUpright(a) ==
  LET own == IF sdl THEN Turned(screen) ELSE screen
  IN IF cmpf(a, own) THEN Whole
     ELSE IF Lower(a, own) THEN AtHeight(Over(screen[2], a))
     ELSE AtWidth(Over(screen[1], a))

\* A game that is higher than wide.  With the very ratio of the panel, x, y, w
\* and h stay as they are.
Portrait(a) ==
  IF Lower(a, Turned(screen)) THEN AtWidth(Over(screen[1], a))
  ELSE IF Lower(Turned(screen), a) THEN AtHeight(Over(screen[2], a))
  ELSE view

\* getRotation, in degrees: how the presenter turns the frame.
getRotation ==
  LET still == CASE sdl -> 0
                 [] ~sdl /\ isGameVertical ->
                      IF hasDeviceRotatedScreen THEN 270 ELSE 180
                 [] ~sdl /\ ~isGameVertical ->
                      IF hasDeviceRotatedScreen THEN 0 ELSE 270
      turn == IF ~isTateNow(aspect) THEN 0
              ELSE IF tate = "reversed" THEN IF sdl THEN 270 ELSE 90
              ELSE IF sdl THEN 90 ELSE 270
  IN (still + turn) % 360

duck == geoCore = "duckstation" /\ handset # "RG503"
upended == Lower(game_aspect, <<1, 1>>)

\* For a frame of this size, scaled pixel by pixel or to the ratio a.
prepareScreen(size, pixels, a) ==
  CASE duck -> DuckStationView
    [] ~duck /\ pixels -> PixelPerfect(size)
    [] ~duck /\ ~pixels /\ ~isTateNow(a) /\ sdl -> fitAspect(a)
    [] ~duck /\ ~pixels /\ ~isTateNow(a) /\ ~sdl /\ upended -> Portrait(a)
    [] ~duck /\ ~pixels /\ ~isTateNow(a) /\ ~sdl /\ ~upended ->
         IF hasDeviceRotatedScreen THEN fitAspect(a)
         ELSE IF wide THEN Landscape(a) ELSE LandscapeUpright(a)
    [] ~duck /\ ~pixels /\ isTateNow(a) ->
         IF upended \/ wide THEN Whole ELSE LandscapeUpright(a)

\* The branches that return before they look at the game's orientation.
Early(pixels, a) == duck \/ pixels \/ (sdl /\ ~isTateNow(a))
Oriented(pixels, a) ==
  isGameVertical' = IF Early(pixels, a) THEN isGameVertical ELSE upended

\* decoration_game_viewport: the rectangle's own ratio, within the opening.
InOpening(r) ==
  LET hole == Middle(opening)
      size == IF Lower(opening, <<r.w, r.h>>)
              THEN <<hole.w, Rounded(hole.w, <<r.h, r.w>>)>>
              ELSE <<Rounded(hole.h, <<r.w, r.h>>), hole.h>>
  IN Rect(hole.x + (hole.w - size[1]) \div 2,
          hole.y + (hole.h - size[2]) \div 2, size)

\* A frame, or with "page" a menu or another page of the frontend.
core_video_refresh ==
  /\ geoPc = "run"
  /\ \E size \in {base, maxSize}, page \in BOOLEAN :
       LET pixels == perfect /\ ~page
           r == prepareScreen(size, pixels, aspect)
       IN /\ view' = IF page \/ opening = NoSize \/ r.w = 0 THEN r
                     ELSE InOpening(r)
          /\ current' = size /\ frame' = [size |-> size, page |-> page]
          /\ Oriented(pixels, aspect)
  /\ UNCHANGED <<handset, geoCore, hardware, screen, wide, choiceVars, opening,
                 sizeVars, aspect, game_aspect, geoPc, reshapes>>

-----------------------------------------------------------------------------
(* What the player and the core change besides.                            *)

\* The menu opens once a frame has been shown.
Choice ==
  /\ Reshapes /\ current # NoSize
  /\ UNCHANGED <<geoPc, sizeVars, game_aspect>>

\* Two settings place the last frame anew, but not in the decoration.
Replaced(pixels, a) ==
  /\ view' = prepareScreen(current, pixels, a) /\ Oriented(pixels, a)
  /\ frame' = IF opening = NoSize THEN [size |-> current, page |-> FALSE]
              ELSE NoFrame
Unplaced == frame' = NoFrame /\ UNCHANGED <<view, isGameVertical>>

setAspectRatioSettings ==
  /\ Choice
  /\ \E a \in {NoRatio} \cup Chosen :
       /\ opt_aspect' = a
       /\ aspect' = IF a = NoRatio THEN game_aspect ELSE a
       /\ Replaced(perfect, aspect')
  /\ UNCHANGED <<screen, resolution, tate, perfect>>

setTateMode ==
  /\ Choice /\ Unplaced
  /\ tate' \in {"disabled", "enabled", "reversed", "auto"}
  /\ UNCHANGED <<screen, resolution, opt_aspect, perfect, aspect>>

setPixelPerfect ==
  /\ Choice /\ opening = NoSize /\ perfect' = ~perfect
  /\ Replaced(~perfect, aspect)
  /\ UNCHANGED <<screen, resolution, opt_aspect, tate, aspect>>

OptionChanges ==
  /\ Reshapes /\ Unplaced
  /\ \E v \in {"320x240", "640x480"} :
       resolution' = updateResolutionFromCoreOption(v)
  /\ UNCHANGED <<geoPc, sizeVars, game_aspect, screen, opt_aspect, tate,
                 perfect, aspect>>

WindowResized ==
  /\ sdl /\ opening = NoSize /\ Reshapes /\ Unplaced /\ screen' \in Windows
  /\ UNCHANGED <<geoPc, sizeVars, game_aspect, choiceVars, aspect>>

GeoNext ==
  \/ video_configure
  \/ video_reconfigure_geometry \/ video_reconfigure_base_geometry
  \/ core_video_refresh
  \/ setAspectRatioSettings \/ setTateMode \/ setPixelPerfect
  \/ OptionChanges \/ WindowResized
GeoSpec == GeoInit /\ [][GeoNext]_geoVars

-----------------------------------------------------------------------------
(* Properties.                                                             *)

\* Every frame a software core may send since its last request fits in the
\* surface it is copied to, whatever the order of its requests.
SurfaceHolds ==
  geoPc = "run" /\ ~hardware => Fits(maxSize, allocated)

\* The ratio in use is the player's, else the core's own.  That of DOSBox,
\* which begins as 4:3, is not followed.
RatioFollows ==
  geoPc = "run" /\ geoCore # "dosbox"
    => aspect = IF opt_aspect # NoRatio THEN opt_aspect ELSE game_aspect

Pixelwise == perfect /\ ~frame.page
Shown == geoPc = "run" /\ frame # NoFrame
\* Left out: a frame that is larger than the panel and shown pixel by pixel,
\* and a tall game with the panel's own ratio.
Overlarge ==
  /\ Pixelwise /\ opening = NoSize
  /\ LET r == PixelPerfect(frame.size)
     IN r.w > screen[1] \/ r.h > screen[2]
StaysStale ==
  upended /\ ~sdl /\ ~isTateNow(aspect) /\ Same(aspect, Turned(screen))
PictureInside ==
  Shown /\ ~Overlarge /\ ~StaysStale
    => /\ view.x >= 0 /\ view.y >= 0 /\ view.w > 0 /\ view.h > 0
       /\ view.x + view.w <= screen[1] /\ view.y + view.h <= screen[2]

\* A game is as large as its ratio allows and has this ratio, to within the
\* rounding, along the axes of its own frames.  Left out: pages, turned games,
\* decorations and pixel perfect scaling, a ratio so near to the panel's that
\* the panel is filled, and tall games whose ratio is below the panel's, or,
\* on a panel mounted on its side, above: one side is cut and the other not
\* made to follow.
OwnAxes(size) == IF getRotation \in {90, 270} THEN Turned(size) ELSE size
Seen == OwnAxes(<<view.w, view.h>>)
SeenScreen == OwnAxes(screen)
Squeezed ==
  upended /\ ~sdl /\ (\/ Lower(aspect, SeenScreen)
                      \/ /\ ~hasDeviceRotatedScreen
                         /\ Lower(Turned(screen), aspect))
Plain ==
  ~duck /\ ~isTateNow(aspect) /\ ~Pixelwise /\ ~cmpf(aspect, SeenScreen)
RatioSeen ==
  Shown /\ Plain /\ ~Squeezed
    => IF Lower(aspect, SeenScreen)
       THEN /\ Seen[2] = SeenScreen[2]
            /\ Seen[1] \in {Times(Seen[2], aspect), Rounded(Seen[2], aspect)}
       ELSE /\ Seen[1] = SeenScreen[1]
            /\ Seen[2] \in {Over(Seen[1], aspect),
                            Rounded(Seen[1], Inverted(aspect))}

PictureTrue == SurfaceHolds /\ RatioFollows /\ PictureInside /\ RatioSeen
=============================================================================
