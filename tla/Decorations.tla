---------------------------- MODULE Decorations ----------------------------
(***************************************************************************)
(* Screen decorations: the catalog from which a thread downloads packs     *)
(* while the menu selects and removes them (decoration_catalog.cpp), and   *)
(* the decoration that is loaded when a frame is composed and forces pixel *)
(* perfect scaling for as long as it is shown (decoration.cpp).            *)
(***************************************************************************)
EXTENDS Integers

CONSTANTS Packs,     \* packs
          MaxChoices \* bound: what the player does in the menu

ASSUME DecorationsAssumption == Packs # {} /\ MaxChoices \in Nat

VARIABLES
  installed,   \* the files of each pack: a subset of {"image", "info"}
  chosenPack, status, \* of the catalog; status_text
  fetchPc,     \* download_pack: "none" when there is no thread to join
  fetched,     \* the pack it was started with
  downloading, reloadPending, \* running, reload_pending
  enabled, attempted, loaded, \* enabled, load_attempted, cached_surface
  forced, pixelPerfect, pixelBefore, \* decoration_forced_pixel_perfect,
                                     \* pixel_perfect_before_decoration
  drawPc,      \* decoration_surface: "out", or "load" within load_png
  chosen,      \* history: pixel_perfect as the player set it
  crossed,     \* history: the menu changed something during a "load", which
               \* is possible when the video worker composes
  menuChanges  \* bound

fetchVars == <<fetchPc, fetched, downloading, reloadPending>>
catalogVars == <<installed, chosenPack, status>>
pixelVars == <<forced, pixelPerfect, pixelBefore>>
shownVars == <<enabled, attempted, loaded>>
decoVars == <<catalogVars, fetchVars, shownVars, pixelVars, drawPc, chosen,
              crossed, menuChanges>>

Complete(p) == installed[p] = {"image", "info"}
Status(p) == IF Complete(p) THEN "Installed" ELSE "Not installed"

\* decoration_catalog_init and decoration_init.
DecoInit ==
  /\ installed \in [Packs -> {{}, {"image", "info"}}]
  /\ chosenPack \in Packs /\ status = Status(chosenPack)
  /\ fetchPc = "none" /\ fetched = chosenPack /\ downloading = FALSE
  /\ reloadPending = FALSE
  /\ enabled \in BOOLEAN /\ attempted = FALSE /\ loaded = FALSE
  /\ forced = FALSE /\ pixelPerfect \in BOOLEAN
  /\ pixelBefore = FALSE /\ drawPc = "out" /\ chosen = pixelPerfect
  /\ crossed = FALSE /\ menuChanges = 0

-----------------------------------------------------------------------------
(* The decoration that is shown.                                           *)

\* restore_pixel_perfect.
Restored ==
  /\ forced' = FALSE /\ UNCHANGED pixelBefore
  /\ pixelPerfect' = IF forced THEN pixelBefore ELSE pixelPerfect

\* decoration_surface finds a decoration that is not loaded yet.
DrawBegin ==
  /\ drawPc = "out" /\ enabled /\ ~loaded /\ ~attempted
  /\ attempted' = TRUE /\ drawPc' = "load"
  /\ UNCHANGED <<catalogVars, fetchVars, enabled, loaded, pixelVars, chosen,
                 crossed, menuChanges>>

\* load_png, which forces pixel perfect scaling, and keeps in mind what it was
\* unless it is forced already.
DrawLoads ==
  /\ drawPc = "load" /\ drawPc' = "out" /\ loaded' = TRUE
  /\ forced' = TRUE /\ pixelPerfect' = TRUE
  /\ pixelBefore' = IF forced THEN pixelBefore ELSE pixelPerfect
  /\ UNCHANGED <<catalogVars, fetchVars, enabled, attempted, chosen, crossed,
                 menuChanges>>

\* No candidate can be loaded: not tried again until something changes.
DrawFails ==
  /\ drawPc = "load" /\ drawPc' = "out" /\ Restored
  /\ UNCHANGED <<catalogVars, fetchVars, shownVars, chosen, crossed,
                 menuChanges>>

\* decoration_reload.
Reloaded == attempted' = FALSE /\ loaded' = FALSE /\ Restored

\* decoration_set_enabled.
SwitchedOff == IF enabled THEN Restored ELSE UNCHANGED pixelVars

-----------------------------------------------------------------------------
(* download_pack, on its thread.                                           *)

Fetches == UNCHANGED <<chosenPack, fetched, shownVars, pixelVars, drawPc,
                       chosen, crossed, menuChanges>>

\* Downloaded, checked and described in temporary files, or given up.
FetchDone ==
  /\ fetchPc = "download"
  /\ \/ fetchPc' = "image" /\ UNCHANGED status
     \/ fetchPc' = "end" /\ status' = "Error"
  /\ UNCHANGED <<installed, downloading, reloadPending>> /\ Fetches

\* The two renames; of an install that fails between them the image stays.
FetchRename ==
  \E part \in {"image", "info"} :
    /\ fetchPc = part
    /\ \/ /\ installed' = [installed EXCEPT ![fetched] = @ \cup {part}]
          /\ fetchPc' = IF part = "image" THEN "info" ELSE "status"
          /\ UNCHANGED status
       \/ fetchPc' = "end" /\ status' = "Error" /\ UNCHANGED installed
    /\ UNCHANGED <<downloading, reloadPending>> /\ Fetches

FetchInstalled ==
  /\ fetchPc = "status" /\ fetchPc' = "reload" /\ status' = "Installed"
  /\ UNCHANGED <<installed, downloading, reloadPending>> /\ Fetches

FetchReload ==
  /\ fetchPc = "reload" /\ fetchPc' = "end" /\ reloadPending' = TRUE
  /\ UNCHANGED <<installed, status, downloading>> /\ Fetches

FetchEnd ==
  /\ fetchPc = "end" /\ fetchPc' = "done" /\ downloading' = FALSE
  /\ UNCHANGED <<installed, status, reloadPending>> /\ Fetches

-----------------------------------------------------------------------------
(* The menu and the main loop.                                             *)

Crossing == crossed' = (crossed \/ drawPc = "load")
Chooses == menuChanges < MaxChoices /\ menuChanges' = menuChanges + 1
           /\ Crossing /\ UNCHANGED drawPc

\* The catalog refuses while a download runs.  Mutant: it is asked too late.
NotRefused == FALSE
Refused == downloading

SelectPack ==
  /\ ~Refused /\ Chooses /\ Reloaded
  /\ \E p \in Packs : chosenPack' = p /\ status' = Status(p)
  /\ UNCHANGED <<installed, fetchVars, enabled, chosen>>

RemovePack ==
  /\ ~Refused /\ Chooses /\ Reloaded /\ status' = "Not installed"
  /\ \E left \in SUBSET installed[chosenPack] :  \* what cannot be removed
       installed' = [installed EXCEPT ![chosenPack] = left]
  /\ UNCHANGED <<chosenPack, fetchVars, enabled, chosen>>

\* decoration_catalog_install, which joins the thread of the last download.
InstallPack ==
  /\ ~Refused /\ Chooses /\ status' = "Connecting"
  /\ fetchPc' = "download" /\ fetched' = chosenPack /\ downloading' = TRUE
  /\ UNCHANGED <<installed, chosenPack, reloadPending, shownVars, pixelVars,
                 chosen>>

SetEnabled ==
  /\ Chooses /\ enabled' = ~enabled /\ attempted' = FALSE
  /\ loaded' = (loaded /\ ~enabled) /\ SwitchedOff
  /\ UNCHANGED <<catalogVars, fetchVars, chosen>>

\* setPixelPerfect refuses while decorations are enabled.
SetPixelPerfect ==
  /\ ~enabled /\ Chooses
  /\ pixelPerfect' = ~pixelPerfect /\ chosen' = pixelPerfect'
  /\ UNCHANGED <<catalogVars, fetchVars, shownVars, forced, pixelBefore>>

\* decoration_catalog_update, at the head of an iteration: a pack that was
\* installed is shown, also when decorations were off.
CatalogUpdate ==
  /\ reloadPending \/ fetchPc = "done"
  /\ reloadPending' = FALSE
  /\ IF reloadPending THEN enabled' = TRUE /\ Reloaded /\ Crossing
     ELSE UNCHANGED <<shownVars, pixelVars, crossed>>
  /\ fetchPc' = IF downloading \/ fetchPc # "done" THEN fetchPc ELSE "none"
  /\ UNCHANGED <<catalogVars, fetched, downloading, drawPc, chosen,
                 menuChanges>>

DecoNext ==
  \/ DrawBegin \/ DrawLoads \/ DrawFails
  \/ FetchDone \/ FetchRename \/ FetchInstalled \/ FetchReload \/ FetchEnd
  \/ SelectPack \/ RemovePack \/ InstallPack \/ SetEnabled \/ SetPixelPerfect
  \/ CatalogUpdate
DecoSpec == DecoInit /\ [][DecoNext]_decoVars

-----------------------------------------------------------------------------
(* Properties.                                                             *)

\* "Installed" is said of the pack the player looks at only if both of its
\* files are there, whatever was selected, removed and downloaded meanwhile.
StatusTrue == ~downloading /\ status = "Installed" => Complete(chosenPack)

\* menu_setup.cpp: "Keep the effective setting enabled until the decoration is
\* turned off, at which point decoration_set_enabled() restores the user's
\* previous preference."  Once no decoration forces it, scaling is as the
\* player set it; a decoration that is shown forces it.
PixelGivenBack ==
  ~crossed => /\ (~forced => pixelPerfect = chosen)
              /\ (loaded <=> forced) /\ (loaded => enabled)

DecorationsTrue == StatusTrue /\ PixelGivenBack
=============================================================================
