--------------------------- MODULE FrontendProofs ---------------------------
(***************************************************************************)
(* Components of the frontend that share nothing, proved for every value   *)
(* of their constants: geometry and timing updates, frame skipping, the    *)
(* decorations, the updates of the game catalog, the achievements with the *)
(* changes of the disc, the loop of main with its pauses and pages, the    *)
(* OpenAL provider after an underrun, and the profile a game starts with.  *)
(***************************************************************************)
EXTENDS AvUpdates, FramePacing, Decorations, CatalogUpdate, GameProfiles,
        Achievements, FrontendLoop, Go2Audio, FiniteSetTheorems,
        SequenceTheorems, TLAPS

-----------------------------------------------------------------------------
(* Geometry and timing updates.                                            *)

Info == [base : Nat, timing : Nat]

\* The types of PendingVideoUpdates and of what main has applied.
AvTypes ==
  /\ avPc \in {"load", "run", "geometry", "stopped"}
  /\ pending \in [hasAv : BOOLEAN, av : Info, hasGeometry : BOOLEAN,
                  geometry : Nat]
  /\ applied \in Info /\ latest \in Info /\ refused \in Nat /\ posts \in Nat

\* What is not in use yet is pending, in one of the two places, and what is
\* pending is what the core asked for last.
NothingLost ==
  avPc \in {"run", "geometry"} =>
    /\ pending.hasAv => pending.av = latest /\ ~pending.hasGeometry
    /\ ~pending.hasAv => applied.timing = latest.timing
    /\ pending.hasGeometry => pending.geometry = latest.base
    /\ ~pending.hasAv /\ ~pending.hasGeometry
         => applied.base = latest.base \/ refused = latest.base

AvInv == AvTypes /\ NothingLost

LEMMA AvInvInit == AvInit => AvInv
  BY DEF AvInit, AvInv, AvTypes, NothingLost, Info, NoInfo, NoUpdates

LEMMA AvInvNext == AvInv /\ [AvNext]_avVars => AvInv'
<1> SUFFICES ASSUME AvInv, [AvNext]_avVars PROVE AvInv'
  OBVIOUS
<1> USE DEF AvInv, AvTypes, NothingLost, Info
<1>1. CASE StageAv
  <2>1. latest' \in Info /\ posts' \in Nat
        /\ UNCHANGED <<avPc, applied, refused>>
    BY <1>1 DEF StageAv, Post
  <2>2. pending' = [hasAv |-> TRUE, av |-> latest', hasGeometry |-> FALSE,
                    geometry |-> pending.geometry]
    BY <1>1, Zenon DEF StageAv, GeometryLeft
  <2> QED BY <2>1, <2>2
<1>2. CASE StageGeometry
  <2>1. latest' = [latest EXCEPT !.base = posts'] /\ posts' \in Nat
        /\ UNCHANGED <<avPc, applied, refused>>
    BY <1>2 DEF StageGeometry, Post
  <2>2. CASE pending.hasAv
    <3>1. pending' = [pending EXCEPT !.av.base = posts']
      BY <1>2, <2>2 DEF StageGeometry
    <3> QED BY <2>1, <2>2, <3>1
  <2>3. CASE ~pending.hasAv
    <3>1. pending' = [hasAv |-> FALSE, av |-> pending.av,
                      hasGeometry |-> TRUE, geometry |-> posts']
      BY <1>2, <2>3, Zenon DEF StageGeometry
    <3> QED BY <2>1, <2>3, <3>1
  <2> QED BY <2>2, <2>3
<1>3. CASE Configure
  BY <1>3 DEF Configure, NoUpdates, NoInfo
<1>4. CASE TakeAv
  BY <1>4 DEF TakeAv
<1>5. CASE TakeGeometry
  BY <1>5 DEF TakeGeometry
<1>6. CASE UNCHANGED avVars
  BY <1>6 DEF avVars
<1> QED BY <1>1, <1>2, <1>3, <1>4, <1>5, <1>6 DEF AvNext

\* No update of the geometry or of the timing is lost or overtakes a later
\* one, however many the core posts and whenever its threads post them.
THEOREM LatestAppliedHolds == AvSpec => []LatestApplied
<1>1. AvInv => LatestApplied
  BY DEF AvInv, AvTypes, NothingLost, LatestApplied
<1> QED BY <1>1, AvInvInit, AvInvNext, PTL DEF AvSpec

-----------------------------------------------------------------------------
(* Frame skipping.                                                         *)

\* The types of the counters of main.cpp and video.cpp that matter here.
PaceTypes ==
  /\ fixedSkip \in 0 .. MaxSkip /\ adaptive \in BOOLEAN
  /\ remaining \in Nat /\ skipNext \in BOOLEAN /\ dropped \in Nat
  /\ page \in {"none", "asked", "shown"}

\* The two kinds of skipping exclude each other.
OneSkip == adaptive = TRUE => fixedSkip = 0

\* A page that is drawn starts both counts again, and only then do the
\* settings change.
PageResets == page = "shown" => dropped = 0 /\ remaining = 0

\* With the adaptive skip off, a decision it left behind is from before the
\* frame shown last; after that, what was dropped and what is still to be is
\* one series of the fixed skip.
OneSeries ==
  adaptive = FALSE =>
    /\ skipNext = TRUE => dropped = 0 /\ remaining = 0
    /\ dropped + remaining <= fixedSkip + 1

PaceInv == PaceTypes /\ OneSkip /\ PageResets /\ OneSeries

\* The fixed skip of a file wins over its adaptive one.
LEMMA ConfiguredSkips ==
  ASSUME NEW s \in Skips
  PROVE  /\ Configured(s).fixed \in 0 .. MaxSkip
         /\ Configured(s).adaptive \in BOOLEAN
         /\ Configured(s).adaptive => Configured(s).fixed = 0
<1>1. /\ s = [fixed |-> s.fixed, adaptive |-> s.adaptive]
      /\ s.fixed \in 0 .. MaxSkip /\ s.adaptive \in BOOLEAN
  BY Zenon DEF Skips
<1>3. Configured(s).fixed = s.fixed
  BY <1>1, SMT DEF Configured
<1>4. Configured(s).adaptive = (s.adaptive /\ s.fixed = 0)
  BY <1>1, Zenon DEF Configured
<1> QED BY <1>1, <1>3, <1>4, Zenon

LEMMA PaceInvInit == PaceInit => PaceInv
<1> SUFFICES ASSUME PaceInit PROVE PaceInv
  OBVIOUS
<1>1. PICK file \in Skips :
        \E s \in {Configured(file)} \cup Benchmarked(Configured(file)) :
          fixedSkip = s.fixed /\ adaptive = s.adaptive
  BY DEF PaceInit
<1> DEFINE c == Configured(file)
<1>2. /\ c.fixed \in 0 .. MaxSkip /\ c.adaptive \in BOOLEAN
      /\ c.adaptive => c.fixed = 0
  BY <1>1, ConfiguredSkips
<1>3. 0 \in 0 .. MaxSkip
  BY PaceAssumption
<1> HIDE DEF c
<1>4. PICK s \in {c} \cup Benchmarked(c) :
        fixedSkip = s.fixed /\ adaptive = s.adaptive
  BY <1>1 DEF c
<1>5. fixedSkip \in 0 .. MaxSkip /\ adaptive \in BOOLEAN
      /\ (adaptive => fixedSkip = 0)
  <2>1. CASE s = c
    BY <1>2, <1>4, <2>1, Zenon
  <2>2. ASSUME NEW f \in 0 .. MaxSkip,
               s = [fixed |-> f, adaptive |-> c.adaptive /\ f = 0]
        PROVE  fixedSkip = f /\ adaptive = (c.adaptive /\ f = 0)
    BY <1>4, <2>2
  <2>3. ASSUME NEW a \in BOOLEAN,
               s = [fixed |-> IF a THEN 0 ELSE c.fixed, adaptive |-> a]
        PROVE  fixedSkip = (IF a THEN 0 ELSE c.fixed) /\ adaptive = a
    BY <1>4, <2>3
  <2> QED BY <1>2, <1>3, <1>4, <2>1, <2>2, <2>3, Zenon DEF Benchmarked
<1>6. dropped = 0 /\ remaining = 0 /\ skipNext = FALSE /\ page = "none"
  BY DEF PaceInit
<1>7. dropped + remaining <= fixedSkip + 1 /\ dropped \in Nat
      /\ remaining \in Nat
  BY <1>5, <1>6, PaceAssumption
<1> QED BY <1>5, <1>6, <1>7, Zenon
      DEF PaceInv, PaceTypes, OneSkip, PageResets, OneSeries

LEMMA AtLeastOne ==
  ASSUME NEW skip \in 0 .. MaxSkip
  PROVE  0 + 0 <= skip + 1
BY PaceAssumption

LEMMA PaceInvNext == PaceInv /\ [PaceNext]_paceVars => PaceInv'
<1> SUFFICES ASSUME PaceInv, [PaceNext]_paceVars PROVE PaceInv'
  OBVIOUS
<1> USE PaceAssumption DEF PaceInv, PaceTypes, OneSkip, PageResets, OneSeries
<1>1. CASE MenuSetting
  <2>1. page = "shown" /\ UNCHANGED <<remaining, skipNext, page, dropped>>
    BY <1>1 DEF MenuSetting
  <2>2. Stepped \subseteq 0 .. MaxSkip /\ 0 \in 0 .. MaxSkip
    BY DEF Stepped
  <2>3. fixedSkip' \in 0 .. MaxSkip /\ adaptive' \in BOOLEAN
        /\ (adaptive' => fixedSkip' = 0)
    <3>1. CASE Apply([fixed |-> IF adaptive THEN fixedSkip ELSE 0,
                      adaptive |-> ~adaptive])
      BY <2>2, <3>1, Zenon DEF Apply
    <3>2. CASE \E f \in Stepped :
                 Apply([fixed |-> f, adaptive |-> AdaptiveAfter(f)])
      BY <2>2, <3>2, Zenon DEF Apply, AdaptiveAfter
    <3> QED BY <1>1, <3>1, <3>2, Zenon DEF MenuSetting
  <2>4. dropped' = 0 /\ remaining' = 0
    BY <2>1
  <2>5. fixedSkip' \in 0 .. MaxSkip
    BY <2>3, Zenon
  <2>6. 0 + 0 <= fixedSkip' + 1
    BY <2>5, AtLeastOne, Zenon
  <2>7. dropped' + remaining' <= fixedSkip' + 1 /\ dropped' \in Nat
        /\ remaining' \in Nat
    BY <2>4, <2>6
  <2> QED BY <2>1, <2>3, <2>4, <2>7, Zenon
<1>2. CASE Page
  BY <1>2 DEF Page
<1>3. ASSUME NEW kind \in KindNow, Drops(kind),
             remaining' = FixedLeaves(kind),
             UNCHANGED <<fixedSkip, adaptive>>
      PROVE  PaceInv'
  <2>1. remaining' \in Nat /\ (Forced(kind) => remaining' = 0)
        /\ (page = "shown" => kind = "page")
    BY <1>3 DEF FixedLeaves, Forced, KindNow
  <2>2. CASE FixedDrops(kind) /\ Lost /\ UNCHANGED skipNext
    <3>1. kind = "game" /\ page # "shown" /\ remaining' = remaining - 1
      BY <1>3, <2>1, <2>2 DEF FixedDrops, FixedLeaves, Forced
    <3> QED BY <1>3, <2>1, <2>2, <3>1 DEF Lost, FixedDrops
  <2>3. CASE ~FixedDrops(kind) /\ AdaptiveDrops(kind) /\ skipNext' = FALSE
             /\ Lost
    <3>1. skipNext = TRUE /\ page # "shown"
      BY <1>3, <2>1, <2>3 DEF AdaptiveDrops
    <3>2. remaining' = 0 \/ (remaining = 0 /\ remaining' = fixedSkip)
      BY <1>3, <2>1, <2>3 DEF FixedDrops, FixedLeaves
    <3>3. /\ dropped' \in Nat /\ dropped' <= dropped + 1
          /\ page' = page /\ skipNext' = FALSE
      BY <2>3 DEF Lost
    <3>4. adaptive = FALSE => dropped' + remaining' <= fixedSkip + 1
      BY <3>1, <3>2, <3>3
    <3> QED BY <1>3, <2>1, <3>1, <3>3, <3>4, Zenon
  <2>4. CASE ~FixedDrops(kind) /\ ~AdaptiveDrops(kind) /\ UNCHANGED skipNext
             /\ Shown(kind)
    <3>1. /\ remaining' \in {0, fixedSkip}
          /\ skipNext /\ ~adaptive => remaining' = 0
          /\ kind = "page" => remaining' = 0
      BY <1>3, <2>1, <2>4
         DEF FixedDrops, AdaptiveDrops, FixedLeaves, Forced, KindNow, Kinds
    <3> QED BY <1>3, <2>1, <2>4, <3>1 DEF Shown
  <2> QED BY <1>3, <2>2, <2>3, <2>4 DEF Drops
<1>4. CASE VideoRefresh
  BY <1>3, <1>4 DEF VideoRefresh
<1>5. CASE LoopEnd
  <2>1. skipNext' \in BOOLEAN /\ (~adaptive => ~skipNext')
    BY <1>5 DEF LoopEnd, Measure, Forget
  <2> QED BY <1>5, <2>1 DEF LoopEnd
<1>6. CASE UNCHANGED paceVars
  BY <1>6 DEF paceVars
<1> QED BY <1>1, <1>2, <1>4, <1>5, <1>6 DEF PaceNext

\* Whatever the settings and whoever sets them, a game is shown within
\* fixedSkip + 2 of its frames, for every range of the two skips.
THEOREM GameShownHolds == PaceSpec => []GameShown
<1>1. PaceInv => GameShown
  BY DEF PaceInv, PaceTypes, OneSkip, OneSeries, GameShown
<1> QED BY <1>1, PaceInvInit, PaceInvNext, PTL DEF PaceSpec

-----------------------------------------------------------------------------
(* The decorations: the invariant, ...                                     *)

\* What is needed of the types.
DecoTypes ==
  /\ installed \in [Packs -> SUBSET {"image", "info"}]
  /\ chosenPack \in Packs /\ fetched \in Packs
  /\ downloading \in BOOLEAN /\ drawPc \in {"out", "load"}

\* The thread works on the pack that is selected, and has both files in place
\* before it says so; its status is that of the files when it ends.
Fetching ==
  /\ downloading = TRUE <=> fetchPc \notin {"none", "done"}
  /\ downloading = TRUE => fetched = chosenPack
  /\ fetchPc = "info" => "image" \in installed[fetched]
  /\ fetchPc = "status" => Complete(fetched)
  /\ fetchPc \in {"none", "done", "reload", "end"} =>
       (status = "Installed" => Complete(chosenPack))

\* A decoration that is loaded is shown and forces the scaling, and what the
\* player has set is kept as long; one being loaded is not there yet.
Forcing ==
  crossed # TRUE =>
    /\ loaded = TRUE => forced = TRUE /\ enabled = TRUE
    /\ forced = TRUE => loaded = TRUE /\ pixelBefore = chosen
    /\ forced # TRUE => pixelPerfect = chosen
    /\ drawPc = "load" => enabled = TRUE /\ loaded # TRUE

\* What is compared as a truth value is one.
Flags ==
  /\ enabled \in BOOLEAN /\ loaded \in BOOLEAN /\ forced \in BOOLEAN
  /\ crossed \in BOOLEAN

DecoInv == DecoTypes /\ Flags /\ Fetching /\ Forcing

LEMMA DecoInvInit == DecoInit => DecoInv
<1> SUFFICES ASSUME DecoInit PROVE DecoInv
  OBVIOUS
<1>1. DecoTypes /\ Flags /\ Forcing
  BY DEF DecoInit, DecoTypes, Flags, Forcing
<1>2. Fetching
  BY DEF DecoInit, Fetching, Status, Complete
<1> QED BY <1>1, <1>2 DEF DecoInv

-----------------------------------------------------------------------------
(* The picture.                                                            *)

LEMMA DrawStep ==
  ASSUME DecoInv, DrawBegin \/ DrawLoads \/ DrawFails PROVE DecoInv'
<1> USE DEF DecoInv, catalogVars, fetchVars, pixelVars, shownVars
<1>1. DecoTypes' /\ Fetching'
  BY DEF DecoTypes, Fetching, Complete, DrawBegin, DrawLoads, DrawFails
<1>2. CASE DrawBegin
  BY <1>1, <1>2 DEF DrawBegin, Flags, Forcing
<1>3. CASE DrawLoads
  BY <1>1, <1>3 DEF DrawLoads, Flags, Forcing
<1>4. CASE DrawFails
  BY <1>1, <1>4 DEF DrawFails, Restored, Flags, Forcing
<1> QED BY <1>2, <1>3, <1>4

\* decoration_reload leaves nothing forced, unless a picture is being loaded.
LEMMA ReloadForcing ==
  ASSUME DecoInv, Reloaded, Crossing, UNCHANGED <<drawPc, chosen>>,
         enabled' \in {enabled, TRUE}
  PROVE  Flags' /\ Forcing'
BY DEF DecoInv, Reloaded, Restored, Crossing, Flags, Forcing, DecoTypes

-----------------------------------------------------------------------------
(* The thread.                                                             *)

LEMMA FetchStep ==
  ASSUME DecoInv,
         FetchDone \/ FetchRename \/ FetchInstalled \/ FetchReload \/ FetchEnd
  PROVE  DecoInv'
<1> USE DEF DecoInv, Fetches, pixelVars, shownVars
<1>1. Flags' /\ Forcing'
  BY DEF Flags, Forcing, FetchDone, FetchRename, FetchInstalled, FetchReload,
         FetchEnd
<1>2. CASE FetchRename
  <2>1. PICK part \in {"image", "info"} :
          /\ fetchPc = part
          /\ \/ /\ installed' = [installed EXCEPT ![fetched] = @ \cup {part}]
                /\ fetchPc' = IF part = "image" THEN "info" ELSE "status"
                /\ UNCHANGED status
             \/ fetchPc' = "end" /\ status' = "Error" /\ UNCHANGED installed
    BY <1>2 DEF FetchRename
  <2>2. UNCHANGED <<chosenPack, fetched, downloading, drawPc>>
    BY <1>2 DEF FetchRename
  <2>3. DecoTypes'
    BY <2>1, <2>2 DEF DecoTypes
  <2>4. fetchPc' = "status" => installed'[fetched] = {"image", "info"}
    BY <2>1 DEF DecoTypes, Fetching
  <2>5. Fetching'
    BY <2>1, <2>2, <2>4 DEF DecoTypes, Fetching, Complete
  <2> QED BY <1>1, <2>3, <2>5
<1>3. CASE FetchDone \/ FetchInstalled \/ FetchReload \/ FetchEnd
  <2>1. DecoTypes'
    BY <1>3 DEF DecoTypes, FetchDone, FetchInstalled, FetchReload, FetchEnd
  <2>2. Fetching'
    BY <1>3 DEF DecoTypes, Fetching, Complete, FetchDone, FetchInstalled,
                FetchReload, FetchEnd
  <2> QED BY <1>1, <2>1, <2>2
<1> QED BY <1>2, <1>3

-----------------------------------------------------------------------------
(* The menu and the main loop.                                             *)

LEMMA SelectStep ==
  ASSUME DecoInv, SelectPack PROVE DecoInv'
<1> USE DEF DecoInv, SelectPack, Chooses
<1>1. Flags' /\ Forcing'
  BY ReloadForcing
<1>2. DecoTypes'
  BY DEF DecoTypes, fetchVars
<1>3. Fetching'
  BY DEF DecoTypes, Fetching, Refused, fetchVars, Status, Complete
<1> QED BY <1>1, <1>2, <1>3

LEMMA RemoveStep ==
  ASSUME DecoInv, RemovePack PROVE DecoInv'
<1> USE DEF DecoInv, RemovePack, Chooses
<1>1. Flags' /\ Forcing'
  BY ReloadForcing
<1>2. DecoTypes'
  BY DEF DecoTypes, fetchVars
<1>3. Fetching'
  BY DEF DecoTypes, Fetching, Refused, fetchVars
<1> QED BY <1>1, <1>2, <1>3

LEMMA InstallStep ==
  ASSUME DecoInv, InstallPack PROVE DecoInv'
<1> USE DEF DecoInv, InstallPack, Chooses, shownVars, pixelVars
<1>1. Flags' /\ Forcing'
  BY DEF Flags, Forcing, Crossing, DecoTypes
<1>2. DecoTypes' /\ Fetching'
  BY DEF DecoTypes, Fetching
<1> QED BY <1>1, <1>2

LEMMA SetStep ==
  ASSUME DecoInv, SetEnabled \/ SetPixelPerfect PROVE DecoInv'
<1> USE DEF DecoInv, Chooses, catalogVars, fetchVars, pixelVars, shownVars
<1>1. DecoTypes' /\ Fetching'
  BY DEF DecoTypes, Fetching, Complete, SetEnabled, SetPixelPerfect
<1>2. CASE SetPixelPerfect
  BY <1>1, <1>2 DEF SetPixelPerfect, Flags, Forcing, Crossing, DecoTypes
<1>3. CASE SetEnabled /\ enabled = TRUE
  BY <1>1, <1>3 DEF SetEnabled, SwitchedOff, Restored, Flags, Forcing,
                    Crossing, DecoTypes
<1>4. CASE SetEnabled /\ enabled = FALSE
  BY <1>1, <1>4 DEF SetEnabled, SwitchedOff, Flags, Forcing, Crossing,
                    DecoTypes
<1> QED BY <1>2, <1>3, <1>4 DEF Flags

LEMMA UpdateStep ==
  ASSUME DecoInv, CatalogUpdate PROVE DecoInv'
<1> USE DEF DecoInv, CatalogUpdate, catalogVars, shownVars, pixelVars
<1>1. DecoTypes' /\ Fetching'
  BY DEF DecoTypes, Fetching, Complete
<1>2. CASE reloadPending
  BY <1>1, <1>2, ReloadForcing
<1>3. CASE ~reloadPending
  BY <1>1, <1>3 DEF Flags, Forcing
<1> QED BY <1>2, <1>3

-----------------------------------------------------------------------------
(* The theorem.                                                            *)

LEMMA DecoInvNext == DecoInv /\ [DecoNext]_decoVars => DecoInv'
<1> SUFFICES ASSUME DecoInv, [DecoNext]_decoVars PROVE DecoInv'
  OBVIOUS
<1>1. CASE DecoNext
  BY <1>1, DrawStep, FetchStep, SelectStep, RemoveStep, InstallStep, SetStep,
     UpdateStep DEF DecoNext
<1>2. CASE UNCHANGED decoVars
  BY <1>2 DEF decoVars, catalogVars, fetchVars, shownVars, pixelVars, DecoInv,
    DecoTypes, Flags, Fetching, Forcing, Complete
<1> QED BY <1>1, <1>2

\* "Installed" is said of complete packs only, and the scaling the player has
\* set comes back when no decoration forces it.
THEOREM DecorationsHold == DecoSpec => []DecorationsTrue
<1>1. DecoInv => StatusTrue
  BY DEF DecoInv, DecoTypes, Fetching, StatusTrue
<1>2. DecoInv => PixelGivenBack
  BY DEF DecoInv, Flags, Forcing, PixelGivenBack
<1> QED BY <1>1, <1>2, DecoInvInit, DecoInvNext, PTL
        DEF DecoSpec, DecorationsTrue

-----------------------------------------------------------------------------
(* The game catalog: no launch uses an older one than the one before it.   *)

\* What a launch would use now.
Best == considerCatalog(cached, considerCatalog(localFile, builtin))

Candidates == Versions \cup {NoCatalog, NotValid}

UpdateTypes ==
  /\ builtin \in Versions /\ localFile \in Candidates /\ cached \in Candidates
  /\ stampFresh \in BOOLEAN /\ usedNow \in Versions \cup {NoCatalog}
  /\ checks \in Nat /\ launches \in Nat
  /\ workers \subseteq [id : Nat, current : Versions,
                       at : {"download", "rename"},
                       got : Versions \cup {NoCatalog}]

\* A check is under way only on a day that has a stamp, and it is the only
\* one; so the cached file is the one its launch looked at.
OneCheck ==
  /\ checks <= (IF stampFresh THEN 1 ELSE 0)
  /\ workers # {} => stampFresh
  /\ \A v, w \in workers : v = w
  /\ \A w \in workers : w.current = Best

OnlyNewer ==
  /\ usedNow <= Best
  /\ \A w \in workers :
       w.at = "rename" => w.got \in Versions /\ w.got > w.current

UpdateInv == UpdateTypes /\ OneCheck /\ OnlyNewer

-----------------------------------------------------------------------------

\* The first launch finds no check under way.
LEMMA UpdateInvInit == UpdateInit => UpdateInv
<1> SUFFICES ASSUME UpdateInit PROVE UpdateInv
  OBVIOUS
<1>1. UpdateTypes
  BY DEF UpdateInit, UpdateTypes, Candidates
<1>2. OneCheck
  BY DEF UpdateInit, OneCheck
<1>3. usedNow <= Best
  BY UpdateAssumption
  DEF UpdateInit, Best, considerCatalog, Versions, NoCatalog, NotValid
<1> QED
  BY <1>1, <1>2, <1>3 DEF UpdateInit, UpdateInv, OnlyNewer

\* A launch uses the best catalog, and leaves a check behind only if there
\* is none (scheduleCatalogUpdate).
LEMMA LaunchKeeps ==
  ASSUME UpdateInv, NEW automatic \in BOOLEAN, Launch(automatic)
  PROVE  UpdateInv' /\ usedNow' >= usedNow /\ checks' <= 1 /\ cached' = cached
<1> DEFINE w0 == [id |-> launches, current |-> Best, at |-> "download",
                  got |-> NoCatalog]
<1>1. /\ UNCHANGED <<builtin, localFile, cached>> /\ Best' = Best
      /\ usedNow' = Best /\ launches' = launches + 1
  BY DEF Launch, Best
<1>2. Best \in Versions
  BY UpdateAssumption
  DEF Best, UpdateInv, UpdateTypes, considerCatalog, Candidates, Versions,
      NoCatalog, NotValid
<1>3. usedNow' >= usedNow
  BY <1>1, <1>2
  DEF UpdateInv, UpdateTypes, OnlyNewer, Versions, NoCatalog
<1>4. CASE UNCHANGED <<stampFresh, workers, checks>>
  BY <1>1, <1>2, <1>3, <1>4
  DEF UpdateInv, UpdateTypes, OneCheck, OnlyNewer, Versions, NoCatalog
<1>5. CASE /\ ~stampFresh /\ stampFresh' = TRUE /\ checks' = checks + 1
           /\ workers' = workers \cup {w0}
  <2>1. workers = {} /\ checks = 0
    BY <1>5 DEF UpdateInv, UpdateTypes, OneCheck
  <2>2. workers' = {w0} /\ checks' = 1
    BY <1>5, <2>1
  <2>3. UpdateTypes'
    BY <1>1, <1>2, <1>5, <2>2 DEF UpdateInv, UpdateTypes
  <2>4. OneCheck'
    BY <1>1, <1>5, <2>2 DEF OneCheck
  <2>5. OnlyNewer'
    BY <1>1, <1>2, <2>2 DEF OnlyNewer, Versions
  <2> QED
    BY <1>1, <1>3, <2>2, <2>3, <2>4, <2>5 DEF UpdateInv
<1> QED
  BY <1>1, <1>4, <1>5 DEF Launch, Best

\* A download goes on to the rename only with a newer catalog.
LEMMA DownloadKeeps ==
  ASSUME UpdateInv, NEW w \in workers, Download(w)
  PROVE  UpdateInv' /\ UNCHANGED <<usedNow, checks, cached>>
<1>1. /\ UNCHANGED <<builtin, localFile, cached, stampFresh, usedNow, checks,
                     launches>>
      /\ Best' = Best
  BY DEF Download, Best
<1>2. workers = {w}
  BY DEF UpdateInv, OneCheck
<1>3. CASE workers' = workers \ {w}
  BY <1>1, <1>3 DEF UpdateInv, UpdateTypes, OneCheck, OnlyNewer
<1>4. CASE \E v \in Versions \cup {NotValid} :
             Newer(v, w.current)
               /\ Moved(w, [w EXCEPT !.at = "rename", !.got = v])
  <2>1. PICK v \in Versions \cup {NotValid} :
          Newer(v, w.current)
            /\ Moved(w, [w EXCEPT !.at = "rename", !.got = v])
    BY <1>4
  <2> DEFINE n == [w EXCEPT !.at = "rename", !.got = v]
  <2>2. workers' = {n}
    BY <1>2, <2>1 DEF Moved
  <2> QED
    <3>1. n \in [id : Nat, current : Versions, at : {"download", "rename"},
                 got : Versions \cup {NoCatalog}]
      <4>1. v \in Versions
        BY <2>1 DEF Newer, UpdateInv, UpdateTypes, Versions, NotValid
      <4> QED
        BY <4>1 DEF UpdateInv, UpdateTypes
    <3>2. n.current = w.current /\ n.at = "rename" /\ n.got = v
      BY DEF UpdateInv, UpdateTypes
    <3>3. v \in Versions /\ v > w.current
      BY <2>1 DEF Newer, UpdateInv, UpdateTypes, Versions, NotValid
    <3> QED
      BY <1>1, <1>2, <2>2, <3>1, <3>2, <3>3
      DEF UpdateInv, UpdateTypes, OneCheck, OnlyNewer
<1> QED
  BY <1>3, <1>4 DEF Download

\* The rename replaces the catalog the check's launch saw by a newer one.
LEMMA ReplaceKeeps ==
  ASSUME UpdateInv, NEW w \in workers, Replace(w)
  PROVE  UpdateInv' /\ UNCHANGED <<usedNow, checks>> /\ cached' \in Versions
<1>1. /\ UNCHANGED <<builtin, localFile, stampFresh, usedNow, checks,
                     launches>>
      /\ workers' = {} /\ cached' = w.got /\ w.at = "rename"
  BY DEF Replace, UpdateInv, OneCheck
<1>2. w.got \in Versions /\ w.got > Best
  BY <1>1 DEF UpdateInv, OneCheck, OnlyNewer
<1>3. Best' >= Best
  BY <1>1, <1>2, UpdateAssumption
  DEF Best, UpdateInv, UpdateTypes, considerCatalog, Candidates, Versions,
      NoCatalog, NotValid
<1>4. Best \in Versions /\ Best' \in Versions
  BY <1>1, <1>2, UpdateAssumption
  DEF Best, UpdateInv, UpdateTypes, considerCatalog, Candidates, Versions,
      NoCatalog, NotValid
<1> QED
  BY <1>1, <1>2, <1>3, <1>4
  DEF UpdateInv, UpdateTypes, OneCheck, OnlyNewer, Candidates, Versions,
      NoCatalog

\* A check that dies, and a day that passes when none is under way.
LEMMA OthersKeep ==
  ASSUME UpdateInv, (\E w \in workers : Dies(w)) \/ DayPasses
  PROVE  UpdateInv' /\ usedNow' = usedNow /\ cached' = cached /\ checks' <= 1
<1>1. CASE \E w \in workers : Dies(w)
  BY <1>1
  DEF Dies, UpdateInv, UpdateTypes, OneCheck, OnlyNewer, Best
<1>2. CASE DayPasses
  <2>1. /\ workers' = {} /\ checks' = 0 /\ stampFresh' = FALSE
        /\ UNCHANGED <<builtin, localFile, cached, usedNow, launches>>
        /\ Best' = Best
    BY <1>2 DEF DayPasses, Best
  <2>2. UpdateTypes'
    BY <2>1 DEF UpdateInv, UpdateTypes
  <2>3. OneCheck'
    BY <2>1 DEF OneCheck
  <2>4. OnlyNewer'
    BY <2>1 DEF UpdateInv, OnlyNewer
  <2> QED
    BY <2>1, <2>2, <2>3, <2>4 DEF UpdateInv
<1> QED
  BY <1>1, <1>2

\* The catalogs launches use never go back, with one check a day at most:
\* the property of the run, for every number of versions and launches.
THEOREM CatalogAdvancesHolds == UpdateSpec => CatalogAdvances
<1> DEFINE Good == /\ usedNow' >= usedNow /\ checks' <= 1
                   /\ cached' # cached => cached' \in Versions
<1>1. ASSUME UpdateInv PROVE usedNow >= usedNow /\ checks <= 1
  BY <1>1 DEF UpdateInv, UpdateTypes, OneCheck, Versions, NoCatalog
<1>2. UpdateInv /\ [UpdateNext]_updateVars => UpdateInv' /\ [Good]_updateVars
  <2> SUFFICES ASSUME UpdateInv, [UpdateNext]_updateVars
               PROVE  UpdateInv' /\ [Good]_updateVars
    OBVIOUS
  <2>1. CASE \E automatic \in BOOLEAN : Launch(automatic)
    BY <2>1, LaunchKeeps
  <2>2. CASE \E w \in workers : Download(w)
    BY <2>2, <1>1, DownloadKeeps
  <2>3. CASE \E w \in workers : Replace(w)
    BY <2>3, <1>1, ReplaceKeeps
  <2>4. CASE (\E w \in workers : Dies(w)) \/ DayPasses
    BY <2>4, <1>1, OthersKeep
  <2>5. CASE UNCHANGED updateVars
    BY <2>5
    DEF updateVars, UpdateInv, UpdateTypes, OneCheck, OnlyNewer, Best
  <2> QED
    BY <2>1, <2>2, <2>3, <2>4, <2>5 DEF UpdateNext
<1> QED
  BY <1>2, UpdateInvInit, PTL DEF UpdateSpec, CatalogAdvances

-----------------------------------------------------------------------------
(* The achievements and the changes of the disc.                           *)

Places == Media \cup {NoMedia}
Hashes == [path : Places, change : BOOLEAN]
Requests == [kind : {"login", "load", "change", "badge"}, path : Places]
Waits == [at : {"free", "hash", "pump", "end"}, job : Hashes, ok : BOOLEAN,
          init : BOOLEAN]
Working == {"hashing", "check", "publish"}

-----------------------------------------------------------------------------
(* The invariant.                                                          *)

\* What is needed of the types.
AchTypes ==
  /\ achPc \in Waits
  /\ hashPc \in Working \cup {"none", "ended"} /\ hashJob \in Hashes
  /\ hashCancel \in BOOLEAN
  /\ \/ completed = << >>
     \/ \E c \in [path : Places, change : BOOLEAN, ok : BOOLEAN] :
          completed = <<c>>
  /\ client \in BOOLEAN /\ login \in {"none", "pending", "ok", "failed"}
  /\ {content, game, loading, told, asked} \subseteq Places
  /\ inFlight \subseteq Requests
  /\ answered \subseteq [request : Requests, ok : BOOLEAN]

\* What a thread works on, what it has handed over, what main waits to hash
\* or is about to announce: always the media that was announced last.
HashTargets ==
  /\ achPc.at \in {"hash", "pump"} =>
       achPc.job.path = told /\ login # "pending"
  /\ achPc.at = "free" /\ hashPc \in Working =>
       hashJob.path = told /\ login # "pending" /\ hashCancel = FALSE
  /\ achPc.at = "free" /\ completed # << >> =>
       completed[1].path = told /\ login # "pending"

\* A result is there when its thread is done, and is out when it is pumped.
Handover ==
  /\ completed # << >> => hashPc = "ended"
  /\ achPc.at = "pump" => completed = << >> /\ hashPc \in {"none", "ended"}

\* Until the login is through, nothing is identified and the content waits.
Waiting ==
  login = "pending" =>
    /\ content = told /\ game = NoMedia
    /\ \A r \in inFlight : r.kind \in {"login", "badge"}
    /\ \A a \in answered : a.request.kind \in {"login", "badge"}

\* There is one login.
OneLogin ==
  /\ \A r \in inFlight : r.kind = "login" =>
       /\ r.path = NoMedia /\ login = "pending"
       /\ \A a \in answered : a.request.kind # "login"
  /\ \A a \in answered : a.request.kind = "login" =>
       /\ login = "pending"
       /\ \A b \in answered : b.request.kind = "login" => b = a

\* What was announced has reached the client, or is on its way to it.
Following ==
  achPc.at = "free" /\ client = TRUE /\ login = "ok" =>
    asked = told \/ hashPc \in Working \/ completed # << >>

\* One download of the badge is under way, or none.
OneBadge ==
  /\ \A r \in inFlight : r.kind = "badge" =>
       /\ r.path = NoMedia /\ badge = "loading"
       /\ \A a \in answered : a.request.kind # "badge"
  /\ \A a \in answered : a.request.kind = "badge" =>
       /\ badge = "loading"
       /\ \A b \in answered : b.request.kind = "badge" => b = a
  /\ badge = "loading" =>
       \/ \E r \in inFlight : r.kind = "badge"
       \/ \E a \in answered : a.request.kind = "badge"

HashInv == HashTargets /\ Handover /\ Following
LoginInv == Waiting /\ OneLogin
AchInv == AchTypes /\ HashInv /\ LoginInv /\ OneBadge

\* Where main waits after start_disc_hash, and after achievements_shutdown.
LEMMA HashWait ==
  ASSUME NEW path \in Places, NEW pc,
         \/ pc = [Free EXCEPT !.at = "hash",
                    !.job = [path |-> path, change |-> TRUE]]
         \/ pc = [Free EXCEPT !.at = "hash",
                    !.job = [path |-> path, change |-> FALSE]]
  PROVE  pc \in Waits /\ pc.at = "hash" /\ pc.job.path = path
<1>1. PICK job : /\ pc = [Free EXCEPT !.at = "hash", !.job = job]
                 /\ job \in {[path |-> path, change |-> TRUE],
                            [path |-> path, change |-> FALSE]}
  OBVIOUS
<1>2. job \in Hashes /\ job.path = path
  <2>1. [path |-> path, change |-> TRUE] \in Hashes
    BY DEF Hashes
  <2>2. [path |-> path, change |-> FALSE] \in Hashes
    BY DEF Hashes
  <2>3. job \in Hashes
    BY <1>1, <2>1, <2>2, Zenon
  <2>4. CASE job = [path |-> path, change |-> TRUE]
    BY <2>3, <2>4
  <2>5. CASE job = [path |-> path, change |-> FALSE]
    BY <2>3, <2>5
  <2> QED BY <1>1, <2>4, <2>5
<1>3. pc = [at |-> "hash", job |-> job, ok |-> FALSE, init |-> FALSE]
  BY <1>1 DEF Free
<1> QED BY <1>2, <1>3 DEF Waits

LEMMA EndWait ==
  ASSUME NEW init \in BOOLEAN, NEW pc,
         pc = [Free EXCEPT !.at = "end", !.init = init]
  PROVE  pc \in Waits /\ pc.at = "end"
BY DEF Free, NoHash, Hashes, Places, Waits

LEMMA AchInvInit == AchInit => AchInv
<1> SUFFICES ASSUME AchInit PROVE AchInv
  OBVIOUS
<1>1. AchTypes
  BY AchievementsAssumption
  DEF AchInit, AchTypes, Waits, Free, NoHash, Hashes, Places, Working
<1>2. HashInv
  BY DEF AchInit, HashInv, HashTargets, Handover, Following, Free, Working
<1>3. LoginInv /\ OneBadge
  BY DEF AchInit, LoginInv, Waiting, OneLogin, OneBadge
<1> QED BY <1>1, <1>2, <1>3 DEF AchInv

-----------------------------------------------------------------------------
(* The threads.                                                            *)

LEMMA HashThreadStep ==
  ASSUME AchInv, Hash \/ HashCheck \/ HashPublish PROVE AchInv'
<1> USE DEF AchInv, ThreadFrame, rcVars, historyVars, boundVars
<1>1. LoginInv' /\ OneBadge'
  BY DEF LoginInv, Waiting, OneLogin, OneBadge, Hash, HashCheck, HashPublish
<1>2. CASE Hash
  BY <1>1, <1>2 DEF Hash, AchTypes, HashInv, HashTargets, Handover, Following,
                    Working
<1>3. CASE HashCheck
  BY <1>1, <1>3 DEF HashCheck, AchTypes, HashInv, HashTargets, Handover,
                    Following, Working
<1>4. CASE HashPublish
  <2>1. PICK ok \in BOOLEAN :
          completed' = <<[path |-> hashJob.path, change |-> hashJob.change,
                          ok |-> ok]>>
    BY <1>4 DEF HashPublish
  <2>2. completed' # << >> /\ completed'[1].path = hashJob.path
    BY <2>1
  <2>3. AchTypes'
    BY <1>4, <2>1 DEF HashPublish, AchTypes, Waits, Working, Hashes
  <2>4. HashInv'
    BY <1>4, <2>2 DEF HashPublish, HashInv, HashTargets, Handover, Following,
                      Working
  <2> QED BY <1>1, <2>3, <2>4
<1> QED BY <1>2, <1>3, <1>4

LEMMA AnswerStep ==
  ASSUME AchInv, NEW r \in inFlight, Answer(r) PROVE AchInv'
<1> USE DEF AchInv, ThreadFrame, rcVars, historyVars, boundVars, hashVars
<1>1. PICK ok \in BOOLEAN :
        answered' = answered \cup {[request |-> r, ok |-> ok]}
  BY DEF Answer
<1>2. inFlight' = inFlight \ {r} /\ r \in Requests
  BY DEF Answer, AchTypes
<1>3. AchTypes' /\ HashInv'
  BY <1>1, <1>2 DEF Answer, AchTypes, HashInv, HashTargets, Handover, Following
<1>4. Waiting'
  BY <1>1, <1>2 DEF Answer, LoginInv, Waiting
<1>5. \A q \in inFlight : q.kind = r.kind /\ q.path = r.path => q = r
  BY <1>2 DEF AchTypes, Waits, Requests
<1>6. OneLogin'
  BY <1>1, <1>2, <1>5 DEF Answer, LoginInv, OneLogin
<1>7. OneBadge'
  <2>1. ASSUME NEW q \in inFlight', q.kind = "badge"
        PROVE  /\ q.path = NoMedia /\ badge' = "loading"
               /\ \A a \in answered' : a.request.kind # "badge"
    BY <1>1, <1>2, <1>5, <2>1 DEF Answer, OneBadge
  <2>2. ASSUME NEW a \in answered', a.request.kind = "badge"
        PROVE  /\ badge' = "loading"
               /\ \A b \in answered' : b.request.kind = "badge" => b = a
    BY <1>1, <1>2, <2>2 DEF Answer, OneBadge
  <2>3. ASSUME badge' = "loading"
        PROVE  \/ \E q \in inFlight' : q.kind = "badge"
               \/ \E a \in answered' : a.request.kind = "badge"
    <3>1. CASE r.kind = "badge"
      <4>1. [request |-> r, ok |-> ok] \in answered'
        BY <1>1
      <4> QED BY <3>1, <4>1
    <3>2. CASE r.kind # "badge"
      <4>1. \/ \E q \in inFlight : q.kind = "badge"
            \/ \E a \in answered : a.request.kind = "badge"
        BY <2>3 DEF Answer, OneBadge
      <4> QED BY <3>2, <4>1, <1>1, <1>2
    <3> QED BY <3>1, <3>2
  <2> QED BY <2>1, <2>2, <2>3 DEF OneBadge
<1> QED BY <1>3, <1>4, <1>6, <1>7 DEF LoginInv

-----------------------------------------------------------------------------
(* Main.                                                                   *)

LEMMA HashJoinStep ==
  ASSUME AchInv, HashJoin PROVE AchInv'
<1> USE DEF AchInv, rcVars, historyVars, boundVars
<1>1. LoginInv' /\ OneBadge'
  BY DEF LoginInv, Waiting, OneLogin, OneBadge, HashJoin
<1>2. AchTypes'
  BY AchievementsAssumption
  DEF HashJoin, AchTypes, Waits, Working, Cancelled, ResultLeft, Free, NoHash,
      Hashes, Places
<1>3. HashInv'
  BY DEF HashJoin, AchTypes, Waits, HashInv, HashTargets, Handover,
     Following, Working, Cancelled, ResultLeft, Free
<1> QED BY <1>1, <1>2, <1>3

LEMMA PumpTakeStep ==
  ASSUME AchInv, PumpTake PROVE AchInv'
<1> USE DEF AchInv, rcVars, historyVars, boundVars
<1>1. LoginInv' /\ OneBadge'
  BY DEF LoginInv, Waiting, OneLogin, OneBadge, PumpTake
<1>2. PICK c \in [path : Places, change : BOOLEAN, ok : BOOLEAN] :
        completed = <<c>>
  BY DEF PumpTake, AchTypes
<1>3. completed[1] = c
  BY <1>2
<1>4. AchTypes'
  BY <1>3 DEF PumpTake, AchTypes, Waits, Hashes
<1>5. HashInv'
  BY <1>3 DEF PumpTake, HashInv, HashTargets, Handover, Following, Idle
<1> QED BY <1>1, <1>4, <1>5

\* What reaches the client is the media announced last.
LEMMA PumpHashAsks ==
  ASSUME AchInv, PumpHash PROVE asked' \in {asked, told}
BY DEF PumpHash, AchInv, HashInv, HashTargets

LEMMA PumpHashStep ==
  ASSUME AchInv, PumpHash PROVE AchInv'
<1> USE DEF AchInv, boundVars
<1>1. PICK q \in Requests :
        /\ q.kind \in {"load", "change"}
        /\ inFlight' \in {inFlight, inFlight \cup {q}}
  <2> DEFINE p == IF achPc.ok THEN achPc.job.path ELSE NoMedia
             q == Request(IF achPc.job.change THEN "change" ELSE "load", p)
  <2>1. q \in Requests /\ q.kind \in {"load", "change"}
    BY DEF AchTypes, Waits, Hashes, Places, Requests, Request
  <2>2. inFlight' \in {inFlight, inFlight \cup {q}}
    BY DEF PumpHash
  <2> QED BY <2>1, <2>2
<1>2. AchTypes'
  BY <1>1, AchievementsAssumption
  DEF PumpHash, AchTypes, Waits, Hashes, Places, Free, NoHash
<1>3. login # "pending"
  BY DEF PumpHash, HashInv, HashTargets
<1>4. HashInv'
  BY <1>3 DEF PumpHash, HashInv, HashTargets, Handover, Following, Free,
     Working
<1>5. LoginInv'
  BY <1>1, <1>3 DEF PumpHash, LoginInv, Waiting, OneLogin
<1>6. OneBadge'
  BY <1>1 DEF PumpHash, OneBadge
<1> QED BY <1>2, <1>4, <1>5, <1>6

LEMMA LoginCompleteStep ==
  ASSUME AchInv, NEW r \in answered, LoginComplete(r) PROVE AchInv'
<1> USE DEF AchInv, boundVars, hashVars, PumpFrame
<1>1. login = "pending" /\ content = told /\ game = NoMedia
  BY DEF LoginComplete, LoginInv, OneLogin, Waiting
<1>2. /\ \A q \in inFlight : q.kind # "login"
      /\ \A a \in answered \ {r} : a.request.kind # "login"
  BY DEF LoginComplete, LoginInv, OneLogin
<1>3. /\ achPc.at = "free" /\ hashPc \notin Working /\ completed = << >>
  BY <1>1 DEF LoginComplete, Pumped, Idle, HashInv, HashTargets
<1>4. /\ answered' = answered \ {r} /\ UNCHANGED <<badge, told, client>>
      /\ UNCHANGED <<content, game, hashPc, hashJob, completed>>
      /\ login' \in {"ok", "failed"}
  BY DEF LoginComplete, Pumped, Identify, HashStart
<1>5. \/ /\ UNCHANGED <<achPc, hashCancel, loading, inFlight, asked>>
         /\ login' = "failed"
      \/ /\ hashCancel' = TRUE /\ UNCHANGED <<loading, inFlight, asked>>
         /\ achPc' = [Free EXCEPT !.at = "hash",
                        !.job = [path |-> content, change |-> FALSE]]
      \/ /\ UNCHANGED <<achPc, hashCancel>>
         /\ loading' = content /\ asked' = content
         /\ inFlight' = inFlight \cup {Request("load", content)}
  BY DEF LoginComplete, Identify, HashStart
<1>6. Request("load", content) \in Requests
      /\ Request("load", content).kind = "load"
  BY DEF Request, Requests, AchTypes
<1>7. \/ achPc' = achPc
      \/ achPc' \in Waits /\ achPc'.at = "hash" /\ achPc'.job.path = content
  <2>1. content \in Places
    BY DEF AchTypes
  <2>2. CASE achPc' = [Free EXCEPT !.at = "hash",
                         !.job = [path |-> content, change |-> FALSE]]
    BY <2>1, <2>2, HashWait
  <2> QED BY <1>5, <2>2
<1>8. AchTypes' /\ HashInv'
  <2>1. AchTypes'
    BY <1>4, <1>5, <1>6, <1>7 DEF AchTypes, Places
  <2>2. HashTargets' /\ Handover'
    BY <1>1, <1>3, <1>4, <1>5, <1>7 DEF HashInv, HashTargets, Handover
  <2>3. Following'
    BY <1>1, <1>3, <1>4, <1>5, <1>7, HashWait DEF AchTypes, Following
  <2> QED BY <2>1, <2>2, <2>3 DEF HashInv
<1>9. LoginInv'
  BY <1>2, <1>4, <1>5, <1>6 DEF LoginInv, Waiting, OneLogin
<1>10. OneBadge'
  <2>1. r.request.kind = "login"
    BY DEF LoginComplete
  <2>2. ASSUME NEW q \in inFlight', q.kind = "badge"
        PROVE  q \in inFlight
    BY <1>5, <1>6, <2>2
  <2>3. ASSUME NEW q \in inFlight PROVE q \in inFlight'
    BY <1>5
  <2>4. ASSUME NEW a \in answered, a.request.kind = "badge"
        PROVE a \in answered'
    BY <1>4, <2>1, <2>4
  <2> QED BY <1>4, <2>2, <2>3, <2>4 DEF OneBadge
<1> QED BY <1>8, <1>9, <1>10

\* A result that is no login and no badge: neither is touched.
LEMMA OtherResult ==
  ASSUME AchInv, NEW r \in answered, answered' = answered \ {r},
         r.request.kind \in {"load", "change"},
         UNCHANGED <<inFlight, login, content, told, badge>>
  PROVE  login # "pending" /\ LoginInv' /\ OneBadge'
<1>1. login # "pending"
  BY DEF AchInv, LoginInv, Waiting
<1>2. LoginInv'
  BY <1>1 DEF AchInv, LoginInv, Waiting, OneLogin
<1>3. OneBadge'
  BY DEF AchInv, OneBadge
<1> QED BY <1>1, <1>2, <1>3

LEMMA GameStep ==
  ASSUME AchInv, NEW r \in answered, GameLoaded(r) \/ MediaChanged(r)
  PROVE  AchInv'
<1> USE DEF GameLoaded, MediaChanged, Pumped, PumpFrame, hashVars, boundVars
<1>1. /\ answered' = answered \ {r}
      /\ UNCHANGED <<inFlight, login, content, told, badge, asked, achPc,
                     client, hashPc, hashJob, hashCancel, completed>>
      /\ game' \in {game, r.request.path} /\ loading' \in {loading, NoMedia}
  OBVIOUS
<1>2. LoginInv' /\ OneBadge'
  BY <1>1, OtherResult
<1>3. AchTypes'
  BY <1>1 DEF AchInv, AchTypes, Requests, Places
<1>4. HashInv'
  BY <1>1 DEF AchInv, HashInv, HashTargets, Handover, Following
<1> QED BY <1>2, <1>3, <1>4 DEF AchInv

LEMMA BadgeDoneStep ==
  ASSUME AchInv, NEW r \in answered, BadgeDone(r) PROVE AchInv'
<1> USE DEF AchInv, BadgeDone, Pumped, PumpFrame, hashVars, boundVars
<1>1. AchTypes' /\ HashInv'
  BY DEF AchTypes, Waits, HashInv, HashTargets, Handover, Following
<1>2. LoginInv'
  BY DEF LoginInv, Waiting, OneLogin
<1>3. OneBadge'
  BY DEF OneBadge
<1> QED BY <1>1, <1>2, <1>3

LEMMA WantBadgeStep ==
  ASSUME AchInv, WantBadge PROVE AchInv'
<1> USE DEF AchInv, WantBadge, rcVars, hashVars, historyVars, boundVars
<1> DEFINE q == Request("badge", NoMedia)
<1>1. q \in Requests /\ q.kind = "badge" /\ q.path = NoMedia
  BY DEF Request, Requests, Places
<1>2. \/ badge' = "ready" /\ inFlight' = inFlight
      \/ badge' = "loading" /\ inFlight' = inFlight \cup {q}
  OBVIOUS
<1> HIDE DEF q
<1>3. AchTypes' /\ HashInv'
  BY <1>1, <1>2 DEF AchTypes, Waits, HashInv, HashTargets, Handover, Following
<1>4. LoginInv'
  BY <1>1, <1>2 DEF LoginInv, Waiting, OneLogin
<1>5. OneBadge'
  BY <1>1, <1>2 DEF OneBadge
<1> QED BY <1>3, <1>4, <1>5

LEMMA ToggleStep ==
  ASSUME AchInv, Toggle PROVE AchInv'
<1> USE DEF AchInv, Toggle, ShutdownBegin, rcVars, historyVars
<1>4. achPc' \in Waits /\ achPc'.at = "end"
  BY EndWait
<1>1. AchTypes'
  BY <1>4 DEF AchTypes
<1>2. HashInv'
  BY <1>4 DEF HashInv, HashTargets, Handover, Following
<1>3. LoginInv' /\ OneBadge'
  BY DEF LoginInv, Waiting, OneLogin, OneBadge
<1> QED BY <1>1, <1>2, <1>3

LEMMA ShutdownJoinStep ==
  ASSUME AchInv, ShutdownJoin PROVE AchInv'
<1> USE DEF AchInv, ShutdownJoin, boundVars
<1> DEFINE q == Request("login", NoMedia)
<1>1. q \in Requests /\ q.kind = "login" /\ q.path = NoMedia
  BY DEF Request, Requests, Places
<1>2. \/ /\ client' = FALSE /\ login' = "none" /\ content' = NoMedia
         /\ told' = NoMedia /\ inFlight' = {}
      \/ /\ client' = TRUE /\ login' = "pending" /\ content' = Original
         /\ told' = Original /\ inFlight' = {q}
  OBVIOUS
<1> HIDE DEF q
<1>3. AchTypes'
  BY <1>1, <1>2, AchievementsAssumption
  DEF AchTypes, Waits, Free, NoHash, Hashes, Places
<1>4. HashInv'
  BY <1>2 DEF HashInv, HashTargets, Handover, Following, Free, Working
<1>5. LoginInv'
  BY <1>1, <1>2 DEF LoginInv, Waiting, OneLogin
<1>6. OneBadge'
  BY <1>1, <1>2 DEF OneBadge, BadgeLeft
<1> QED BY <1>3, <1>4, <1>5, <1>6

LEMMA InsertDiscStep ==
  ASSUME AchInv, NEW path \in Media, InsertDisc(path) PROVE AchInv'
<1> USE DEF AchInv, hashVars
<1>1. UNCHANGED <<client, login, game, loading, inFlight, answered, badge,
                  asked>> /\ achPc.at = "free" /\ path \in Places
  BY DEF InsertDisc, Idle, Places
<1>2. UNCHANGED <<hashPc, hashJob, completed>>
  BY DEF InsertDisc, ChangeMedia, HashStart
<1>3. \/ UNCHANGED <<achPc, content, hashCancel, told>>
      \/ /\ login = "pending" /\ told' = path /\ content' = path
         /\ UNCHANGED <<achPc, hashCancel>>
      \/ /\ told' = path /\ content' \in {content, path}
         /\ hashCancel' = TRUE /\ login # "pending"
         /\ achPc' \in Waits /\ achPc'.at = "hash"
         /\ achPc'.job.path = path
  <2>1. ASSUME HashStart(path, TRUE) \/ HashStart(path, FALSE)
        PROVE  /\ achPc' \in Waits /\ achPc'.at = "hash"
               /\ achPc'.job.path = path
    <3>1. \/ achPc' = [Free EXCEPT !.at = "hash",
                         !.job = [path |-> path, change |-> TRUE]]
          \/ achPc' = [Free EXCEPT !.at = "hash",
                         !.job = [path |-> path, change |-> FALSE]]
      BY <2>1 DEF HashStart
    <3> QED BY <1>1, <3>1, HashWait
  <2>2. HashStart(path, TRUE) \/ HashStart(path, FALSE) => hashCancel' = TRUE
    BY DEF HashStart
  <2> QED BY <2>1, <2>2 DEF InsertDisc, ChangeMedia, LoginInv, Waiting
<1>4. AchTypes'
  BY <1>1, <1>2, <1>3 DEF AchTypes
<1>5. HashInv'
  BY <1>1, <1>2, <1>3 DEF HashInv, HashTargets, Handover, Following
<1>6. LoginInv' /\ OneBadge'
  BY <1>1, <1>3 DEF LoginInv, Waiting, OneLogin, OneBadge
<1> QED BY <1>4, <1>5, <1>6

-----------------------------------------------------------------------------
(* The theorems.                                                           *)

LEMMA AchInvNext == AchInv /\ [AchNext]_achVars => AchInv'
<1> SUFFICES ASSUME AchInv, [AchNext]_achVars PROVE AchInv'
  OBVIOUS
<1>1. CASE Threads
  BY <1>1, HashThreadStep, AnswerStep DEF Threads
<1>2. CASE Pump
  BY <1>2, PumpTakeStep, LoginCompleteStep, GameStep, BadgeDoneStep DEF Pump
<1>3. CASE Joins
  BY <1>3, HashJoinStep, PumpHashStep, ShutdownJoinStep DEF Joins
<1>4. CASE WantBadge \/ Toggle
  BY <1>4, WantBadgeStep, ToggleStep
<1>5. CASE \E path \in Media : InsertDisc(path)
  BY <1>5, InsertDiscStep
<1>6. CASE UNCHANGED achVars
  BY <1>6 DEF achVars, rcVars, hashVars, historyVars, boundVars, AchInv,
    AchTypes, HashInv, HashTargets, Handover, Following, LoginInv, Waiting,
    OneLogin, OneBadge
<1> QED BY <1>1, <1>2, <1>3, <1>4, <1>5, <1>6 DEF AchNext

LEMMA AchInvHolds == AchSpec => []AchInv
BY AchInvInit, AchInvNext, PTL DEF AchSpec

\* Only a media announced last reaches the client: by a hash that was pumped
\* or by the end of the login; the service that ends gives it up.
THEOREM NoStaleHashHolds == AchSpec => NoStaleHash
<1>1. AchInv /\ [AchNext]_achVars
        => [asked' # asked => asked' \in {told, NoMedia}]_asked
  <2> SUFFICES ASSUME AchInv, [AchNext]_achVars, asked' # asked
               PROVE  asked' \in {told, NoMedia}
    OBVIOUS
  <2>1. CASE PumpHash
    BY <2>1, PumpHashAsks
  <2>2. ASSUME NEW r \in answered, LoginComplete(r) PROVE asked' = told
    BY <2>2 DEF LoginComplete, Identify, HashStart, AchInv, LoginInv,
                OneLogin, Waiting
  <2>3. CASE ShutdownJoin
    BY <2>3 DEF ShutdownJoin
  <2>4. PumpHash \/ ShutdownJoin \/ \E r \in answered : LoginComplete(r)
    BY DEF AchNext, Threads, Hash, HashCheck, HashPublish, Answer, Pump, Joins,
      HashJoin, PumpTake, GameLoaded, MediaChanged, BadgeDone, WantBadge,
      Toggle, ShutdownBegin, InsertDisc, ThreadFrame, historyVars, achVars
  <2> QED BY <2>1, <2>2, <2>3, <2>4
<1> QED BY <1>1, AchInvHolds, PTL DEF AchSpec, NoStaleHash

\* The invariant says it, with the cardinalities counted out.
THEOREM NothingForgottenHolds == AchSpec => []NothingForgotten
<1>1. AchInv => MediaFollows
  BY DEF AchInv, AchTypes, HashInv, Following, MediaFollows, Idle, Working
<1>2. AchInv => BadgeSettles
  <2> SUFFICES ASSUME AchInv PROVE BadgeSettles
    OBVIOUS
  <2> DEFINE R == {r \in inFlight : r.kind = "badge"}
             A == {r \in answered : r.request.kind = "badge"}
  <2>1. Cardinality({}) = 0
    BY FS_EmptySet
  <2>2. ((badge = "loading") = (Cardinality(R) + Cardinality(A) = 1))
          => BadgeSettles
    BY Zenon DEF BadgeSettles
  <2>3. CASE badge # "loading"
    <3>1. R = {} /\ A = {}
      BY <2>3 DEF AchInv, OneBadge
    <3>2. Cardinality(R) = 0 /\ Cardinality(A) = 0
      BY <2>1, <3>1
    <3> HIDE DEF R, A
    <3> QED BY <2>3, <2>2, <3>2
  <2>4. CASE badge = "loading" /\ \E a \in answered : a.request.kind = "badge"
    <3>1. PICK a \in answered : a.request.kind = "badge"
      BY <2>4
    <3>2. A = {a} /\ R = {}
      BY <3>1 DEF AchInv, OneBadge
    <3> HIDE DEF R, A
    <3>3. Cardinality(R) = 0 /\ Cardinality(A) = 1
      BY <2>1, <3>2, FS_Singleton
    <3> QED BY <2>4, <2>2, <3>3
  <2>5. CASE badge = "loading" /\ \E r \in inFlight : r.kind = "badge"
    <3>1. PICK r \in inFlight : r.kind = "badge"
      BY <2>5
    <3>2. r = Request("badge", NoMedia) /\ A = {}
      BY <3>1 DEF AchInv, AchTypes, Requests, Request, OneBadge
    <3>3. R = {r}
      BY <3>1, <3>2 DEF AchInv, AchTypes, Requests, Request, OneBadge
    <3> HIDE DEF R, A
    <3>4. Cardinality(R) = 1 /\ Cardinality(A) = 0
      BY <2>1, <3>2, <3>3, FS_Singleton
    <3> QED BY <2>5, <2>2, <3>4
  <2> QED BY <2>3, <2>4, <2>5 DEF AchInv, OneBadge
<1> QED BY <1>1, <1>2, AchInvHolds, PTL DEF NothingForgotten

-----------------------------------------------------------------------------
(* The loop of main: the pause and the buttons of the menu.                *)

UiFlags == [pause : BOOLEAN, inputPause : BOOLEAN, info : BOOLEAN,
            credits : BOOLEAN, ffwd : BOOLEAN, drm : BOOLEAN,
            loading : BOOLEAN, modal : BOOLEAN, exit : BOOLEAN,
            exitFirst : BOOLEAN]

LoopTypes ==
  /\ ui \in UiFlags /\ savedFfwd \in BOOLEAN
  /\ drawn \in BOOLEAN /\ latch \in BOOLEAN /\ unseen \in BOOLEAN
  /\ painter \in {"idle", "job", "pause", "play"}
  /\ polled \in {"no", "polled", "read"} /\ held \in {"none", "game", "page"}

\* The diagnostic has no page open beside it, and no write of the pause under
\* way.
TestApart == ui.drm => ~ui.info /\ ~ui.modal /\ painter # "pause"

\* What was drawn last has the pause it asks for, and a job that the worker
\* still has asked for none.
PauseDrawn ==
  drawn => /\ ui.inputPause /\ ~ui.drm => ui.pause
           /\ painter # "idle" => ~ui.inputPause /\ ~ui.info

\* A page that is open, and a control held down since one was, are kept from
\* the core, or will be when it reads what it has just polled.
PageLatched ==
  PageOpen(ui) \/ held = "page" =>
    \/ latch \/ unseen
    \/ PageOpen(ui) /\ loopPc = "core" /\ polled = "polled"

LoopInv == LoopTypes /\ TestApart /\ PauseDrawn /\ PageLatched

-----------------------------------------------------------------------------
(* What the buttons do to the flags.                                       *)

LEMMA HotkeysDo ==
  ASSUME NEW u \in UiFlags, NEW v \in Hotkeys(u)
  PROVE  /\ v \in UiFlags /\ v.drm = u.drm /\ v.modal = u.modal
         /\ v.info # u.info => v.pause = v.info
         /\ v.info = u.info /\ v.inputPause = u.inputPause
              => v.pause = u.pause
<1>1. CASE v = u
  BY <1>1
<1>2. CASE v = ToggleInfo(u)
  BY <1>2 DEF ToggleInfo, UiFlags
<1>3. CASE v \in HoldExit(u)
  BY <1>3 DEF HoldExit, UiFlags
<1>4. CASE v = TogglePause(u)
  BY <1>4 DEF TogglePause, UiFlags
<1>5. CASE v = [u EXCEPT !.ffwd = ~u.ffwd]
  BY <1>5 DEF UiFlags
<1> QED
  BY <1>1, <1>2, <1>3, <1>4, <1>5 DEF Hotkeys

LEMMA MenuActionsDo ==
  ASSUME NEW u \in UiFlags, u.info, NEW v \in MenuActions(u)
  PROVE  /\ v \in UiFlags /\ v.drm = u.drm /\ v.inputPause = u.inputPause
         /\ v.info => v.pause = u.pause
         /\ v.modal => v.modal = u.modal \/ v.info
<1>1. \/ v = u \/ v = Closed(u) \/ v = [u EXCEPT !.credits = TRUE]
      \/ v = [u EXCEPT !.info = FALSE] \/ v = [u EXCEPT !.modal = TRUE]
  BY DEF MenuActions
<1> QED
  BY <1>1 DEF Closed, UiFlags

\* A poll: the pause changes with the page or the user's pause only, or to
\* what the menu asks for; a page is opened from the menu only.
Answers(u, v) ==
  /\ v \in UiFlags /\ v.drm = u.drm
  /\ v.info = u.info /\ v.inputPause = u.inputPause /\ u.pause => v.pause
  /\ v.modal => u.modal \/ u.info
  /\ u.modal => v.info = u.info

LEMMA PolledDo ==
  ASSUME NEW u \in UiFlags, NEW b \in Begun(u), NEW v \in Polled(b)
  PROVE  Answers(u, v)
<1>1. /\ b \in UiFlags /\ b.drm = u.drm /\ b.info = u.info
      /\ b.inputPause = u.inputPause /\ b.pause = u.pause
      /\ b.modal = u.modal /\ b.credits = u.credits
  BY DEF Begun, UiFlags
<1>2. CASE b.modal
  <2>1. v = b \/ v = [b EXCEPT !.modal = FALSE]
    BY <1>2 DEF Polled
  <2> QED
    BY <1>1, <1>2, <2>1 DEF Answers, UiFlags
<1>3. CASE ~b.modal /\ b.credits
  <2>1. PICK c \in {b, [b EXCEPT !.credits = FALSE]} : v \in Hotkeys(c)
    BY <1>3 DEF Polled
  <2>2. /\ c \in UiFlags /\ c.drm = b.drm /\ c.info = b.info
        /\ c.inputPause = b.inputPause /\ c.pause = b.pause
        /\ c.modal = b.modal
    BY <1>1, <2>1 DEF UiFlags
  <2> QED
    BY <1>1, <1>3, <2>1, <2>2, HotkeysDo DEF Answers
<1>4. CASE ~b.modal /\ ~b.credits /\ b.info
  <2>1. PICK c \in MenuActions(b) : v \in AfterMenu(c)
    BY <1>4 DEF Polled
  <2>2. /\ c \in UiFlags /\ c.drm = b.drm /\ c.inputPause = b.inputPause
        /\ c.info => c.pause = b.pause
        /\ c.modal => c.modal = b.modal \/ c.info
    BY <1>1, <1>4, <2>1, MenuActionsDo
  <2>3. CASE c.modal
    <3>1. v = c
      BY <2>1, <2>3 DEF AfterMenu
    <3> QED
      BY <1>1, <1>4, <2>2, <2>3, <3>1 DEF Answers
  <2>4. CASE ~c.modal
    <3>1. v \in Hotkeys(c)
      BY <2>1, <2>4 DEF AfterMenu
    <3>2. /\ v \in UiFlags /\ v.drm = c.drm /\ v.modal = c.modal
          /\ v.info # c.info => v.pause = v.info
          /\ v.info = c.info /\ v.inputPause = c.inputPause
               => v.pause = c.pause
      BY <2>2, <3>1, HotkeysDo
    <3> QED
      BY <1>1, <1>4, <2>2, <2>4, <3>2 DEF Answers, UiFlags
  <2> QED
    BY <2>3, <2>4
<1>5. CASE ~b.modal /\ ~b.credits /\ ~b.info
  <2>1. v \in Hotkeys(b)
    BY <1>5 DEF Polled
  <2> QED
    BY <1>1, <1>5, <2>1, HotkeysDo DEF Answers
<1> QED
  BY <1>2, <1>3, <1>4, <1>5

-----------------------------------------------------------------------------
(* The steps.                                                              *)

\* A poll, wherever main does it: what was drawn does not count once the page
\* or the user's pause changes, a page is opened from the menu, and the menu
\* by its hotkey or in the place of the one that is open.
LEMMA PollDoes ==
  ASSUME LoopInv, Poll
  PROVE  /\ ui' \in UiFlags /\ savedFfwd' \in BOOLEAN /\ drawn' \in BOOLEAN
         /\ held' \in {"none", "game", "page"}
         /\ unseen' = IF ui'.info /\ ~ui.info THEN loopPc # "core" ELSE unseen
         /\ drawn' => /\ drawn /\ ui'.info = ui.info
                      /\ ui'.inputPause = ui.inputPause /\ ui'.drm = ui.drm
                      /\ ui.inputPause /\ ui.pause => ui'.pause
         /\ ui.drm => ui' = ui
         /\ ui'.drm => \/ ui.drm
                       \/ drawn /\ ui.info /\ ~ui'.info /\ ~ui'.modal
                          /\ ~ui'.pause
         /\ ui.modal => ui'.info = ui.info
         /\ ui'.modal => PageOpen(ui)
         /\ held' = "page" => PageOpen(ui) \/ PageOpen(ui') \/ held = "page"
<1>1. /\ ui \in UiFlags /\ savedFfwd \in BOOLEAN /\ drawn \in BOOLEAN
      /\ held \in {"none", "game", "page"}
  BY DEF LoopInv, LoopTypes
<1>2. ASSUME NEW u, SetUi(u), Held(u)
      PROVE  /\ ui' = u /\ drawn' \in BOOLEAN
             /\ held' \in {"none", "game", "page"}
             /\ unseen' = IF u.info /\ ~ui.info THEN loopPc # "core"
                          ELSE unseen
             /\ drawn' => /\ drawn /\ u.info = ui.info
                          /\ u.inputPause = ui.inputPause
             /\ held' = "page" => PageOpen(ui) \/ PageOpen(u) \/ held = "page"
  BY <1>1, <1>2 DEF SetUi, Held
<1>3. CASE /\ ui.drm /\ SetUi(ui) /\ Held(ui)
           /\ UNCHANGED <<isRunning, savedFfwd>>
  BY <1>1, <1>2, <1>3 DEF PageOpen
<1>4. ASSUME ~ui.drm, NEW b \in Begun(ui), NEW u \in Polled(b), SetUi(u),
             Held(u), UNCHANGED <<isRunning, savedFfwd>>
      PROVE  /\ Answers(ui, u) /\ ui' = u /\ savedFfwd' = savedFfwd
  BY <1>1, <1>2, <1>4, PolledDo
<1>5. CASE /\ ~ui.drm
           /\ \E b \in Begun(ui) : \E u \in Polled(b) : SetUi(u) /\ Held(u)
           /\ UNCHANGED <<isRunning, savedFfwd>>
  <2>1. PICK b \in Begun(ui) : \E u \in Polled(b) : SetUi(u) /\ Held(u)
    BY <1>5
  <2>3. PICK u \in Polled(b) : SetUi(u) /\ Held(u)
    BY <2>1
  <2>2. Answers(ui, u) /\ ui' = u /\ savedFfwd' = savedFfwd
    BY <1>4, <1>5, <2>3
  <2> QED
    BY <1>1, <1>2, <1>5, <2>2, <2>3 DEF Answers, PageOpen
<1>6. CASE /\ ~ui.drm /\ ui.info /\ ~ui.credits /\ ~ui.modal /\ drawn
           /\ \/ isRunning' = FALSE /\ SetUi(ui) /\ UNCHANGED savedFfwd
              \/ /\ SetUi(Diagnostic(ui)) /\ savedFfwd' = ui.ffwd
                 /\ UNCHANGED isRunning
           /\ Held(ui')
  <2>1. CASE SetUi(ui) /\ UNCHANGED savedFfwd
    <3>1. Held(ui)
      BY <1>6, <2>1 DEF SetUi
    <3> QED
      BY <1>1, <1>2, <1>6, <2>1, <3>1 DEF PageOpen
  <2>2. CASE SetUi(Diagnostic(ui)) /\ savedFfwd' = ui.ffwd
    <3> DEFINE u == Diagnostic(ui)
    <3>1. /\ u \in UiFlags /\ u.drm /\ ~u.info /\ u.modal = ui.modal
          /\ ~u.pause /\ ui.ffwd \in BOOLEAN
      BY <1>1 DEF Diagnostic, UiFlags
    <3>2. SetUi(u) /\ Held(u)
      BY <1>6, <2>2 DEF SetUi
    <3> HIDE DEF u
    <3>3. u.info # ui.info
      BY <1>6, <3>1
    <3> QED
      BY <1>1, <1>2, <1>6, <2>2, <3>1, <3>2, <3>3 DEF PageOpen
  <2> QED
    BY <1>6, <2>1, <2>2
<1> QED
  BY <1>3, <1>5, <1>6 DEF Poll

\* A poll keeps the invariant: while the core runs, what it opens will be
\* latched when the core reads; elsewhere the menu it opens is unseen.
LEMMA PollKeeps ==
  ASSUME LoopInv, Poll, UNCHANGED <<painter, latch>>,
         \/ loopPc # "core" /\ polled' = polled
         \/ loopPc = "core" /\ loopPc' = "core"
              /\ polled # "polled" /\ polled' = "polled"
  PROVE  LoopInv'
<1>1. LoopTypes'
  BY PollDoes DEF LoopInv, LoopTypes
<1>2. TestApart'
  BY PollDoes DEF LoopInv, LoopTypes, TestApart, PauseDrawn
<1>3. PauseDrawn'
  BY PollDoes DEF LoopInv, LoopTypes, PauseDrawn
<1>4. PageLatched'
  BY PollDoes DEF LoopInv, LoopTypes, PageLatched, PageOpen
<1> QED
  BY <1>1, <1>2, <1>3, <1>4 DEF LoopInv

\* Main draws.
LEMMA DrawKeeps ==
  ASSUME LoopInv, Draw,
         UNCHANGED <<savedFfwd, painter, polled, held, latch, unseen>>,
         \/ loopPc' = loopPc
         \/ loopPc # "core"
  PROVE  LoopInv'
<1>1. /\ ui \in UiFlags /\ drawn' = TRUE /\ painter = "idle"
      /\ ui' = [ui EXCEPT !.pause = PauseWanted(ui), !.loading = FALSE]
      /\ PauseWanted(ui) \in BOOLEAN
  BY DEF LoopInv, LoopTypes, Draw, PauseWanted, UiFlags
<1>2. /\ ui' \in UiFlags /\ ui'.info = ui.info /\ ui'.modal = ui.modal
      /\ ui'.drm = ui.drm /\ ui'.inputPause = ui.inputPause
      /\ ui.inputPause /\ ~ui.drm => ui'.pause
  BY <1>1 DEF UiFlags, PauseWanted
<1>3. LoopTypes'
  BY <1>1, <1>2 DEF LoopInv, LoopTypes
<1>4. TestApart' /\ PauseDrawn'
  BY <1>1, <1>2 DEF LoopInv, TestApart, PauseDrawn
<1>5. PageLatched'
  BY <1>1, <1>2 DEF LoopInv, PageLatched, PageOpen
<1> QED
  BY <1>3, <1>4, <1>5 DEF LoopInv

\* The worker.
LEMMA PainterKeeps ==
  ASSUME LoopInv, Painter
  PROVE  LoopInv'
<1>1. ui \in UiFlags
  BY DEF LoopInv, LoopTypes
<1>2. CASE PaintRead
  <2>1. /\ painter = "job"
        /\ painter' = IF PauseWanted(ui) THEN "pause" ELSE "play"
        /\ UNCHANGED <<loopPc, ui, savedFfwd, polled, held, latch, unseen,
                       drawn>>
    BY <1>2 DEF PaintRead
  <2>2. ui.drm => painter' # "pause"
    BY <2>1 DEF PauseWanted
  <2> QED
    BY <2>1, <2>2 DEF LoopInv, LoopTypes, TestApart, PauseDrawn, PageLatched
<1>3. CASE PaintWrite
  <2>1. /\ painter \in {"pause", "play"} /\ painter' = "idle"
        /\ ui' = [ui EXCEPT !.pause = (painter = "pause")]
        /\ UNCHANGED <<loopPc, savedFfwd, polled, held, latch, unseen, drawn>>
    BY <1>3 DEF PaintWrite
  <2>2. /\ ui' \in UiFlags /\ ui'.info = ui.info /\ ui'.modal = ui.modal
        /\ ui'.drm = ui.drm /\ ui'.inputPause = ui.inputPause
    BY <1>1, <2>1 DEF UiFlags
  <2>3. LoopTypes'
    BY <2>1, <2>2 DEF LoopInv, LoopTypes
  <2>4. TestApart' /\ PauseDrawn'
    BY <2>1, <2>2 DEF LoopInv, TestApart, PauseDrawn
  <2>5. PageLatched'
    BY <2>1, <2>2 DEF LoopInv, PageLatched, PageOpen
  <2> QED
    BY <2>3, <2>4, <2>5 DEF LoopInv
<1> QED
  BY <1>2, <1>3 DEF Painter

\* An iteration begins.
LEMMA IterateKeeps ==
  ASSUME LoopInv, Iterate
  PROVE  LoopInv'
<1> DEFINE u == IF measuring THEN Cleared(ui) ELSE ui
<1>1. /\ ui \in UiFlags /\ savedFfwd \in BOOLEAN /\ drawn \in BOOLEAN
      /\ unseen \in BOOLEAN
  BY DEF LoopInv, LoopTypes
<1>2. /\ loopPc = "top" /\ polled' = "no"
      /\ UNCHANGED <<savedFfwd, painter, held, latch>>
      /\ Enter(u) \/ (u.drm /\ Enter(Results(u)))
  BY DEF Iterate
<1>3. /\ u \in UiFlags /\ u.drm = ui.drm /\ u.modal = ui.modal
      /\ u.info => ui.info
      /\ u.inputPause /\ ui.pause => u.pause
  BY <1>1 DEF Cleared, UiFlags
<1> HIDE DEF u
<1>4. ASSUME NEW v, Enter(v)
      PROVE  /\ ui' = v /\ drawn' \in BOOLEAN
             /\ unseen' = IF v.info /\ ~ui.info THEN TRUE ELSE unseen
             /\ drawn' => /\ drawn /\ v.info = ui.info
                          /\ v.inputPause = ui.inputPause
  BY <1>1, <1>2, <1>4 DEF Enter, SetUi
<1>5. CASE Enter(u)
  <2>1. LoopTypes'
    BY <1>1, <1>2, <1>3, <1>4, <1>5 DEF LoopInv, LoopTypes
  <2>2. TestApart' /\ PauseDrawn'
    BY <1>2, <1>3, <1>4, <1>5 DEF LoopInv, TestApart, PauseDrawn
  <2>3. PageLatched'
    BY <1>2, <1>3, <1>4, <1>5 DEF LoopInv, PageLatched, PageOpen
  <2> QED
    BY <2>1, <2>2, <2>3 DEF LoopInv
<1>6. CASE u.drm /\ Enter(Results(u))
  <2> DEFINE v == Results(u)
  <2>1. /\ v \in UiFlags /\ ~v.drm /\ v.info /\ v.modal = u.modal
    BY <1>1, <1>3 DEF Results, UiFlags
  <2>2. /\ ui' = v /\ drawn' \in BOOLEAN
        /\ unseen' = IF v.info /\ ~ui.info THEN TRUE ELSE unseen
        /\ drawn' => drawn /\ v.info = ui.info
    BY <1>4, <1>6
  <2> HIDE DEF v
  <2>3. ~ui.info
    BY <1>3, <1>6 DEF LoopInv, TestApart
  <2>4. drawn' = FALSE /\ unseen' = TRUE
    BY <2>1, <2>2, <2>3
  <2>5. LoopTypes'
    BY <1>1, <1>2, <2>1, <2>2, <2>4 DEF LoopInv, LoopTypes
  <2>6. TestApart' /\ PauseDrawn' /\ PageLatched'
    BY <2>1, <2>2, <2>4 DEF TestApart, PauseDrawn, PageLatched
  <2> QED
    BY <2>5, <2>6 DEF LoopInv
<1> QED
  BY <1>2, <1>5, <1>6

\* The core reads, sets fast-forward or returns.
LEMMA CoreReadsKeeps ==
  ASSUME LoopInv, CoreReads
  PROVE  LoopInv'
<1>1. /\ loopPc = "core" /\ polled = "polled" /\ polled' = "read"
      /\ latch' = (IF ui.drm THEN latch ELSE Captured)
      /\ UNCHANGED <<ui, savedFfwd, painter, held, unseen, drawn>>
  BY DEF CoreReads
<1>2. ui \in UiFlags /\ latch \in BOOLEAN
  BY DEF LoopInv, LoopTypes
<1>3. Captured \in BOOLEAN
  BY <1>2 DEF Captured, PageOpen, UiFlags
<1>4. LoopTypes'
  BY <1>1, <1>2, <1>3 DEF LoopInv, LoopTypes
<1>5. TestApart' /\ PauseDrawn'
  BY <1>1 DEF LoopInv, TestApart, PauseDrawn
<1>6. PageLatched'
  BY <1>1 DEF LoopInv, TestApart, PageLatched, PageOpen, Captured
<1> QED
  BY <1>4, <1>5, <1>6 DEF LoopInv

LEMMA OverrideKeeps ==
  ASSUME LoopInv, Override
  PROVE  LoopInv'
<1>1. PICK f \in BOOLEAN : SetUi([ui EXCEPT !.ffwd = f])
  BY DEF Override
<1> DEFINE u == [ui EXCEPT !.ffwd = f]
<1>2. /\ ui \in UiFlags /\ u \in UiFlags /\ u.info = ui.info
      /\ u.modal = ui.modal /\ u.drm = ui.drm
      /\ u.inputPause = ui.inputPause /\ u.pause = ui.pause
  BY DEF LoopInv, LoopTypes, UiFlags
<1> HIDE DEF u
<1>3. ui' = u /\ drawn' = drawn /\ unseen' = unseen
  BY <1>1, <1>2 DEF SetUi, LoopInv, LoopTypes, u
<1>4. UNCHANGED <<loopPc, savedFfwd, polled, painter, held, latch>>
  BY DEF Override
<1>5. LoopTypes'
  BY <1>2, <1>3, <1>4 DEF LoopInv, LoopTypes
<1>6. TestApart' /\ PauseDrawn'
  BY <1>2, <1>3, <1>4 DEF LoopInv, TestApart, PauseDrawn
<1>7. PageLatched'
  BY <1>2, <1>3, <1>4 DEF LoopInv, PageLatched, PageOpen
<1> QED
  BY <1>5, <1>6, <1>7 DEF LoopInv

\* The requests at the end of an iteration close the menu or end the pause.
LEMMA EndIterationKeeps ==
  ASSUME LoopInv, EndIteration
  PROVE  LoopInv'
<1>1. /\ ui \in UiFlags /\ drawn \in BOOLEAN /\ loopPc = "end"
      /\ UNCHANGED <<savedFfwd, polled, painter, held, latch>>
  BY DEF EndIteration, LoopInv, LoopTypes
<1>2. \E v \in UiFlags :
        /\ SetUi(v) /\ v.drm = ui.drm /\ v.modal = ui.modal
        /\ v.info => ui.info
        /\ v.inputPause /\ ui.pause => v.pause
  <2>1. PICK u \in {ui, [ui EXCEPT !.inputPause = FALSE, !.pause = FALSE]} :
          SetUi(u) \/ SetUi(Closed(u))
    BY DEF EndIteration
  <2>2. /\ u \in UiFlags /\ u.drm = ui.drm /\ u.modal = ui.modal
        /\ u.info = ui.info
        /\ u.inputPause /\ ui.pause => u.pause
    BY <1>1, <2>1 DEF UiFlags
  <2>3. /\ Closed(u) \in UiFlags /\ Closed(u).drm = u.drm
        /\ Closed(u).modal = u.modal /\ ~Closed(u).info
        /\ Closed(u).inputPause => Closed(u).pause
    BY <2>2 DEF Closed, UiFlags
  <2>4. CASE SetUi(u)
    BY <2>2, <2>4
  <2>5. CASE SetUi(Closed(u))
    <3> DEFINE v == Closed(u)
    <3>1. /\ v \in UiFlags /\ v.drm = ui.drm /\ v.modal = ui.modal
          /\ ~v.info /\ (v.inputPause => v.pause) /\ SetUi(v)
      BY <2>2, <2>3, <2>5
    <3> HIDE DEF v
    <3> QED
      BY <3>1
  <2> QED
    BY <2>1, <2>4, <2>5
<1>3. PICK v \in UiFlags :
        /\ SetUi(v) /\ v.drm = ui.drm /\ v.modal = ui.modal
        /\ v.info => ui.info
        /\ v.inputPause /\ ui.pause => v.pause
  BY <1>2
<1>4. /\ ui' = v /\ drawn' \in BOOLEAN /\ unseen' = unseen
      /\ drawn' => /\ drawn /\ v.info = ui.info
                   /\ v.inputPause = ui.inputPause
  BY <1>1, <1>3 DEF SetUi
<1>5. LoopTypes'
  BY <1>1, <1>4 DEF LoopInv, LoopTypes
<1>6. TestApart' /\ PauseDrawn'
  BY <1>1, <1>3, <1>4 DEF LoopInv, TestApart, PauseDrawn
<1>7. PageLatched'
  BY <1>1, <1>3, <1>4 DEF LoopInv, PageLatched, PageOpen
<1> QED
  BY <1>5, <1>6, <1>7 DEF LoopInv

LEMMA LoopInvNext ==
  ASSUME LoopInv, [LoopNext]_loopVars
  PROVE  LoopInv'
<1>1. CASE UNCHANGED loopVars
  BY <1>1 DEF loopVars, LoopInv, LoopTypes, TestApart, PauseDrawn,
              PageLatched
<1>2. CASE Iterate
  BY <1>2, IterateKeeps
<1>3. CASE Leave \/ Deadline \/ Update
  <2>1. /\ UNCHANGED <<ui, savedFfwd, polled, painter, held, latch, unseen,
                       drawn>>
        /\ loopPc # "core"
    BY <1>3 DEF Leave, Deadline, Update
  <2> QED
    BY <2>1 DEF LoopInv, LoopTypes, TestApart, PauseDrawn, PageLatched
<1>4. CASE MenuPoll \/ PausedPoll \/ FallbackPoll
  <2>1. Poll /\ UNCHANGED <<painter, latch, polled>> /\ loopPc # "core"
    BY <1>4 DEF MenuPoll, PausedPoll, FallbackPoll, PollFrame
  <2> QED
    BY <2>1, PollKeeps
<1>5. CASE CorePoll
  <2>1. /\ Poll /\ UNCHANGED <<painter, latch>> /\ loopPc = "core"
        /\ loopPc' = "core" /\ polled # "polled" /\ polled' = "polled"
    BY <1>5 DEF CorePoll, PollFrame
  <2> QED
    BY <2>1, PollKeeps
<1>6. CASE MenuDraw
  BY <1>6, DrawKeeps DEF MenuDraw
<1>7. CASE CoreReads
  BY <1>7, CoreReadsKeeps
<1>8. CASE CoreReturns
  <2>1. /\ UNCHANGED <<ui, savedFfwd, polled, painter, held, latch, unseen,
                       drawn>>
        /\ polled # "polled"
    BY <1>8 DEF CoreReturns
  <2> QED
    BY <2>1 DEF LoopInv, LoopTypes, TestApart, PauseDrawn, PageLatched
<1>9. CASE EndIteration
  BY <1>9, EndIterationKeeps
<1>10. CASE Refresh
  <2>1. CASE Draw /\ UNCHANGED painter
    BY <1>10, <2>1, DrawKeeps DEF Refresh
  <2>2. CASE Threaded /\ painter = "idle" /\ painter' = "job"
               /\ UNCHANGED <<ui, drawn>>
    <3>1. ~ui.inputPause /\ ~ui.info
      BY <2>2 DEF Threaded, PageOpen
    <3>2. UNCHANGED <<loopPc, ui, savedFfwd, polled, held, latch, unseen,
                      drawn>>
      BY <1>10, <2>2 DEF Refresh
    <3> QED
      BY <2>2, <3>1, <3>2 DEF LoopInv, LoopTypes, TestApart, PauseDrawn,
                              PageLatched
  <2> QED
    BY <1>10, <2>1, <2>2 DEF Refresh
<1>11. CASE Override
  BY <1>11, OverrideKeeps
<1>12. CASE Painter
  BY <1>12, PainterKeeps
<1> QED
  BY <1>1, <1>2, <1>3, <1>4, <1>5, <1>6, <1>7, <1>8, <1>9, <1>10, <1>11,
     <1>12 DEF LoopNext, Main

LEMMA LoopInvInit == LoopInit => LoopInv
<1> SUFFICES ASSUME LoopInit PROVE LoopInv
  OBVIOUS
<1>1. /\ ui \in UiFlags /\ ~ui.info /\ ~ui.modal /\ ~ui.drm
  <2>1. /\ Quiet \in UiFlags /\ ~Quiet.info /\ ~Quiet.modal /\ ~Quiet.drm
    BY DEF Quiet, UiFlags
  <2>2. ui = Quiet \/ ui = [Quiet EXCEPT !.loading = FALSE]
    BY DEF LoopInit
  <2> QED
    BY <2>1, <2>2 DEF UiFlags
<1>2. LoopTypes
  BY <1>1 DEF LoopInit, LoopTypes
<1>3. TestApart /\ PauseDrawn /\ PageLatched
  BY <1>1 DEF LoopInit, TestApart, PauseDrawn, PageLatched, PageOpen
<1> QED
  BY <1>2, <1>3 DEF LoopInv

LEMMA LoopInvariant == LoopSpec => []LoopInv
BY LoopInvInit, LoopInvNext, PTL DEF LoopSpec

\* A pause that was drawn holds.
LEMMA PauseStep ==
  ASSUME LoopInv, Iterate, loopPc' = "core", ui'.inputPause, ~ui'.drm
  PROVE  ~drawn'
<1> SUFFICES ASSUME drawn' PROVE FALSE
  OBVIOUS
<1> DEFINE u == IF measuring THEN Cleared(ui) ELSE ui
<1>1. ui \in UiFlags /\ (Enter(u) \/ (u.drm /\ Enter(Results(u))))
  BY DEF Iterate, LoopInv, LoopTypes
<1>2. u \in UiFlags /\ u.drm = ui.drm
  BY <1>1 DEF Cleared, UiFlags
<1>3. CASE Enter(u)
  <2>1. ui' = u /\ drawn /\ u.inputPause = ui.inputPause /\ u.inputPause
    BY <1>3 DEF Enter, SetUi
  <2>2. ~ui.drm /\ ui.inputPause
    BY <1>2, <2>1
  <2>3. ui.pause
    BY <2>1, <2>2 DEF LoopInv, PauseDrawn
  <2>4. ~measuring
    BY <1>1, <2>1 DEF Cleared, UiFlags
  <2>5. u.pause /\ u.inputPause
    BY <2>1, <2>3, <2>4
  <2> HIDE DEF u
  <2>6. loopPc' # "core"
    BY <1>3, <2>5 DEF Enter
  <2> QED
    BY <2>6
<1>4. CASE Enter(Results(u))
  <2>1. Results(u).info
    BY <1>2 DEF Results, UiFlags
  <2> HIDE DEF u
  <2>2. loopPc' # "core"
    BY <1>4, <2>1 DEF Enter
  <2> QED
    BY <2>2
<1> QED
  BY <1>1, <1>3, <1>4

\* Nothing but a request at the end of an iteration pauses the diagnostic.
LEMMA TestStep ==
  ASSUME LoopInv, [LoopNext]_loopVars, ui.drm, ui'.drm, ui'.pause, ~ui.pause
  PROVE  EndIteration
<1> SUFFICES ASSUME ~EndIteration PROVE FALSE
  OBVIOUS
<1>1. ui \in UiFlags /\ painter # "pause" /\ ui' # ui
  BY DEF LoopInv, LoopTypes, TestApart
<1>2. ~Poll
  BY <1>1, PollDoes
<1>3. ~Draw
  BY <1>1 DEF Draw, PauseWanted, UiFlags
<1>4. ~PaintWrite
  BY <1>1 DEF PaintWrite, UiFlags
<1>5. ~Override
  <2> SUFFICES ASSUME Override PROVE FALSE
    OBVIOUS
  <2>1. PICK f \in BOOLEAN : ui' = [ui EXCEPT !.ffwd = f]
    BY DEF Override, SetUi
  <2> QED
    BY <1>1, <2>1 DEF UiFlags
<1>6. ~Iterate
  <2> SUFFICES ASSUME Iterate PROVE FALSE
    OBVIOUS
  <2> DEFINE u == IF measuring THEN Cleared(ui) ELSE ui
  <2>1. ui' = u \/ ui' = Results(u)
    BY DEF Iterate, Enter, SetUi
  <2>2. u \in UiFlags /\ (u.pause => ui.pause)
    BY <1>1 DEF Cleared, UiFlags
  <2>3. ~Results(u).drm
    BY <2>2 DEF Results, UiFlags
  <2> QED
    BY <2>1, <2>2, <2>3
<1> QED
  BY <1>1, <1>2, <1>3, <1>4, <1>5, <1>6
     DEF LoopNext, loopVars, Main, Painter, Leave, MenuPoll, MenuDraw,
         PausedPoll, CoreReads, CoreReturns, FallbackPoll, Update, PaintRead,
         Deadline, CorePoll, Refresh

\* A pause that was asked for and drawn stops the game, through pages, the
\* diagnostic and the worker's late write, and none of them pauses the
\* diagnostic.
THEOREM PauseHolds == LoopSpec => PauseHonoured
<1>1. LoopInv /\ [LoopNext]_loopVars =>
        [Iterate /\ loopPc' = "core" /\ ui'.inputPause /\ ~ui'.drm
           => ~drawn']_loopVars
  BY PauseStep
<1>2. LoopInv /\ [LoopNext]_loopVars =>
        [ui.drm /\ ui'.drm /\ ui'.pause => ui.pause \/ EndIteration]_loopVars
  BY TestStep
<1> QED
  BY <1>1, <1>2, LoopInvariant, PTL
     DEF LoopSpec, PauseHonoured, PauseTakesHold, DiagnosticRuns

\* A control that was down while a page was open does not reach the core,
\* whatever opens and closes meanwhile, unless the menu was opened where the
\* core reads nothing.
THEOREM CaptureHolds == LoopSpec => MenuCaptured
<1>1. LoopInv /\ [LoopNext]_loopVars =>
        [CoreReads /\ ~ui.drm /\ held = "page" => latch' \/ unseen]_loopVars
  BY DEF LoopInv, PageLatched, CoreReads, Captured
<1> QED
  BY <1>1, LoopInvariant, PTL DEF LoopSpec, MenuCaptured

-----------------------------------------------------------------------------
(* The OpenAL provider after an underrun.                                  *)

Batches == [batch : Nat, frames : Nat]

Go2Types ==
  /\ queued \in Seq(Batches) /\ produced \in Nat /\ heard \in Nat
  /\ played \in Nat
  /\ source \in {"initial", "playing", "paused", "stopped"}
  /\ submitPc \in {"out", "wait", "start"}

\* What is heard and queued was produced; a batch that is being submitted is
\* the one after them.
Made ==
  /\ heard <= produced
  /\ \A i \in 1 .. Len(queued) : queued[i].batch <= produced
  /\ submitPc = "wait" =>
       /\ heard < produced
       /\ \A i \in 1 .. Len(queued) : queued[i].batch < produced

PlayingIs ==
  /\ source = "playing" => submitted /\ ~prebuffering /\ ~soundPaused
  /\ 1 \in 1 .. Len(queued) => submitted

\* A source that has run dry holds nothing that was heard, or the next
\* submission will find it and take back what it holds.
Unrecovered ==
  /\ submitted /\ ~prebuffering /\ ~soundPaused
  /\ submitPc = "out" /\ controlPc = "out"
Unheard == \A i \in 1 .. Len(queued) : queued[i].batch > heard
DryRecovers == source = "stopped" /\ dry = "idle" => Unheard \/ Unrecovered

Go2Inv == Go2Types /\ Made /\ PlayingIs /\ DryRecovers

\* What is taken back leaves a part of the queue, and of a source that has
\* stopped nothing.
LEMMA ReclaimedIs ==
  ASSUME Go2Types
  PROVE  /\ Reclaimed \in Seq(Batches)
         /\ \A i \in 1 .. Len(Reclaimed) :
              \E j \in 1 .. Len(queued) : Reclaimed[i] = queued[j]
         /\ source = "stopped" => Len(Reclaimed) = 0
<1> DEFINE p == Processed
           n == Len(queued)
<1>1. p \in Nat /\ n \in Nat /\ queued \in Seq(Batches)
  BY DEF Go2Types, Processed
<1>2. \A i \in p + 1 .. n : i \in 1 .. n /\ queued[i] \in Batches
  BY <1>1
<1>3. source = "stopped" => p = n
  BY DEF Processed
<1>4. Reclaimed = SubSeq(queued, p + 1, n)
  BY DEF Reclaimed
<1> HIDE DEF p, n
<1>5. /\ Reclaimed \in Seq(Batches)
      /\ Len(Reclaimed) = IF p + 1 <= n THEN n - (p + 1) + 1 ELSE 0
      /\ \A i \in 1 .. n - (p + 1) + 1 : Reclaimed[i] = queued[p + 1 + i - 1]
  BY <1>1, <1>2, <1>4, SubSeqProperties
<1>6. ASSUME NEW i \in 1 .. Len(Reclaimed)
      PROVE  \E j \in 1 .. n : Reclaimed[i] = queued[j]
  <2>1. i \in 1 .. n - (p + 1) + 1 /\ p + 1 + i - 1 \in 1 .. n
    BY <1>1, <1>5
  <2> QED
    BY <1>5, <2>1
<1> QED
  BY <1>1, <1>3, <1>5, <1>6 DEF n

\* The queue is what it was, or a part of it.
LEMMA PartKept ==
  ASSUME Go2Types, queued' = queued \/ queued' = Reclaimed
  PROVE  /\ queued' \in Seq(Batches)
         /\ \A i \in 1 .. Len(queued') :
              \E j \in 1 .. Len(queued) : queued'[i] = queued[j]
         /\ Unheard /\ heard' = heard => Unheard'
         /\ source = "stopped" /\ queued' = Reclaimed => Unheard'
<1>1. CASE queued' = queued
  <2>1. queued \in Seq(Batches)
    BY DEF Go2Types
  <2>2. source = "stopped" /\ queued = Reclaimed => Len(queued) = 0
    BY ReclaimedIs
  <2> QED
    BY <1>1, <2>1, <2>2 DEF Unheard
<1>2. CASE queued' = Reclaimed
  <2> DEFINE r == Reclaimed
  <2>1. /\ r \in Seq(Batches)
        /\ \A i \in 1 .. Len(r) : \E j \in 1 .. Len(queued) : r[i] = queued[j]
        /\ source = "stopped" => Len(r) = 0
    BY ReclaimedIs
  <2>2. queued' = r
    BY <1>2
  <2> HIDE DEF r
  <2> QED
    BY <2>1, <2>2 DEF Unheard
<1> QED
  BY <1>1, <1>2

\* A batch is submitted.
LEMMA SubmitSteps ==
  ASSUME Go2Inv, SubmitBegin \/ SubmitWait \/ SubmitFails
  PROVE  Go2Inv'
<1>1. /\ Go2Types /\ Made /\ PlayingIs /\ DryRecovers
      /\ UNCHANGED <<source, submitted, soundPaused, controlPc, heard, dry>>
  BY DEF Go2Inv, SubmitBegin, SubmitWait, SubmitFails, Submits, sourceVars
<1>2. /\ queued' = queued \/ queued' = Reclaimed
      /\ played' \in Nat /\ submitPc' \in {"out", "wait"}
      /\ produced' \in Nat /\ produced' >= produced
      /\ submitPc' = "wait" => \/ produced' > produced
                               \/ submitPc = "wait" /\ produced' = produced
  BY <1>1 DEF SubmitBegin, SubmitWait, SubmitFails, sourceVars, Recovered,
              Go2Types
<1>3. /\ queued' \in Seq(Batches)
      /\ \A i \in 1 .. Len(queued') :
           \E j \in 1 .. Len(queued) : queued'[i] = queued[j]
      /\ Unheard => Unheard'
      /\ source = "stopped" /\ queued' = Reclaimed => Unheard'
  BY <1>1, <1>2, PartKept
<1>4. Go2Types'
  BY <1>1, <1>2, <1>3 DEF Go2Types
<1>5. Made'
  <2>1. \A j \in 1 .. Len(queued) : queued[j].batch \in Nat
    <3>1. \A j \in 1 .. Len(queued) : queued[j] \in Batches
      BY <1>1 DEF Go2Types
    <3> QED
      BY <3>1 DEF Batches
  <2>2. heard \in Nat /\ produced \in Nat
    BY <1>1 DEF Go2Types
  <2>3. heard' <= produced'
    BY <1>1, <1>2, <2>2 DEF Made
  <2>4. \A j \in 1 .. Len(queued) :
          /\ queued[j].batch <= produced'
          /\ submitPc' = "wait" => queued[j].batch < produced'
    BY <1>1, <1>2, <2>1, <2>2 DEF Made
  <2>5. submitPc' = "wait" => heard' < produced'
    BY <1>1, <1>2, <2>2 DEF Made
  <2> QED
    BY <1>3, <2>3, <2>4, <2>5 DEF Made
<1>6. prebuffering' = prebuffering \/ (source # "playing" /\ prebuffering')
  BY DEF SubmitBegin, SubmitWait, SubmitFails
<1>7. PlayingIs'
  <2>1. 1 \in 1 .. Len(queued') => 1 \in 1 .. Len(queued)
    <3>1. Len(queued) \in Nat
      BY <1>1 DEF Go2Types
    <3> QED
      BY <1>3, <3>1
  <2> QED
    BY <1>1, <1>6, <2>1 DEF PlayingIs
<1>8. DryRecovers'
  <2> SUFFICES ASSUME source = "stopped", dry = "idle" PROVE Unheard'
    BY <1>1 DEF DryRecovers
  <2>1. CASE Unheard
    BY <1>3, <2>1
  <2>2. CASE Unrecovered
    <3>1. SubmitBegin
      BY <2>2 DEF Unrecovered, SubmitWait, SubmitFails
    <3>2. queued' = Reclaimed
      BY <2>2, <3>1 DEF Unrecovered, SubmitBegin, Recovered
    <3> QED
      BY <1>3, <3>2
  <2> QED
    BY <1>1, <2>1, <2>2 DEF DryRecovers
<1> QED
  BY <1>4, <1>5, <1>7, <1>8 DEF Go2Inv

LEMMA SubmitQueueStep ==
  ASSUME Go2Inv, SubmitQueue
  PROVE  Go2Inv'
<1> DEFINE q == IF prebuffering THEN queued ELSE Reclaimed
<1>1. /\ Go2Types /\ Made /\ PlayingIs /\ DryRecovers /\ submitPc = "wait"
      /\ UNCHANGED <<source, soundPaused, prebuffering, controlPc, heard, dry,
                     produced>>
      /\ submitted' = TRUE /\ submitPc' = "start"
      /\ played' \in Nat
  BY DEF Go2Inv, SubmitQueue, Submits, Go2Types
<1>2. PICK n \in Sizes :
        queued' = Append(q, [batch |-> produced, frames |-> n])
  BY DEF SubmitQueue
<1> DEFINE b == [batch |-> produced, frames |-> n]
<1>3. b \in Batches /\ b.batch = produced
  BY <1>1, Go2AudioAssumption DEF Go2AudioAssumption, Go2Types, Batches
<1>4. /\ q \in Seq(Batches)
      /\ \A i \in 1 .. Len(q) : \E j \in 1 .. Len(queued) : q[i] = queued[j]
      /\ source = "stopped" /\ ~prebuffering => Len(q) = 0
  BY <1>1, ReclaimedIs DEF Go2Types
<1>5. queued' = Append(q, b)
  BY <1>2
<1> HIDE DEF q, b
<1>6. /\ queued' \in Seq(Batches) /\ Len(queued') = Len(q) + 1
      /\ \A i \in 1 .. Len(q) : queued'[i] = q[i]
      /\ queued'[Len(q) + 1] = b
  BY <1>3, <1>4, <1>5, AppendProperties
<1>7. \A i \in 1 .. Len(queued') :
        queued'[i] = b \/ \E j \in 1 .. Len(queued) : queued'[i] = queued[j]
  <2>1. Len(q) \in Nat
    BY <1>4
  <2>2. \A i \in 1 .. Len(queued') : i \in 1 .. Len(q) \/ i = Len(q) + 1
    BY <1>6, <2>1
  <2> QED
    BY <1>4, <1>6, <2>2
<1>8. Go2Types'
  BY <1>1, <1>6 DEF Go2Types
<1>9. /\ heard < produced /\ heard \in Nat /\ produced \in Nat
      /\ \A j \in 1 .. Len(queued) : queued[j].batch <= produced
  BY <1>1 DEF Made, Go2Types
<1>10. Made'
  BY <1>1, <1>3, <1>7, <1>9 DEF Made
<1>11. PlayingIs'
  BY <1>1 DEF PlayingIs
<1>12. DryRecovers'
  <2> SUFFICES ASSUME source = "stopped", dry = "idle" PROVE Unheard'
    BY <1>1 DEF DryRecovers
  <2>1. Unheard
    BY <1>1 DEF DryRecovers, Unrecovered
  <2>2. \A j \in 1 .. Len(queued) : queued[j].batch > heard
    BY <2>1 DEF Unheard
  <2>3. b.batch > heard
    BY <1>3, <1>9
  <2> QED
    BY <1>1, <1>7, <2>2, <2>3 DEF Unheard
<1> QED
  BY <1>8, <1>10, <1>11, <1>12 DEF Go2Inv

\* The source is started, in playAudio or at the end of a pause.
LEMMA StartSteps ==
  ASSUME Go2Inv, SubmitStart \/ Unpause
  PROVE  Go2Inv'
<1>1. /\ Go2Types /\ Made /\ PlayingIs /\ DryRecovers
      /\ UNCHANGED <<queued, submitted, produced, heard, dry>>
      /\ submitPc' = "out"
  BY DEF Go2Inv, SubmitStart, Unpause, Submits, Control
<1>2. \/ /\ source' = "playing" /\ prebuffering' = FALSE /\ Len(queued) >= 2
         /\ soundPaused' = FALSE
      \/ /\ source' = source /\ prebuffering' = prebuffering
         /\ soundPaused' = soundPaused /\ submitPc = "start"
         /\ controlPc' = controlPc
      \/ /\ source' = source /\ prebuffering' = TRUE
         /\ soundPaused = TRUE
  BY DEF SubmitStart, Unpause, Started, Enough, Submits, Control
<1>3. Len(queued) >= 2 => submitted
  BY <1>1 DEF PlayingIs, Go2Types
<1>4. /\ played' \in Nat
      /\ source' \in {"initial", "playing", "paused", "stopped"}
  BY <1>1 DEF SubmitStart, Unpause, Started, Go2Types
<1>5. Go2Types' /\ Made'
  BY <1>1, <1>4 DEF Go2Types, Made
<1>6. PlayingIs'
  BY <1>1, <1>2, <1>3 DEF PlayingIs
<1>7. DryRecovers'
  <2> SUFFICES ASSUME source' = "stopped", dry = "idle" PROVE Unheard
    BY <1>1 DEF DryRecovers, Unheard
  <2> QED
    BY <1>1, <1>2 DEF DryRecovers, Unrecovered
<1> QED
  BY <1>5, <1>6, <1>7 DEF Go2Inv

\* A buffer is played.
LEMMA PlayStep ==
  ASSUME Go2Inv, PlayBuffer
  PROVE  Go2Inv'
<1>1. /\ Go2Types /\ Made /\ PlayingIs /\ source = "playing"
      /\ played < Len(queued) /\ played' = played + 1
      /\ source' \in {"playing", "stopped"}
      /\ heard' = queued[played'].batch
      /\ UNCHANGED <<queued, submitted, prebuffering, soundPaused, submitPc,
                     controlPc, produced>>
      /\ source' = "stopped" /\ dry' = "idle" =>
           submitPc = "out" /\ controlPc = "out"
  BY DEF Go2Inv, PlayBuffer, flagVars
<1>2. /\ played' \in 1 .. Len(queued) /\ queued[played'] \in Batches
      /\ queued[played'].batch \in Nat
  <2>1. played' \in 1 .. Len(queued) /\ queued \in Seq(Batches)
    BY <1>1 DEF Go2Types
  <2>2. queued[played'] \in Batches
    BY <2>1
  <2> QED
    BY <2>1, <2>2 DEF Batches
<1>3. Go2Types'
  BY <1>1, <1>2 DEF Go2Types
<1>4. Made'
  BY <1>1, <1>2 DEF Made
<1>5. PlayingIs' /\ DryRecovers'
  BY <1>1 DEF PlayingIs, DryRecovers, Unrecovered
<1> QED
  BY <1>3, <1>4, <1>5 DEF Go2Inv

\* Controls.
LEMMA ControlSteps ==
  ASSUME Go2Inv, Flush \/ Pause \/ Cancel
  PROVE  Go2Inv'
<1>1. Go2Types /\ Made /\ PlayingIs /\ DryRecovers
  BY DEF Go2Inv
<1>2. CASE Flush
  <2>1. /\ queued' = << >> /\ played' = 0
        /\ source' \in {"initial", "stopped"}
        /\ UNCHANGED <<submitPc, produced, heard>> /\ submitPc = "out"
    BY <1>2 DEF Flush, Control, Emptied
  <2>2. queued' \in Seq(Batches) /\ Len(queued') = 0
    BY <2>1
  <2>3. Go2Types'
    BY <1>1, <2>1, <2>2 DEF Go2Types
  <2>4. Made'
    BY <1>1, <2>1, <2>2 DEF Made, Go2Types
  <2>5. PlayingIs' /\ DryRecovers'
    BY <2>1, <2>2 DEF PlayingIs, DryRecovers, Unheard
  <2> QED
    BY <2>3, <2>4, <2>5 DEF Go2Inv
<1>3. CASE Pause
  <2>1. /\ UNCHANGED <<queued, played, submitted, prebuffering, submitPc,
                       produced, heard, dry>>
        /\ source' = IF source = "playing" THEN "paused" ELSE source
        /\ controlPc = "pause"
    BY <1>3 DEF Pause, Control
  <2>2. Go2Types' /\ Made'
    BY <1>1, <2>1 DEF Go2Types, Made
  <2>3. PlayingIs' /\ DryRecovers'
    BY <1>1, <2>1 DEF PlayingIs, DryRecovers, Unheard, Unrecovered
  <2> QED
    BY <2>2, <2>3 DEF Go2Inv
<1>4. CASE Cancel
  BY <1>1, <1>4
     DEF Cancel, sourceVars, Go2Inv, Go2Types, Made, PlayingIs, DryRecovers,
         Unheard, Unrecovered
<1> QED
  BY <1>2, <1>3, <1>4

LEMMA Go2InvNext ==
  ASSUME Go2Inv, [Go2Next]_go2Vars
  PROVE  Go2Inv'
<1>1. CASE UNCHANGED go2Vars
  BY <1>1
     DEF go2Vars, sourceVars, flagVars, Go2Inv, Go2Types, Made, PlayingIs,
         DryRecovers, Unheard, Unrecovered
<1> QED
  BY <1>1, PlayStep, SubmitSteps, SubmitQueueStep, StartSteps, ControlSteps
     DEF Go2Next, Submit

LEMMA Go2InvInit == Go2Init => Go2Inv
<1> SUFFICES ASSUME Go2Init PROVE Go2Inv
  OBVIOUS
<1>1. queued \in Seq(Batches) /\ Len(queued) = 0
  BY DEF Go2Init
<1>2. Go2Types
  BY <1>1 DEF Go2Init, Go2Types
<1>3. Made /\ PlayingIs /\ DryRecovers
  BY <1>1 DEF Go2Init, Made, PlayingIs, DryRecovers
<1> QED
  BY <1>2, <1>3 DEF Go2Inv

\* A source that ran dry while nobody submitted or paused is not started with
\* a batch that was heard.
LEMMA StartedUnheard ==
  ASSUME Go2Inv, [Go2Next]_go2Vars, source = "stopped", source' = "playing",
         dry = "idle"
  PROVE  queued[1].batch > heard
<1>1. SubmitStart \/ Unpause
  BY DEF go2Vars, sourceVars, Go2Next, Submit, PlayBuffer, SubmitBegin,
         SubmitWait, SubmitFails, SubmitQueue, Flush, Emptied, Pause, Cancel
<1>2. submitPc = "start" \/ soundPaused
  BY <1>1 DEF SubmitStart, Unpause
<1>3. Unheard
  BY <1>2 DEF Go2Inv, DryRecovers, Unrecovered
<1>4. Len(queued) >= 2
  BY <1>1 DEF SubmitStart, Unpause, Enough
<1>5. 1 \in 1 .. Len(queued)
  BY <1>4 DEF Go2Inv, Go2Types
<1> QED
  BY <1>3, <1>5 DEF Unheard

\* However the OpenAL provider is fed, flushed, paused and cancelled: after an
\* underrun it is not started again with sound that was heard.
THEOREM NothingReplayedHolds == Go2Spec => NothingReplayed
<1>1. Go2Inv /\ [Go2Next]_go2Vars =>
        [source = "stopped" /\ source' = "playing" /\ dry = "idle"
           => queued[1].batch > heard]_go2Vars
  BY StartedUnheard
<1> QED
  BY <1>1, Go2InvInit, Go2InvNext, PTL DEF Go2Spec, NothingReplayed

-----------------------------------------------------------------------------
(* Profiles: what parseCatalog composes is what is found by looking.       *)

Indices == Scopes \X Modes

ProfTypes ==
  /\ catalog \in Catalogs /\ mapped \in BOOLEAN
  /\ ValidCatalog(catalog, mapped)
  /\ written \in [Options -> {Nobody, Player}] /\ manual \subseteq Options
  /\ wished \in Modes \cup {"disabled"}
  /\ profPc \in {"configured", "loaded", "resolved", "running", "played"}

Product(i) == parseCatalog(catalog, mapped)[i[1]][i[2]]

\* The product of a scope that serves a mode.
Given(scope, mode) ==
  IF Product(<<scope, mode>>).found THEN Product(<<scope, mode>>)
  ELSE Product(<<scope, BestValidated>>)

\* What the products of the chip and the device start from.
Base(scope, mode) ==
  IF scope = "device" /\ mapped /\ Given("chip", mode).found
  THEN Given("chip", mode) ELSE Given("game", mode)

LEMMA ModesAre ==
  /\ Modes = {BestValidated, BestPerformance}
  /\ BestValidated # BestPerformance
  /\ Scopes = {"game", "chip", "device"}
BY DEF Modes, Scopes, BestValidated, BestPerformance

LEMMA ProductsAre ==
  ASSUME NEW raw, NEW scope \in Scopes, NEW base
  PROVE  /\ Products(raw, scope, base)[BestValidated] =
              Layered(raw, <<scope, BestValidated>>, base[BestValidated])
         /\ Products(raw, scope, base)[BestPerformance] =
              Layered(raw, <<scope, BestPerformance>>,
                      IF raw[<<scope, BestPerformance>>].inherits
                      THEN Products(raw, scope, base)[BestValidated]
                      ELSE base[BestPerformance])
BY ModesAre DEF Products

\* The products of the game's records.
LEMMA GameProducts ==
  LET bv == <<"game", BestValidated>>
      bp == <<"game", BestPerformance>>
  IN /\ Product(bv) = Layered(catalog, bv, Ground(catalog, BestValidated))
     /\ Product(bp) =
          Layered(catalog, bp,
                  IF catalog[bp].inherits THEN Product(bv)
                  ELSE Ground(catalog, BestPerformance))
<1> DEFINE base == [m \in Modes |-> Ground(catalog, m)]
<1>1. parseCatalog(catalog, mapped)["game"] = Products(catalog, "game", base)
  BY ModesAre DEF parseCatalog, resolveProfile
<1>2. /\ base[BestValidated] = Ground(catalog, BestValidated)
      /\ base[BestPerformance] = Ground(catalog, BestPerformance)
  BY ModesAre
<1>3. \A m : Product(<<"game", m>>) = parseCatalog(catalog, mapped)["game"][m]
  BY DEF Product
<1> HIDE DEF base
<1> QED
  BY <1>1, <1>2, <1>3, ProductsAre, ModesAre

\* The products of the chip's and of the device's.
LEMMA ScopedProducts ==
  ASSUME NEW scope \in {"chip", "device"}, mapped \in BOOLEAN
  PROVE  LET bv == <<scope, BestValidated>>
             bp == <<scope, BestPerformance>>
         IN /\ Product(bv) = Layered(catalog, bv, Base(scope, BestValidated))
            /\ Product(bp) =
                 Layered(catalog, bp,
                         IF catalog[bp].inherits THEN Product(bv)
                         ELSE Base(scope, BestPerformance))
<1> DEFINE all == parseCatalog(catalog, mapped)
           preferred == IF scope = "device" /\ mapped THEN all["chip"]
                        ELSE NoProducts
           base == [m \in Modes |-> IF findBase(preferred, m).found
                                    THEN findBase(preferred, m)
                                    ELSE findBase(all["game"], m)]
<1>1. all["game"] = resolveProfile(catalog)
  BY ModesAre DEF parseCatalog
<1>2. all["chip"] = resolveScopedProfile(catalog, "chip", NoProducts,
                                         all["game"])
  BY <1>1, ModesAre DEF parseCatalog
<1>3. all["device"] =
        resolveScopedProfile(catalog, "device",
          IF mapped THEN all["chip"] ELSE NoProducts, all["game"])
  BY <1>1, <1>2, ModesAre DEF parseCatalog
<1>4. all[scope] = Products(catalog, scope, base)
  BY <1>2, <1>3 DEF resolveScopedProfile
<1>5. \A sc, m : findBase(all[sc], m) = Given(sc, m)
  BY DEF findBase, Given, Product
<1>6. \A m \in Modes : ~findBase(NoProducts, m).found
  BY ModesAre DEF findBase, NoProducts, NoProfile
<1>7. \A m \in Modes : base[m] = Base(scope, m)
  BY <1>5, <1>6 DEF Base
<1>8. \A m : Product(<<scope, m>>) = all[scope][m]
  BY DEF Product
<1> HIDE DEF all, base, preferred
<1>9. scope \in Scopes
  BY ModesAre
<1>10. /\ all[scope][BestValidated] =
            Layered(catalog, <<scope, BestValidated>>, base[BestValidated])
       /\ all[scope][BestPerformance] =
            Layered(catalog, <<scope, BestPerformance>>,
                    IF catalog[<<scope, BestPerformance>>].inherits
                    THEN all[scope][BestValidated] ELSE base[BestPerformance])
  <2> DEFINE products == Products(catalog, scope, base)
  <2>1. /\ products[BestValidated] =
             Layered(catalog, <<scope, BestValidated>>, base[BestValidated])
        /\ products[BestPerformance] =
             Layered(catalog, <<scope, BestPerformance>>,
                     IF catalog[<<scope, BestPerformance>>].inherits
                     THEN products[BestValidated] ELSE base[BestPerformance])
    BY <1>9, ProductsAre
  <2>2. all[scope] = products
    BY <1>4
  <2> HIDE DEF products
  <2> QED
    BY <2>1, <2>2
<1> QED
  BY <1>7, <1>8, <1>10, ModesAre

\* A product is found where there is a record.
LEMMA FoundIsDeclared ==
  ASSUME ProfTypes, NEW i \in Indices
  PROVE  Product(i).found <=> Declared(i)
<1> USE DEF Indices
<1>1. PICK sc \in Scopes, m \in Modes : i = <<sc, m>>
  OBVIOUS
<1>2. Declared(i) => Product(i).found
  BY <1>1 DEF ProfTypes, ValidCatalog, Declared, Product
<1>3. Product(i).found => Declared(i)
  <2>1. PICK base : Product(i) = Layered(catalog, i, base)
    BY <1>1, ModesAre, GameProducts, ScopedProducts DEF ProfTypes
  <2>2. Product(i).found = (catalog[i].there /\ base.found)
    BY <2>1 DEF Layered
  <2> QED
    BY <2>2 DEF Declared
<1> QED
  BY <1>2, <1>3

\* The product that serves a mode is that of the record that does.
LEMMA GivenIs ==
  ASSUME ProfTypes, NEW scope \in Scopes, NEW mode \in Modes
  PROVE  /\ Server(scope, mode) \in Indices
         /\ Given(scope, mode) = Product(Server(scope, mode))
         /\ Given(scope, mode).found <=> Declared(Server(scope, mode))
<1>1. <<scope, mode>> \in Indices /\ <<scope, BestValidated>> \in Indices
  BY ModesAre DEF Indices
<1>2. /\ Product(<<scope, mode>>).found <=> Declared(<<scope, mode>>)
      /\ Product(<<scope, BestValidated>>).found
           <=> Declared(<<scope, BestValidated>>)
  BY <1>1, FoundIsDeclared
<1>3. Given(scope, mode) = Product(Server(scope, mode))
  BY <1>2 DEF Given, Server
<1> QED
  BY <1>1, <1>2, <1>3 DEF Server

\* The two ways to find what a record starts from.
LEMMA BeneathIs ==
  ASSUME ProfTypes, NEW scope \in Scopes, NEW mode \in Modes
  PROVE  LET i == <<scope, mode>>
             root == IF Declared(Server("game", mode))
                     THEN Server("game", mode) ELSE << >>
         IN /\ catalog[i].inherits => Beneath(i) = <<scope, BestValidated>>
            /\ ~catalog[i].inherits =>
                 /\ scope = "game" => Beneath(i) = << >>
                 /\ scope = "chip" => Beneath(i) = root
                 /\ scope = "device" =>
                      Beneath(i) = IF mapped
                                        /\ Declared(Server("chip", mode))
                                   THEN Server("chip", mode) ELSE root
<1> DEFINE i == <<scope, mode>>
           root == IF Declared(Server("game", mode))
                   THEN Server("game", mode) ELSE << >>
           under == Under(scope)
           has == {k \in DOMAIN under : Declared(Server(under[k], mode))}
           first == CHOOSE k \in has : \A l \in has : k <= l
<1>1. Beneath(i) =
        CASE catalog[i].inherits -> <<scope, BestValidated>>
          [] ~catalog[i].inherits /\ has # {} -> Server(under[first], mode)
          [] OTHER -> << >>
  <2>1. i[1] = scope /\ i[2] = mode
    OBVIOUS
  <2> HIDE DEF i
  <2> QED
    BY <2>1 DEF Beneath
<1>2. CASE catalog[i].inherits
  BY <1>1, <1>2
<1>3. CASE ~catalog[i].inherits /\ scope = "game"
  <2>1. has = {}
    BY <1>3 DEF Under
  <2> QED
    BY <1>1, <1>3, <2>1
<1>4. CASE /\ ~catalog[i].inherits
           /\ scope = "chip" \/ (scope = "device" /\ ~mapped)
  <2>1. has = IF Declared(Server("game", mode)) THEN {1} ELSE {}
    BY <1>4 DEF Under
  <2>2. under[1] = "game"
    BY <1>4 DEF Under
  <2> HIDE DEF has, under
  <2>3. has = {1} => first = 1
    OBVIOUS
  <2>4. Beneath(i) = root
    BY <1>1, <1>4, <2>1, <2>2, <2>3
  <2> QED
    BY <1>4, <2>4 DEF ProfTypes
<1>5. CASE ~catalog[i].inherits /\ scope = "device" /\ mapped
  <2>1. has = (IF Declared(Server("chip", mode)) THEN {1} ELSE {})
                \cup (IF Declared(Server("game", mode)) THEN {2} ELSE {})
    BY <1>5 DEF Under
  <2>2. under[1] = "chip" /\ under[2] = "game"
    BY <1>5 DEF Under
  <2> HIDE DEF has, under
  <2>3. CASE Declared(Server("chip", mode))
    <3>1. 1 \in has /\ \A l \in has : 1 <= l
      BY <2>1, <2>3
    <3>2. first = 1
      BY <2>1, <3>1
    <3> QED
      BY <1>1, <1>5, <2>2, <2>3, <3>1, <3>2
  <2>4. CASE ~Declared(Server("chip", mode))
    <3>1. has = IF Declared(Server("game", mode)) THEN {2} ELSE {}
      BY <2>1, <2>4
    <3>2. has = {2} => first = 2
      OBVIOUS
    <3> QED
      BY <1>1, <1>5, <2>2, <2>4, <3>1, <3>2
  <2> QED
    BY <2>3, <2>4
<1> QED
  BY <1>2, <1>3, <1>4, <1>5 DEF ProfTypes, Scopes

Rank(i) ==
  (CASE i[1] = "game" -> 0 [] i[1] = "chip" -> 1 [] i[1] = "device" -> 2)
    + (IF i[2] = BestValidated THEN 0 ELSE 1)

\* A record's product is made of the one beneath it, which exists; that chain
\* ends at the game.
LEMMA Grounded ==
  ASSUME ProfTypes, NEW i \in Indices, Declared(i)
  PROVE  \/ /\ Beneath(i) = << >> /\ i[1] = "game" /\ ~catalog[i].inherits
            /\ Product(i) = Layered(catalog, i, Ground(catalog, i[2]))
         \/ /\ Beneath(i) \in Indices /\ Declared(Beneath(i))
            /\ Product(i) = Layered(catalog, i, Product(Beneath(i)))
            /\ Rank(Beneath(i)) < Rank(i)
<1>1. PICK scope \in Scopes, mode \in Modes : i = <<scope, mode>>
  BY DEF Indices
<1>2. ~catalog[<<scope, BestValidated>>].inherits
  BY ModesAre DEF ProfTypes, ValidCatalog
<1>3. \A base : Product(i) = Layered(catalog, i, base) => base.found
  <2> SUFFICES ASSUME NEW base, Product(i) = Layered(catalog, i, base)
               PROVE  base.found
    OBVIOUS
  <2>1. Product(i).found = (catalog[i].there /\ base.found)
    BY DEF Layered
  <2>2. Product(i).found
    BY FoundIsDeclared
  <2> QED
    BY <2>1, <2>2
<1>4. i[1] = scope /\ i[2] = mode /\ <<scope, BestValidated>> \in Indices
  BY <1>1, ModesAre DEF Indices
<1>5. CASE catalog[i].inherits
  <2>1. mode = BestPerformance
    BY <1>1, <1>2, <1>5, ModesAre
  <2>2. Product(i) = Layered(catalog, i, Product(<<scope, BestValidated>>))
    BY <1>1, <1>5, <2>1, ModesAre, GameProducts, ScopedProducts DEF ProfTypes
  <2>3. Beneath(i) = <<scope, BestValidated>>
    BY <1>1, <1>5, BeneathIs
  <2>4. Declared(<<scope, BestValidated>>)
    BY <1>3, <1>4, <2>2, FoundIsDeclared
  <2>5. Rank(<<scope, BestValidated>>) < Rank(i)
    BY <1>1, <2>1, ModesAre DEF Rank
  <2> QED
    BY <1>4, <2>2, <2>3, <2>4, <2>5
<1>6. CASE ~catalog[i].inherits /\ scope = "game"
  <2>1. Product(i) = Layered(catalog, i, Ground(catalog, mode))
    BY <1>1, <1>6, ModesAre, GameProducts
  <2> QED
    BY <1>1, <1>4, <1>6, <2>1, BeneathIs
<1>7. CASE ~catalog[i].inherits /\ scope # "game"
  <2>1. scope \in {"chip", "device"}
    BY <1>7, ModesAre
  <2>2. Product(i) = Layered(catalog, i, Base(scope, mode))
    BY <1>1, <1>7, <2>1, ModesAre, ScopedProducts DEF ProfTypes
  <2>3. Base(scope, mode).found
    BY <1>3, <2>2
  <2> DEFINE from == IF scope = "device" /\ mapped
                          /\ Declared(Server("chip", mode))
                     THEN "chip" ELSE "game"
  <2>4. /\ from \in Scopes /\ Base(scope, mode) = Given(from, mode)
        /\ from = "game" \/ scope = "device"
    BY GivenIs, ModesAre DEF Base
  <2>5. Declared(Server(from, mode)) /\ Server(from, mode) \in Indices
    BY <2>3, <2>4, GivenIs
  <2>6. Beneath(i) = Server(from, mode)
    BY <1>1, <1>7, <2>1, <2>5, BeneathIs
  <2>7. Product(i) = Layered(catalog, i, Product(Beneath(i)))
    BY <2>2, <2>4, <2>6, GivenIs
  <2>8. Rank(Server(from, mode)) < Rank(i)
    <3>1. \/ Server(from, mode) = <<from, mode>>
          \/ Server(from, mode) = <<from, BestValidated>>
      BY DEF Server
    <3> HIDE DEF from
    <3>2. from \in {"game", "chip"} /\ (from = "chip" => scope = "device")
      BY <2>4 DEF from
    <3> QED
      BY <1>1, <2>1, <3>1, <3>2, ModesAre DEF Rank
  <2> QED
    BY <2>5, <2>6, <2>7, <2>8
<1> QED
  BY <1>5, <1>6, <1>7

-----------------------------------------------------------------------------
(* The line of a record: itself, and those beneath it down to the game.     *)

Rooted(line) == Beneath(line[Len(line)]) = << >>

IsLine(i, line) ==
  /\ line \in Seq(Indices) /\ Len(line) >= 1 /\ line[1] = i
  /\ \A k \in 1 .. Len(line) :
       Declared(line[k]) /\ Rank(line[k]) + k <= Rank(i) + 1
  /\ \A k \in 1 .. Len(line) - 1 : line[k + 1] = Beneath(line[k])

Lengthened(line) ==
  IF line = << >> \/ Beneath(line[Len(line)]) = << >> THEN line
  ELSE Append(line, Beneath(line[Len(line)]))

LEMMA RankIs ==
  ASSUME NEW i \in Indices
  PROVE  Rank(i) \in 0 .. 3
<1>1. PICK sc \in Scopes, m \in Modes : i = <<sc, m>>
  BY DEF Indices
<1> QED
  BY <1>1, ModesAre DEF Rank

LEMMA NoTupleEmpty == \A i \in Indices : i # << >>
<1> SUFFICES ASSUME NEW i \in Indices, i = << >> PROVE FALSE
  OBVIOUS
<1>1. PICK sc \in Scopes, m \in Modes : i = <<sc, m>>
  BY DEF Indices
<1>2. Len(<<sc, m>>) = 2 /\ Len(<< >>) = 0
  OBVIOUS
<1> QED
  BY <1>1, <1>2

\* A step down keeps it a line, and makes it longer unless it ends at the game.
LEMMA LengthenedIs ==
  ASSUME ProfTypes, NEW i \in Indices, NEW line, IsLine(i, line)
  PROVE  /\ IsLine(i, Lengthened(line))
         /\ Rooted(line) => Lengthened(line) = line
         /\ ~Rooted(line) => Len(Lengthened(line)) = Len(line) + 1
<1> DEFINE n == Len(line)
           j == line[n]
<1>1. /\ line \in Seq(Indices) /\ n \in Nat /\ n >= 1 /\ n \in 1 .. n
      /\ j \in Indices /\ Declared(j) /\ Rank(j) + n <= Rank(i) + 1
  BY DEF IsLine
<1>2. line # << >>
  BY <1>1
<1>3. CASE Rooted(line)
  BY <1>3 DEF Rooted, Lengthened
<1>4. CASE ~Rooted(line)
  <2> DEFINE b == Beneath(j)
             longer == Append(line, b)
  <2>1. b \in Indices /\ Declared(b) /\ Rank(b) < Rank(j)
    BY <1>1, <1>4, Grounded DEF Rooted
  <2>2. Lengthened(line) = longer
    BY <1>2, <1>4 DEF Lengthened, Rooted
  <2>3. Rank(b) \in Int /\ Rank(j) \in Int /\ Rank(i) \in Int
    BY <1>1, <2>1, RankIs
  <2> HIDE DEF b
  <2>4. /\ longer \in Seq(Indices) /\ Len(longer) = n + 1
        /\ longer[n + 1] = b /\ \A k \in 1 .. n : longer[k] = line[k]
    BY <1>1, <2>1
  <2>5. Rank(b) + (n + 1) <= Rank(i) + 1
    BY <1>1, <2>1, <2>3
  <2> HIDE DEF longer
  <2>6. \A k \in 1 .. n + 1 :
          Declared(longer[k]) /\ Rank(longer[k]) + k <= Rank(i) + 1
    BY <1>1, <2>1, <2>4, <2>5 DEF IsLine
  <2>7. \A k \in 1 .. n : longer[k + 1] = Beneath(longer[k])
    <3> SUFFICES ASSUME NEW k \in 1 .. n
                 PROVE  longer[k + 1] = Beneath(longer[k])
      OBVIOUS
    <3>1. CASE k = n
      BY <1>1, <2>4, <3>1 DEF b
    <3>2. CASE k # n
      <4>1. k \in 1 .. n - 1 /\ k + 1 \in 1 .. n
        BY <1>1, <3>2
      <4> QED
        BY <2>4, <4>1 DEF IsLine
    <3> QED
      BY <3>1, <3>2
  <2>8. IsLine(i, longer)
    BY <1>1, <2>4, <2>6, <2>7 DEF IsLine
  <2> QED
    BY <1>4, <2>2, <2>4, <2>8
<1> QED
  BY <1>3, <1>4

\* Four records are the longest line.
LEMMA LineageIs ==
  ASSUME ProfTypes, NEW i \in Indices, Declared(i)
  PROVE  /\ IsLine(i, Lineage(i)) /\ Rooted(Lineage(i))
         /\ Len(Lineage(i)) \in 1 .. 4
<1> DEFINE l0 == <<i>>
           l1 == Lengthened(l0)
           l2 == Lengthened(l1)
           l3 == Lengthened(l2)
<1>1. Lineage(i) = l3
  BY DEF Lineage, Lengthened
<1>2. IsLine(i, l0) /\ Len(l0) = 1
  BY RankIs DEF IsLine
<1> HIDE DEF l0
<1>3. /\ IsLine(i, l1) /\ (Rooted(l0) => l1 = l0)
      /\ ~Rooted(l0) => Len(l1) = Len(l0) + 1
  BY <1>2, LengthenedIs
<1> HIDE DEF l1
<1>4. /\ IsLine(i, l2) /\ (Rooted(l1) => l2 = l1)
      /\ ~Rooted(l1) => Len(l2) = Len(l1) + 1
  BY <1>3, LengthenedIs
<1> HIDE DEF l2
<1>5. /\ IsLine(i, l3) /\ (Rooted(l2) => l3 = l2)
      /\ ~Rooted(l2) => Len(l3) = Len(l2) + 1
  BY <1>4, LengthenedIs
<1> HIDE DEF l3
<1>6. \A l : IsLine(i, l) => Len(l) \in 1 .. 4
  <2> SUFFICES ASSUME NEW l, IsLine(i, l) PROVE Len(l) \in 1 .. 4
    OBVIOUS
  <2> DEFINE n == Len(l)
  <2>1. /\ n \in Nat /\ n >= 1 /\ n \in 1 .. n /\ l[n] \in Indices
        /\ Rank(l[n]) + n <= Rank(i) + 1
    BY DEF IsLine
  <2> DEFINE r == Rank(l[n])
             q == Rank(i)
  <2>2. r \in 0 .. 3 /\ q \in 0 .. 3 /\ r + n <= q + 1 /\ n \in Nat /\ n >= 1
    BY <2>1, RankIs
  <2> HIDE DEF r, q, n
  <2>3. n \in 1 .. 4
    BY <2>2
  <2> QED
    BY <2>3 DEF n
<1>7. \A l : IsLine(i, l) /\ Len(l) = 4 => Rooted(l)
  <2> SUFFICES ASSUME NEW l, IsLine(i, l), Len(l) = 4, ~Rooted(l)
               PROVE  FALSE
    OBVIOUS
  <2>1. IsLine(i, Lengthened(l)) /\ Len(Lengthened(l)) = Len(l) + 1
    BY LengthenedIs
  <2>2. Len(Lengthened(l)) \in 1 .. 4
    BY <1>6, <2>1
  <2> QED
    BY <2>1, <2>2
<1>8. Rooted(l3)
  <2>1. CASE Rooted(l2)
    BY <1>5, <2>1
  <2>2. CASE ~Rooted(l2)
    <3>1. ~Rooted(l1) /\ ~Rooted(l0)
      BY <1>3, <1>4, <2>2
    <3>2. Len(l1) = 2 /\ Len(l2) = Len(l1) + 1 /\ Len(l3) = Len(l2) + 1
      BY <1>2, <1>3, <1>4, <1>5, <2>2, <3>1
    <3>3. Len(l3) = 4
      BY <3>2
    <3> QED
      BY <1>5, <1>7, <3>3
  <2> QED
    BY <2>1, <2>2
<1> QED
  BY <1>1, <1>5, <1>6, <1>8

-----------------------------------------------------------------------------
(* What a line says is what its product has.                               *)

LEMMA LineProducts ==
  ASSUME ProfTypes, NEW i \in Indices, Declared(i)
  PROVE  LET line == Lineage(i)
             n == Len(line)
         IN /\ n \in 1 .. 4 /\ line[1] = i
            /\ \A k \in 1 .. n : line[k] \in Indices
            /\ line[n][1] = "game" /\ ~catalog[line[n]].inherits
            /\ Product(line[n]) =
                 Layered(catalog, line[n], Ground(catalog, line[n][2]))
            /\ \A k \in 1 .. n - 1 :
                 Product(line[k]) =
                   Layered(catalog, line[k], Product(line[k + 1]))
<1> DEFINE line == Lineage(i)
           n == Len(line)
<1>1. IsLine(i, line) /\ Beneath(line[n]) = << >> /\ n \in 1 .. 4
  BY LineageIs DEF Rooted
<1> HIDE DEF line
<1>2. \A k \in 1 .. n : line[k] \in Indices /\ Declared(line[k])
  BY <1>1 DEF IsLine
<1>3. n \in 1 .. n /\ line[1] = i
  BY <1>1 DEF IsLine
<1>4. /\ line[n][1] = "game" /\ ~catalog[line[n]].inherits
      /\ Product(line[n]) =
           Layered(catalog, line[n], Ground(catalog, line[n][2]))
  BY <1>1, <1>2, <1>3, Grounded, NoTupleEmpty
<1>5. ASSUME NEW k \in 1 .. n - 1
      PROVE  Product(line[k]) =
               Layered(catalog, line[k], Product(line[k + 1]))
  <2>1. k \in 1 .. n /\ k + 1 \in 1 .. n
    BY <1>1
  <2>2. line[k + 1] = Beneath(line[k])
    BY <1>1 DEF IsLine
  <2>3. Beneath(line[k]) # << >>
    BY <1>2, <2>1, <2>2, NoTupleEmpty
  <2> QED
    BY <1>2, <2>1, <2>2, <2>3, Grounded
<1> QED
  BY <1>1, <1>2, <1>3, <1>4, <1>5 DEF line

\* Each setting of a product was written by the closest record that sets it.
LEMMA SettingsAre ==
  ASSUME ProfTypes, NEW i \in Indices, Declared(i), NEW s \in Options
  PROVE  Product(i).settings[s] = Author(i, s)
<1> DEFINE line == Lineage(i)
           n == Len(line)
           says == {k \in DOMAIN line : s \in catalog[line[k]].sets}
           first == CHOOSE k \in says : \A l \in says : k <= l
           val(k) == Product(line[k]).settings[s]
           ground == line[n]
           titleOnly == ground[2] = BestValidated /\ catalog[ground].sets = {}
<1>1. Author(i, s) =
        CASE says # {} -> line[first]
          [] says = {} /\ s = Variant -> Nobody
          [] OTHER -> IF titleOnly /\ s \in Sensitive THEN SafeDefault
                      ELSE LowEndDefault
  BY DEF Author
<1>2. /\ n \in 1 .. 4 /\ line[1] = i /\ ~catalog[ground].inherits
      /\ Product(ground) = Layered(catalog, ground, Ground(catalog, ground[2]))
      /\ \A k \in 1 .. n - 1 :
           Product(line[k]) = Layered(catalog, line[k], Product(line[k + 1]))
  BY LineProducts
<1>3. DOMAIN line = 1 .. n
  BY LineageIs DEF IsLine
<1> HIDE DEF line
<1>4. \A base, j : Layered(catalog, j, base).settings[s] =
                    IF s \in catalog[j].sets THEN j ELSE base.settings[s]
  BY DEF Layered
<1>5. \A k \in 1 .. n - 1 : k \notin says => val(k) = val(k + 1)
  BY <1>2, <1>3, <1>4
<1>6. \A k \in says : val(k) = line[k]
  <2> SUFFICES ASSUME NEW k \in says PROVE val(k) = line[k]
    OBVIOUS
  <2>1. k \in 1 .. n /\ s \in catalog[line[k]].sets
    BY <1>3
  <2>2. \E base : Product(line[k]) = Layered(catalog, line[k], base)
    BY <1>2, <2>1
  <2> QED
    BY <1>4, <2>1, <2>2
<1>7. CASE says = {}
  <2>1. s \notin catalog[ground].sets
    BY <1>2, <1>3, <1>7
  <2>2. val(n) = Ground(catalog, ground[2]).settings[s]
    BY <1>2, <1>4, <2>1
  <2>3. Ground(catalog, ground[2]).settings = Foundation(
          ground[2] = BestValidated /\ catalog[<<"game", ground[2]>>].sets = {}
            /\ ~catalog[<<"game", ground[2]>>].inherits)
    BY DEF Ground
  <2>4. ground = <<"game", ground[2]>>
    <3>1. ground \in Indices /\ ground[1] = "game"
      BY LineProducts DEF line
    <3> HIDE DEF ground
    <3> QED
      BY <3>1 DEF Indices
  <2>5. val(n) = Foundation(titleOnly)[s]
    BY <1>2, <2>2, <2>3, <2>4
  <2> HIDE DEF val, titleOnly
  <2>6. val(n) = IF s = Variant THEN Nobody
                 ELSE IF titleOnly /\ s \in Sensitive THEN SafeDefault
                 ELSE LowEndDefault
    BY <2>5, ProfilesAssumption DEF Foundation
  <2>7. Author(i, s) = val(n)
    BY <1>1, <1>7, <2>6
  <2>8. val(1) = val(n)
    <3>1. \A k \in 1 .. n - 1 : val(k) = val(k + 1)
      BY <1>5, <1>7
    <3>2. n = 1 \/ n = 2 \/ n = 3 \/ n = 4
      BY <1>2
    <3> HIDE DEF n
    <3> QED
      BY <3>1, <3>2
  <2> QED
    BY <1>2, <2>7, <2>8 DEF val
<1>8. CASE says # {}
  <2>1. says \subseteq 1 .. 4
    BY <1>2, <1>3
  <2> HIDE DEF says, val
  <2>2. PICK k \in says : \A l \in says : k <= l
    <3>1. CASE 1 \in says
      BY <2>1, <3>1
    <3>2. CASE 1 \notin says /\ 2 \in says
      BY <2>1, <3>2
    <3>3. CASE 1 \notin says /\ 2 \notin says /\ 3 \in says
      BY <2>1, <3>3
    <3>4. CASE 1 \notin says /\ 2 \notin says /\ 3 \notin says
      <4>1. \A k \in says : k = 4
        BY <2>1, <3>4
      <4> QED
        BY <1>8, <4>1
    <3> QED
      BY <3>1, <3>2, <3>3, <3>4
  <2>3. first = k
    <3>1. \A l \in says : (\A h \in says : l <= h) => l = k
      BY <2>1, <2>2
    <3>2. first \in says /\ \A h \in says : first <= h
      BY <2>2
    <3> QED
      BY <3>1, <3>2
  <2>4. val(1) = val(k)
    <3>1. k \in 1 .. n /\ k \in 1 .. 4
      BY <1>3, <2>1 DEF says
    <3>2. \A l \in 1 .. k - 1 : val(l) = val(l + 1)
      BY <1>2, <1>5, <2>1, <2>2, <3>1
    <3>3. k = 1 \/ k = 2 \/ k = 3 \/ k = 4
      BY <3>1
    <3> QED
      BY <3>2, <3>3
  <2>5. Author(i, s) = line[k]
    BY <1>1, <1>8, <2>3
  <2>6. val(1) = Author(i, s)
    BY <1>6, <2>4, <2>5
  <2> QED
    BY <1>2, <2>6 DEF val
<1> QED
  BY <1>7, <1>8

\* A product was validated if anything in its line was.
LEMMA TestedIs ==
  ASSUME ProfTypes, NEW i \in Indices, Declared(i)
  PROVE  Product(i).validated <=> Tested(i)
<1> DEFINE line == Lineage(i)
           n == Len(line)
           some(k) == catalog[line[k]].sets # {}
           ground == line[n]
<1>1. Tested(i) <=> \/ \E k \in DOMAIN line : some(k)
                    \/ ground = <<"game", BestPerformance>>
  BY DEF Tested
<1>2. /\ n \in 1 .. 4 /\ line[1] = i /\ ~catalog[ground].inherits
      /\ ground \in Indices /\ ground[1] = "game"
      /\ Product(ground) = Layered(catalog, ground, Ground(catalog, ground[2]))
      /\ \A k \in 1 .. n - 1 :
           Product(line[k]) = Layered(catalog, line[k], Product(line[k + 1]))
  BY LineProducts
<1>3. DOMAIN line = 1 .. n
  BY LineageIs DEF IsLine
<1> HIDE DEF line
<1>4. \A base, j : Layered(catalog, j, base).validated
                     = (base.validated \/ catalog[j].sets # {})
  BY DEF Layered
<1>5. \A k \in 1 .. n - 1 :
        Product(line[k]).validated
          <=> Product(line[k + 1]).validated \/ some(k)
  <2> SUFFICES ASSUME NEW k \in 1 .. n - 1
               PROVE  Product(line[k]).validated
                        <=> Product(line[k + 1]).validated \/ some(k)
    OBVIOUS
  <2>1. Product(line[k]) = Layered(catalog, line[k], Product(line[k + 1]))
    BY <1>2
  <2>2. Product(line[k]).validated =
          (Product(line[k + 1]).validated \/ catalog[line[k]].sets # {})
    BY <1>4, <2>1
  <2> QED
    BY <2>2
<1>6. Product(ground).validated
        <=> some(n) \/ ground = <<"game", BestPerformance>>
  <2>1. PICK m \in Modes : ground = <<"game", m>> /\ ground[2] = m
    <3>1. ground \in Indices /\ ground[1] = "game"
      BY <1>2
    <3> HIDE DEF ground
    <3> QED
      BY <3>1 DEF Indices
  <2>2. Ground(catalog, m).validated
          = ~(m = BestValidated /\ catalog[<<"game", m>>].sets = {}
                /\ ~catalog[<<"game", m>>].inherits)
    BY DEF Ground
  <2>3. Ground(catalog, m).validated <=> m # BestValidated \/ some(n)
    BY <1>2, <2>1, <2>2
  <2>4. Product(ground).validated
          = (Ground(catalog, m).validated \/ catalog[ground].sets # {})
    BY <1>2, <1>4, <2>1
  <2>5. ground = <<"game", BestPerformance>> <=> m # BestValidated
    BY <2>1, ModesAre
  <2> QED
    BY <2>3, <2>4, <2>5
<1> DEFINE valid(k) == Product(line[k]).validated
<1>7. \A k \in 1 .. n - 1 : valid(k) <=> valid(k + 1) \/ some(k)
  BY <1>5
<1>8. /\ valid(n) <=> some(n) \/ ground = <<"game", BestPerformance>>
      /\ n = 1 \/ n = 2 \/ n = 3 \/ n = 4
  BY <1>2, <1>6
<1>9. Tested(i) <=> \/ \E k \in 1 .. n : some(k)
                    \/ ground = <<"game", BestPerformance>>
  BY <1>1, <1>3
<1>10. valid(1) <=> Product(i).validated
  BY <1>2
<1> HIDE DEF valid, some, ground, n
<1>11. valid(1) <=> \/ \E k \in 1 .. n : some(k)
                    \/ ground = <<"game", BestPerformance>>
  <2>1. CASE n = 1
    BY <1>8, <2>1
  <2>2. CASE n = 2
    BY <1>7, <1>8, <2>2
  <2>3. CASE n = 3
    BY <1>7, <1>8, <2>3
  <2>4. CASE n = 4
    BY <1>7, <1>8, <2>4
  <2> QED
    BY <1>8, <2>1, <2>2, <2>3, <2>4
<1> QED
  BY <1>9, <1>10, <1>11

-----------------------------------------------------------------------------
(* The profile that is selected.                                           *)

Selected == selectProfile(parseCatalog(catalog, mapped), wished)

\* The profile is that of the most specific scope that serves the mode.
LEMMA SelectedIs ==
  ASSUME ProfTypes, Selected.found
  PROVE  /\ wished \in Modes
         /\ \E sc \in Scopes :
              /\ Serves(sc)
              /\ sc # "device" => ~Serves("device")
              /\ sc = "game" => ~Serves("chip")
              /\ Selected = Given(sc, wished) /\ Selected.validated
              /\ \A s \in Options :
                   Selected.settings[s] = Author(Serving(sc), s)
<1> DEFINE at(sc) ==
             selectFromProducts(parseCatalog(catalog, mapped)[sc], wished)
<1>1. wished \in Modes
  <2>1. ~NoProfile.found
    BY DEF NoProfile
  <2> QED
    BY <2>1 DEF Selected, selectProfile
<1>2. ASSUME NEW sc \in Scopes
      PROVE  /\ at(sc).found <=> Serves(sc)
             /\ Serves(sc) =>
                  /\ at(sc) = Given(sc, wished) /\ at(sc).validated
                  /\ \A s \in Options :
                       at(sc).settings[s] = Author(Serving(sc), s)
  <2> DEFINE i == Serving(sc)
             p == Given(sc, wished)
  <2>1. at(sc) = IF p.found /\ p.validated THEN p ELSE NoProfile
    BY DEF selectFromProducts, findBase, Given, Product
  <2>2. i \in Indices /\ p = Product(i) /\ (p.found <=> Declared(i))
    BY <1>1, GivenIs DEF Serving
  <2>3. Declared(i) => (p.validated <=> Tested(i))
    BY <2>2, TestedIs
  <2>4. Serves(sc) <=> p.found /\ p.validated
    BY <2>2, <2>3 DEF Serves
  <2>5. ~NoProfile.found
    BY DEF NoProfile
  <2>6. Declared(i) => \A s \in Options : p.settings[s] = Author(i, s)
    BY <2>2, SettingsAre
  <2> HIDE DEF at, p, i
  <2>7. Serves(sc) => /\ at(sc) = p /\ at(sc).found /\ at(sc).validated
                      /\ \A s \in Options :
                           at(sc).settings[s] = Author(i, s)
    BY <2>1, <2>2, <2>4, <2>6
  <2>8. ~Serves(sc) => ~at(sc).found
    BY <2>1, <2>4, <2>5
  <2> QED
    BY <2>7, <2>8 DEF p, i
<1>3. Selected = IF at("device").found THEN at("device")
                 ELSE IF at("chip").found THEN at("chip") ELSE at("game")
  BY <1>1 DEF Selected, selectProfile
<1>4. "device" \in Scopes /\ "chip" \in Scopes /\ "game" \in Scopes
  BY ModesAre
<1> HIDE DEF at
<1>5. CASE Serves("device")
  BY <1>1, <1>2, <1>3, <1>4, <1>5
<1>6. CASE ~Serves("device") /\ Serves("chip")
  BY <1>1, <1>2, <1>3, <1>4, <1>6
<1>7. CASE ~Serves("device") /\ ~Serves("chip")
  <2>1. Selected = at("game") /\ Serves("game")
    BY <1>2, <1>3, <1>4, <1>7
  <2> QED
    BY <1>1, <1>2, <1>4, <1>7, <2>1
<1> QED
  BY <1>5, <1>6, <1>7

\* What no record wrote is no record's.
LEMMA NobodysValue ==
  \A w \in {Nobody, Player, SafeDefault, LowEndDefault} : w \notin Indices
<1> SUFFICES ASSUME NEW w \in {Nobody, Player, SafeDefault, LowEndDefault},
                    w \in Indices
             PROVE  FALSE
  OBVIOUS
<1>1. PICK sc \in Scopes, m \in Modes : w = <<sc, m>>
  BY DEF Indices
<1>2. w[1] = sc
  BY <1>1
<1>3. w[1] \in {"nobody", "player", "default"}
  <2>1. /\ Nobody[1] = "nobody" /\ Player[1] = "player"
        /\ SafeDefault[1] = "default" /\ LowEndDefault[1] = "default"
    BY DEF Nobody, Player, SafeDefault, LowEndDefault
  <2> QED
    BY <2>1
<1> QED
  BY <1>2, <1>3, ModesAre

\* What best_validated starts from is never a best_performance record.
LEMMA ValidatedOnly ==
  ASSUME ProfTypes, NEW sc \in Scopes, NEW s \in Options
  PROVE  Given(sc, BestValidated).settings[s]
           \notin Scopes \X {BestPerformance}
<1> DEFINE Fast == Scopes \X {BestPerformance}
           bv(x) == Product(<<x, BestValidated>>).settings[s]
<1>1. \A x : Given(x, BestValidated) = Product(<<x, BestValidated>>)
  BY DEF Given
<1>2. \A x, base : LET i == <<x, BestValidated>>
                   IN base.settings[s] \notin Fast =>
                        Layered(catalog, i, base).settings[s] \notin Fast
  <2> SUFFICES ASSUME NEW x, NEW base, base.settings[s] \notin Fast
               PROVE  Layered(catalog, <<x, BestValidated>>, base).settings[s]
                        \notin Fast
    OBVIOUS
  <2>1. <<x, BestValidated>> \notin Fast
    BY ModesAre
  <2>2. Layered(catalog, <<x, BestValidated>>, base).settings[s]
          \in {<<x, BestValidated>>, base.settings[s]}
    BY DEF Layered
  <2> QED
    BY <2>1, <2>2
<1>3. Ground(catalog, BestValidated).settings[s] \notin Fast
  <2>1. \A b : Foundation(b)[s] \in {Nobody, SafeDefault, LowEndDefault}
    BY DEF Foundation
  <2>2. \A w \in {Nobody, SafeDefault, LowEndDefault} : w \notin Fast
    BY NobodysValue, ModesAre DEF Indices
  <2>3. \E b : Ground(catalog, BestValidated).settings = Foundation(b)
    BY DEF Ground
  <2> QED
    BY <2>1, <2>2, <2>3
<1>4. bv("game") \notin Fast
  BY <1>2, <1>3, GameProducts
<1>5. ASSUME NEW x \in {"chip", "device"},
             x = "device" => bv("chip") \notin Fast
      PROVE  bv(x) \notin Fast
  <2>1. Base(x, BestValidated).settings[s] \notin Fast
    BY <1>1, <1>4, <1>5 DEF Base
  <2> QED
    BY <1>2, <2>1, ScopedProducts DEF ProfTypes
<1>6. bv("chip") \notin Fast /\ bv("device") \notin Fast
  BY <1>5
<1> HIDE DEF bv
<1>7. bv(sc) \notin Fast
  BY <1>4, <1>6, ModesAre
<1> QED
  BY <1>1, <1>7 DEF bv

\* Titles alone are no profile.
LEMMA TitlesUntested ==
  ASSUME ProfTypes, \A i \in DOMAIN catalog : catalog[i].sets = {},
         NEW mode \in Modes,
         \/ mode = BestValidated
         \/ ~catalog[<<"game", BestPerformance>>].there
         \/ catalog[<<"game", BestPerformance>>].inherits,
         NEW sc \in Scopes
  PROVE  ~Given(sc, mode).validated
<1> DEFINE valid(x, m) == Product(<<x, m>>).validated
           fast == <<"game", BestPerformance>>
<1>1. \A i \in Indices : catalog[i].sets = {}
  BY ProfilesAssumption DEF ProfTypes, Indices
<1>2. \A i \in Indices : \A base :
        Layered(catalog, i, base).validated <=> base.validated
  <2> SUFFICES ASSUME NEW i \in Indices, NEW base
               PROVE  Layered(catalog, i, base).validated <=> base.validated
    OBVIOUS
  <2>1. Layered(catalog, i, base).validated
          = (base.validated \/ catalog[i].sets # {})
    BY DEF Layered
  <2> QED
    BY <1>1, <2>1
<1>3. \A x \in Scopes, m \in Modes : <<x, m>> \in Indices
  BY DEF Indices
<1>4. "game" \in Scopes /\ "chip" \in Scopes /\ "device" \in Scopes
        /\ BestValidated \in Modes /\ BestPerformance \in Modes
  BY ModesAre
<1>5. ~Ground(catalog, BestValidated).validated
  <2>1. Ground(catalog, BestValidated).validated
          = ~(BestValidated = BestValidated
                /\ catalog[<<"game", BestValidated>>].sets = {}
                /\ ~catalog[<<"game", BestValidated>>].inherits)
    BY DEF Ground
  <2>2. ~catalog[<<"game", BestValidated>>].inherits
    BY DEF ProfTypes, ValidCatalog
  <2> QED
    BY <1>1, <1>3, <1>4, <2>1, <2>2
<1>6. ~valid("game", BestValidated)
  BY <1>2, <1>3, <1>4, <1>5, GameProducts
<1>7. \A x : Given(x, BestValidated) = Product(<<x, BestValidated>>)
  BY DEF Given
<1>8. ~valid("chip", BestValidated)
  BY <1>2, <1>3, <1>4, <1>6, <1>7, ScopedProducts DEF Base, ProfTypes
<1>9. ~valid("device", BestValidated)
  BY <1>2, <1>3, <1>4, <1>6, <1>7, <1>8, ScopedProducts DEF Base, ProfTypes
<1>10. CASE mode = BestValidated
  BY <1>6, <1>7, <1>8, <1>9, <1>10, ModesAre
<1>11. CASE mode = BestPerformance
  <2>1. ~catalog[fast].there \/ catalog[fast].inherits
    BY <1>11, ModesAre
  <2>2. ~Given("game", BestPerformance).validated
    <3>1. CASE ~catalog[fast].there
      <4>1. ~Product(fast).found
        BY <1>3, <1>4, <3>1, FoundIsDeclared DEF Declared
      <4> QED
        BY <1>6, <4>1 DEF Given
    <3>2. CASE catalog[fast].inherits
      <4>1. ~Product(fast).validated
        BY <1>2, <1>3, <1>4, <1>6, <3>2, GameProducts
      <4> QED
        BY <1>6, <4>1 DEF Given
    <3> QED
      BY <2>1, <3>1, <3>2
  <2>3. ASSUME NEW x \in {"chip", "device"}, ~valid(x, BestValidated),
               x = "device" => ~Given("chip", BestPerformance).validated
        PROVE  ~Given(x, BestPerformance).validated
    <3>1. ~Base(x, BestPerformance).validated
      BY <2>2, <2>3 DEF Base
    <3>2. ~valid(x, BestPerformance)
      <4>1. <<x, BestPerformance>> \in Indices
        BY <1>3, <1>4
      <4> QED
        BY <1>2, <2>3, <3>1, <4>1, ScopedProducts DEF ProfTypes
    <3> QED
      BY <2>3, <3>2 DEF Given
  <2>4. ~Given("chip", BestPerformance).validated
    BY <1>8, <2>3
  <2>5. ~Given("device", BestPerformance).validated
    BY <1>9, <2>3, <2>4
  <2> QED
    BY <1>11, <2>2, <2>4, <2>5, ModesAre
<1> QED
  BY <1>10, <1>11, ModesAre
-----------------------------------------------------------------------------
(* Profiles: what is configured while a game is started.                   *)

\* The profile laid over what the player configured.
Applied ==
  [s \in Options |->
     IF Selected.settings[s] = Nobody \/ s \in manual THEN written[s]
     ELSE Selected.settings[s]]

ConfIs ==
  \/ conf = written
  \/ profPc \notin {"configured", "loaded"} /\ Selected.found /\ conf = Applied

\* Until the core was told, what it has is old only if that is noted.
CoreIs ==
  /\ profPc \in {"loaded", "played"} => coreHas = conf
  /\ profPc \in {"resolved", "running"} => (dirty \/ coreHas = conf)

ProfInv == ProfTypes /\ ConfIs /\ CoreIs

LEMMA ProfInvInit == ProfInit => ProfInv
BY DEF ProfInit, ProfInv, ProfTypes, ConfIs, CoreIs

LEMMA ProfInvNext == ProfInv /\ [ProfNext]_profVars => ProfInv'
<1> SUFFICES ASSUME ProfInv, [ProfNext]_profVars PROVE ProfInv'
  OBVIOUS
<1> USE DEF ProfInv
<1>1. ASSUME UNCHANGED <<catalog, mapped, written, manual, wished>>
      PROVE  Selected' = Selected /\ Applied' = Applied
  BY <1>1 DEF Selected, Applied
<1>2. CASE CoreLoads
  BY <1>2 DEF CoreLoads, ProfTypes, ConfIs, CoreIs
<1>3. CASE ApplyFlycastGameCatalog
  <2>1. profPc = "loaded" /\ conf = written /\ coreHas = conf
    BY <1>3 DEF ApplyFlycastGameCatalog, ConfIs, CoreIs
  <2>2. conf' = written \/ (Selected.found /\ conf' = Applied)
    BY <1>3, <2>1
    DEF ApplyFlycastGameCatalog, Overridden, Selected, Applied
  <2>3. ConfIs'
    BY <1>1, <1>3, <2>2 DEF ApplyFlycastGameCatalog, ConfIs
  <2>4. ProfTypes' /\ CoreIs'
    BY <1>3, <2>1 DEF ApplyFlycastGameCatalog, ProfTypes, CoreIs
  <2> QED
    BY <2>3, <2>4
<1>4. CASE RestartWithVariant
  BY <1>4 DEF RestartWithVariant, ProfTypes, ConfIs, CoreIs
<1>5. CASE CoreLoadsGame
  <2>1. ConfIs'
    BY <1>1, <1>5 DEF CoreLoadsGame, ConfIs
  <2> QED
    BY <1>5, <2>1 DEF CoreLoadsGame, ProfTypes, CoreIs
<1>6. CASE CoreRuns
  <2>1. ConfIs'
    BY <1>1, <1>6 DEF CoreRuns, ConfIs
  <2> QED
    BY <1>6, <2>1 DEF CoreRuns, ProfTypes, CoreIs
<1>7. CASE UNCHANGED profVars
  <2>1. ConfIs'
    BY <1>1, <1>7 DEF profVars, ConfIs
  <2> QED
    BY <1>7, <2>1 DEF profVars, ProfTypes, CoreIs
<1> QED
  BY <1>2, <1>3, <1>4, <1>5, <1>6, <1>7 DEF ProfNext

\* A configuration that is not the player's is the selected profile's.
LEMMA ProfileHonoured ==
  ASSUME ProfInv, conf # written
  PROVE  /\ wished \in Modes /\ profPc \notin {"configured", "loaded"}
         /\ Selected.found /\ conf = Applied
BY SelectedIs DEF ProfInv, ConfIs

LEMMA PlayersSettings ==
  ASSUME ProfInv
  PROVE  ManualKept /\ CoreUpToDate
<1>1. \A s \in manual : conf[s] = written[s]
  BY DEF ProfInv, ProfTypes, ConfIs, Applied
<1> QED
  BY <1>1 DEF ManualKept, CoreUpToDate, ProfInv, CoreIs

LEMMA ModeIs ==
  ASSUME ProfInv
  PROVE  ModeHonoured
<1>1. ASSUME wished = "disabled" PROVE conf = written
  BY <1>1, ProfileHonoured DEF Modes, BestValidated, BestPerformance
<1>2. ASSUME wished = BestValidated, NEW s \in Options
      PROVE  conf[s] \notin Scopes \X {BestPerformance}
  <2>1. Scopes \X {BestPerformance} \subseteq Indices
    BY ModesAre DEF Indices
  <2>2. written[s] \notin Indices
    BY NobodysValue DEF ProfInv, ProfTypes
  <2>3. CASE conf = written
    BY <2>1, <2>2, <2>3
  <2>4. CASE conf # written
    <3>1. conf = Applied /\ Selected.found /\ ProfTypes
      BY <2>4, ProfileHonoured DEF ProfInv
    <3>2. conf[s] = written[s] \/ conf[s] = Selected.settings[s]
      BY <3>1 DEF Applied
    <3>3. PICK sc \in Scopes : Selected = Given(sc, BestValidated)
      BY <1>2, <3>1, SelectedIs
    <3>4. Selected.settings[s] \notin Scopes \X {BestPerformance}
      BY <3>1, <3>3, ValidatedOnly
    <3> QED
      BY <2>1, <2>2, <3>2, <3>4
  <2> QED
    BY <2>3, <2>4
<1> QED
  BY <1>1, <1>2 DEF ModeHonoured

LEMMA TitlesAre ==
  ASSUME ProfInv
  PROVE  UntestedUntouched
<1> SUFFICES ASSUME \A i \in DOMAIN catalog : catalog[i].sets = {},
                    \/ wished = BestValidated
                    \/ ~catalog[<<"game", BestPerformance>>].there
                    \/ catalog[<<"game", BestPerformance>>].inherits,
                    conf # written
             PROVE  FALSE
  BY DEF UntestedUntouched
<1>1. wished \in Modes /\ Selected.found /\ ProfTypes
  BY ProfileHonoured DEF ProfInv
<1>2. PICK sc \in Scopes : Selected = Given(sc, wished) /\ Selected.validated
  BY <1>1, SelectedIs
<1> QED
  BY <1>1, <1>2, TitlesUntested

LEMMA LayersAre ==
  ASSUME ProfInv
  PROVE  LayersInOrder
<1> SUFFICES ASSUME conf # written
             PROVE  \E sc \in Scopes :
                      /\ wished \in Modes /\ Serves(sc)
                      /\ (sc # "device" => ~Serves("device"))
                      /\ (sc = "game" => ~Serves("chip"))
                      /\ \A s \in Options \ manual :
                           conf[s] = IF Author(Serving(sc), s) = Nobody
                                     THEN written[s]
                                     ELSE Author(Serving(sc), s)
  BY DEF LayersInOrder
<1>1. wished \in Modes /\ Selected.found /\ ProfTypes /\ conf = Applied
  BY ProfileHonoured DEF ProfInv
<1>2. PICK sc \in Scopes :
        /\ Serves(sc)
        /\ (sc # "device" => ~Serves("device"))
        /\ (sc = "game" => ~Serves("chip"))
        /\ \A s \in Options : Selected.settings[s] = Author(Serving(sc), s)
  BY <1>1, SelectedIs
<1>3. \A s \in Options \ manual :
        conf[s] = IF Author(Serving(sc), s) = Nobody THEN written[s]
                  ELSE Author(Serving(sc), s)
  BY <1>1, <1>2 DEF Applied
<1> QED
  BY <1>1, <1>2, <1>3

\* A game plays with the settings of the most specific records that were
\* tested in the configured mode, found by looking at the catalog rather than
\* by composing its products as parseCatalog does; nothing the player set by
\* hand changes, titles change nothing, a best_validated start takes nothing
\* only best_performance declares, and the core has what is configured.
THEOREM ProfilesHold == ProfSpec => []ProfileTrue
<1>1. ProfInv => ProfileTrue
  BY PlayersSettings, ModeIs, TitlesAre, LayersAre DEF ProfileTrue
<1> QED
  BY <1>1, ProfInvInit, ProfInvNext, PTL DEF ProfSpec
=============================================================================
