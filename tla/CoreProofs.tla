----------------------------- MODULE CoreProofs ------------------------------
(***************************************************************************)
(* The life of a core and of the process around it, proved for any number  *)
(* of restarts: the order of a start, of a failure at each of its steps,   *)
(* and of a shutdown; what the core and the frontend agree on through      *)
(* core_environment, for any options, registrations, profiles and types;   *)
(* its save states, for any set of slots and any number of contents,       *)
(* requests and crashes: the types, the files and the loading thread; and  *)
(* the sizes and the ratio of its picture, whatever it asks for and when.  *)
(***************************************************************************)
EXTENDS CoreLifecycle, CoreEnvironment, SaveStates, Geometry,
        SequenceTheorems, WellFoundedInduction, TLAPS

-----------------------------------------------------------------------------
(* The stages of a process, as far as the invariant tells them apart.      *)

Starting == {"arguments", "platform", "open"}
Named == {"profile", "variant", "content"}
Loaded == {"sound", "services", "slot", "battery", "loop", "sram"}
Stopping == {"load", "network", "catalog", "achievements", "decorations",
             "callbacks"}
Silent == {"audio", "video", "game", "core", "surfaces", "input", "library"}
Unloaded == {"core", "surfaces", "input", "library"}

LifeTypes ==
  /\ lifePc \in Starting \cup {"init"} \cup Named
                  \cup {"load_game", "configure"} \cup Loaded \cup Stopping
                  \cup Silent \cup {"ended"}
  /\ core \in [handle : BOOLEAN, initialized : BOOLEAN, loaded : BOOLEAN,
               callbacks : BOOLEAN]
  /\ hooks \subseteq {"keyboard", "disk", "context"}
  /\ up \subseteq {"input", "loading", "surfaces", "video", "context", "audio",
                   "achievements", "decorations"}
  /\ threads \subseteq {"loading", "load", "network", "catalog",
                        "achievements"}
  /\ legacy \in BOOLEAN /\ temp \in BOOLEAN

\* What the core has been told: it is initialised before its game is loaded,
\* and unloads the game first; the legacy core is never deinitialised.
CoreStage ==
  /\ lifePc \in Starting => core = NoCore
  /\ lifePc \in Starting \cup {"init"} => hooks = {}
  /\ lifePc \in Named \cup {"load_game", "configure"} \cup Loaded
                  \cup Stopping \cup {"audio", "video", "game"}
       => core.initialized
  /\ lifePc \in {"configure", "audio", "video", "game"} \cup Loaded
                  \cup Stopping
       => core.loaded
  /\ lifePc \in Named \cup {"load_game"} => "context" \notin hooks
  /\ lifePc \in Silent => ~core.callbacks
  /\ lifePc \in {"game"} \cup Unloaded => "context" \notin hooks
  /\ lifePc \in Unloaded \ {"core"} /\ ~legacy => hooks = {}

\* What is up: brought up by the start, taken down in the order of a stop.
UpStage ==
  /\ lifePc \in Starting \cup {"init", "load_game", "configure"} \cup Named
       => up \subseteq {"input", "loading"}
  /\ lifePc \in Loaded \cup Stopping \cup Silent => "loading" \notin up
  /\ lifePc \in {"loop", "sram"} \cup Stopping
       => {"audio", "video", "surfaces"} \subseteq up
  /\ lifePc \in {"services", "slot", "battery"}
       => {"video", "surfaces", "audio"} \subseteq up
  /\ lifePc = "sound" => {"video", "surfaces"} \subseteq up
  /\ lifePc \in {"decorations", "callbacks"} \cup Silent
       => "achievements" \notin up
  /\ lifePc \in {"callbacks"} \cup Silent => "decorations" \notin up
  /\ lifePc \in Silent \ {"audio"} => "audio" \notin up
  /\ lifePc \in {"game"} \cup Unloaded => up \cap {"video", "context"} = {}
  /\ lifePc \in {"input", "library"} => "surfaces" \notin up
  /\ lifePc = "library" => "input" \notin up

ThreadStage ==
  /\ lifePc \in Starting \cup {"init", "load_game", "configure"} \cup Named
       => threads \subseteq {"loading"}
  /\ lifePc \in Loaded \cup Stopping => "loading" \notin threads
  /\ lifePc \in {"network", "catalog", "achievements"}
       => "load" \notin threads
  /\ lifePc \in {"catalog", "achievements"} => "network" \notin threads
  /\ lifePc = "achievements" => "catalog" \notin threads
  /\ lifePc \in {"decorations", "callbacks"} \cup Silent => threads = {}

\* The directory of an extracted archive, which the legacy core never has.
TempStage ==
  /\ lifePc \in Starting \cup {"init"} \cup Named => temp = FALSE
  /\ legacy => temp = FALSE
  /\ lifePc = "ended" <=> outcome # "none"

LifeInv ==
  /\ LifeTypes /\ CoreStage /\ UpStage /\ ThreadStage /\ TempStage
  /\ OrderlyEnd

-----------------------------------------------------------------------------
(* Lemmas.                                                                 *)

\* The stages of a shutdown follow each other.
LEMMA NextStage ==
  ASSUME NEW pc \in Stopping \cup Silent, Shut(pc)
  PROVE  /\ lifePc = pc
         /\ lifePc' = CASE pc = "load" -> "network"
                        [] pc = "network" -> "catalog"
                        [] pc = "catalog" -> "achievements"
                        [] pc = "achievements" -> "decorations"
                        [] pc = "decorations" -> "callbacks"
                        [] pc = "callbacks" -> "audio"
                        [] pc = "audio" -> "video"
                        [] pc = "video" -> "game"
                        [] pc = "game" -> "core"
                        [] pc = "core" -> "surfaces"
                        [] pc = "surfaces" -> "input"
                        [] pc = "input" -> "library"
  <1>1. /\ Len(Order) = 13 /\ Order[1] = "load" /\ Order[2] = "network"
        /\ Order[3] = "catalog" /\ Order[4] = "achievements"
        /\ Order[5] = "decorations" /\ Order[6] = "callbacks"
        /\ Order[7] = "audio" /\ Order[8] = "video" /\ Order[9] = "game"
        /\ Order[10] = "core" /\ Order[11] = "surfaces"
        /\ Order[12] = "input" /\ Order[13] = "library"
    BY DEF Order
  <1>2. PICK i \in 1 .. 12 : Order[i] = pc /\ lifePc = pc
                             /\ lifePc' = Order[i + 1]
    BY <1>1 DEF Shut
  <1>3. i \in {1, 2, 3, 4, 5, 6, 7, 8, 9, 10, 11, 12}
    BY <1>2
  <1> QED BY <1>1, <1>2, <1>3

\* The stages are those before the core is silent, and those after.
LEMMA StagesAre ==
  Stages = Stopping \cup Silent
  <1>1. /\ Len(Order) = 13 /\ Order[1] = "load" /\ Order[2] = "network"
        /\ Order[3] = "catalog" /\ Order[4] = "achievements"
        /\ Order[5] = "decorations" /\ Order[6] = "callbacks"
        /\ Order[7] = "audio" /\ Order[8] = "video" /\ Order[9] = "game"
        /\ Order[10] = "core" /\ Order[11] = "surfaces"
        /\ Order[12] = "input" /\ Order[13] = "library"
    BY DEF Order
  <1>2. 1 .. 13 = {1, 2, 3, 4, 5, 6, 7, 8, 9, 10, 11, 12, 13}
    OBVIOUS
  <1> QED BY <1>1, <1>2 DEF Stages, Stopping, Silent

\* A process starts with nothing.
LEMMA LifeInvInit == LifeInit => LifeInv
  <1> SUFFICES ASSUME LifeInit PROVE LifeInv
    OBVIOUS
  <1>1. LifeTypes
    BY StagesAre DEF LifeInit, LifeInv, LifeTypes, CoreStage, UpStage,
       ThreadStage, TempStage, OrderlyEnd, CoreOutlivesUsers, EndsClean,
       Starting, Named, Loaded, Stopping, Silent, Unloaded, NoCore
  <1>2. CoreStage
    BY StagesAre DEF LifeInit, LifeInv, LifeTypes, CoreStage, UpStage,
       ThreadStage, TempStage, OrderlyEnd, CoreOutlivesUsers, EndsClean,
       Starting, Named, Loaded, Stopping, Silent, Unloaded, NoCore
  <1>3. UpStage
    BY StagesAre DEF LifeInit, LifeInv, LifeTypes, CoreStage, UpStage,
       ThreadStage, TempStage, OrderlyEnd, CoreOutlivesUsers, EndsClean,
       Starting, Named, Loaded, Stopping, Silent, Unloaded, NoCore
  <1>4. ThreadStage
    BY StagesAre DEF LifeInit, LifeInv, LifeTypes, CoreStage, UpStage,
       ThreadStage, TempStage, OrderlyEnd, CoreOutlivesUsers, EndsClean,
       Starting, Named, Loaded, Stopping, Silent, Unloaded, NoCore
  <1>5. TempStage
    BY StagesAre DEF LifeInit, LifeInv, LifeTypes, CoreStage, UpStage,
       ThreadStage, TempStage, OrderlyEnd, CoreOutlivesUsers, EndsClean,
       Starting, Named, Loaded, Stopping, Silent, Unloaded, NoCore
  <1>6. OrderlyEnd
    BY StagesAre DEF LifeInit, LifeInv, LifeTypes, CoreStage, UpStage,
       ThreadStage, TempStage, OrderlyEnd, CoreOutlivesUsers, EndsClean,
       Starting, Named, Loaded, Stopping, Silent, Unloaded, NoCore
  <1> QED BY <1>1, <1>2, <1>3, <1>4, <1>5, <1>6 DEF LifeInv

\* However a process ends early, what the invariant says stays true.
LEMMA FailKeeps ==
  ASSUME LifeInv, lifePc # "ended", Fail
  PROVE  LifeInv'
  BY StagesAre DEF Fail, Discarded, LifeInv, LifeTypes, CoreStage, UpStage,
     ThreadStage, TempStage, OrderlyEnd, CoreOutlivesUsers, EndsClean,
     Starting, Named, Loaded, Stopping, Silent, Unloaded, NoCore

\* An exit that finds a thread still running aborts, and promises nothing.
LEMMA ExitKeeps ==
  ASSUME LifeInv, lifePc # "ended", ExitCall
  PROVE  LifeInv'
  BY StagesAre DEF ExitCall, LifeInv, LifeTypes, CoreStage, UpStage,
     ThreadStage, TempStage, OrderlyEnd, CoreOutlivesUsers, EndsClean,
     Starting, Named, Loaded, Stopping, Silent, Unloaded, NoCore

\* One case for each step of a start, of the loop and of a stop.
LEMMA LifeInvNext ==
  ASSUME LifeInv, [LifeNext]_lifeVars
  PROVE  LifeInv'
  <1> USE StagesAre
  <1>1. CASE Arguments
    <2>1. CASE Fail
      BY <2>1, <1>1, FailKeeps, ExitKeeps DEF Arguments
    <2>2. CASE ~(Fail)
      BY <2>2, <1>1 DEF Arguments, LifeInv, LifeTypes, CoreStage, UpStage,
         ThreadStage, TempStage, OrderlyEnd, CoreOutlivesUsers, EndsClean,
         Starting, Named, Loaded, Stopping, Silent, Unloaded, NoCore
    <2> QED BY <2>1, <2>2
  <1>2. CASE Platform
    <2>1. CASE Fail \/ ExitCall
      BY <2>1, <1>2, FailKeeps, ExitKeeps DEF Platform
    <2>2. CASE ~(Fail \/ ExitCall)
      BY <2>2, <1>2 DEF Platform, LifeInv, LifeTypes, CoreStage, UpStage,
         ThreadStage, TempStage, OrderlyEnd, CoreOutlivesUsers, EndsClean,
         Starting, Named, Loaded, Stopping, Silent, Unloaded, NoCore
    <2> QED BY <2>1, <2>2
  <1>3. CASE Open
    <2>1. CASE Fail
      BY <2>1, <1>3, FailKeeps, ExitKeeps DEF Open
    <2>2. CASE ~(Fail)
      BY <2>2, <1>3 DEF Open, LifeInv, LifeTypes, CoreStage, UpStage,
         ThreadStage, TempStage, OrderlyEnd, CoreOutlivesUsers, EndsClean,
         Starting, Named, Loaded, Stopping, Silent, Unloaded, NoCore
    <2> QED BY <2>1, <2>2
  <1>4. CASE CoreInit
    <2>1. CASE Fail
      BY <2>1, <1>4, FailKeeps, ExitKeeps DEF CoreInit
    <2>2. CASE ~(Fail)
      <3>1. LifeTypes'
        BY <2>2, <1>4 DEF CoreInit, Environment, LifeInv, LifeTypes,
           CoreStage, UpStage, ThreadStage, TempStage, OrderlyEnd,
           CoreOutlivesUsers, EndsClean, Starting, Named, Loaded, Stopping,
           Silent, Unloaded, NoCore
      <3>2. CoreStage'
        BY <2>2, <1>4 DEF CoreInit, Environment, LifeInv, LifeTypes,
           CoreStage, UpStage, ThreadStage, TempStage, OrderlyEnd,
           CoreOutlivesUsers, EndsClean, Starting, Named, Loaded, Stopping,
           Silent, Unloaded, NoCore
      <3>3. UpStage'
        BY <2>2, <1>4 DEF CoreInit, Environment, LifeInv, LifeTypes,
           CoreStage, UpStage, ThreadStage, TempStage, OrderlyEnd,
           CoreOutlivesUsers, EndsClean, Starting, Named, Loaded, Stopping,
           Silent, Unloaded, NoCore
      <3>4. ThreadStage'
        BY <2>2, <1>4 DEF CoreInit, Environment, LifeInv, LifeTypes,
           CoreStage, UpStage, ThreadStage, TempStage, OrderlyEnd,
           CoreOutlivesUsers, EndsClean, Starting, Named, Loaded, Stopping,
           Silent, Unloaded, NoCore
      <3>5. TempStage'
        BY <2>2, <1>4 DEF CoreInit, Environment, LifeInv, LifeTypes,
           CoreStage, UpStage, ThreadStage, TempStage, OrderlyEnd,
           CoreOutlivesUsers, EndsClean, Starting, Named, Loaded, Stopping,
           Silent, Unloaded, NoCore
      <3>6. OrderlyEnd'
        BY <2>2, <1>4 DEF CoreInit, Environment, LifeInv, LifeTypes,
           CoreStage, UpStage, ThreadStage, TempStage, OrderlyEnd,
           CoreOutlivesUsers, EndsClean, Starting, Named, Loaded, Stopping,
           Silent, Unloaded, NoCore
      <3> QED BY <3>1, <3>2, <3>3, <3>4, <3>5, <3>6 DEF LifeInv
    <2> QED BY <2>1, <2>2
  <1>5. CASE AskVariant
    BY <1>5 DEF AskVariant, LifeInv, LifeTypes, CoreStage, UpStage,
       ThreadStage, TempStage, OrderlyEnd, CoreOutlivesUsers, EndsClean,
       Starting, Named, Loaded, Stopping, Silent, Unloaded, NoCore
  <1>6. CASE Restart
    BY <1>6 DEF Restart, MayRestart, LifeInv, LifeTypes, CoreStage, UpStage,
       ThreadStage, TempStage, OrderlyEnd, CoreOutlivesUsers, EndsClean,
       Starting, Named, Loaded, Stopping, Silent, Unloaded, NoCore
  <1>7. CASE Proceed
    BY <1>7 DEF Proceed, LifeInv, LifeTypes, CoreStage, UpStage, ThreadStage,
       TempStage, OrderlyEnd, CoreOutlivesUsers, EndsClean, Starting, Named,
       Loaded, Stopping, Silent, Unloaded, NoCore
  <1>8. CASE Setting
    <2>1. CASE Fail
      BY <2>1, <1>8, FailKeeps, ExitKeeps DEF Setting
    <2>2. CASE ~(Fail)
      BY <2>2, <1>8 DEF Setting, LifeInv, LifeTypes, CoreStage, UpStage,
         ThreadStage, TempStage, OrderlyEnd, CoreOutlivesUsers, EndsClean,
         Starting, Named, Loaded, Stopping, Silent, Unloaded, NoCore
    <2> QED BY <2>1, <2>2
  <1>9. CASE Prepare
    <2>1. CASE Fail
      BY <2>1, <1>9, FailKeeps, ExitKeeps DEF Prepare
    <2>2. CASE ~(Fail)
      BY <2>2, <1>9 DEF Prepare, LifeInv, LifeTypes, CoreStage, UpStage,
         ThreadStage, TempStage, OrderlyEnd, CoreOutlivesUsers, EndsClean,
         Starting, Named, Loaded, Stopping, Silent, Unloaded, NoCore
    <2> QED BY <2>1, <2>2
  <1>10. CASE LoadGame
    <2>1. CASE Fail
      BY <2>1, <1>10, FailKeeps, ExitKeeps DEF LoadGame
    <2>2. CASE ~(Fail)
      BY <2>2, <1>10 DEF LoadGame, Environment, LifeInv, LifeTypes,
         CoreStage, UpStage, ThreadStage, TempStage, OrderlyEnd,
         CoreOutlivesUsers, EndsClean, Starting, Named, Loaded, Stopping,
         Silent, Unloaded, NoCore
    <2> QED BY <2>1, <2>2
  <1>11. CASE InitVideo
    <2>1. CASE Fail
      BY <2>1, <1>11, FailKeeps, ExitKeeps DEF InitVideo
    <2>2. CASE ~(Fail)
      BY <2>2, <1>11 DEF InitVideo, LifeInv, LifeTypes, CoreStage, UpStage,
         ThreadStage, TempStage, OrderlyEnd, CoreOutlivesUsers, EndsClean,
         Starting, Named, Loaded, Stopping, Silent, Unloaded, NoCore
    <2> QED BY <2>1, <2>2
  <1>12. CASE InitAudio
    <2>1. CASE Fail
      BY <2>1, <1>12, FailKeeps, ExitKeeps DEF InitAudio
    <2>2. CASE ~(Fail)
      BY <2>2, <1>12 DEF InitAudio, LifeInv, LifeTypes, CoreStage, UpStage,
         ThreadStage, TempStage, OrderlyEnd, CoreOutlivesUsers, EndsClean,
         Starting, Named, Loaded, Stopping, Silent, Unloaded, NoCore
    <2> QED BY <2>1, <2>2
  <1>13. CASE Services
    BY <1>13 DEF Services, LifeInv, LifeTypes, CoreStage, UpStage,
       ThreadStage, TempStage, OrderlyEnd, CoreOutlivesUsers, EndsClean,
       Starting, Named, Loaded, Stopping, Silent, Unloaded, NoCore
  <1>14. CASE StartState
    <2>1. CASE Fail
      BY <2>1, <1>14, FailKeeps, ExitKeeps DEF StartState
    <2>2. CASE ~(Fail)
      BY <2>2, <1>14 DEF StartState, LifeInv, LifeTypes, CoreStage, UpStage,
         ThreadStage, TempStage, OrderlyEnd, CoreOutlivesUsers, EndsClean,
         Starting, Named, Loaded, Stopping, Silent, Unloaded, NoCore
    <2> QED BY <2>1, <2>2
  <1>15. CASE Battery
    <2>1. CASE Fail \/ ExitCall
      BY <2>1, <1>15, FailKeeps, ExitKeeps DEF Battery
    <2>2. CASE ~(Fail \/ ExitCall)
      BY <2>2, <1>15 DEF Battery, LifeInv, LifeTypes, CoreStage, UpStage,
         ThreadStage, TempStage, OrderlyEnd, CoreOutlivesUsers, EndsClean,
         Starting, Named, Loaded, Stopping, Silent, Unloaded, NoCore
    <2> QED BY <2>1, <2>2
  <1>16. CASE Frame
    BY <1>16 DEF Frame, Environment, LifeInv, LifeTypes, CoreStage, UpStage,
       ThreadStage, TempStage, OrderlyEnd, CoreOutlivesUsers, EndsClean,
       Starting, Named, Loaded, Stopping, Silent, Unloaded, NoCore
  <1>17. CASE LoopFails
    <2>1. CASE Fail \/ ExitCall
      BY <2>1, <1>17, FailKeeps, ExitKeeps DEF LoopFails
    <2>2. CASE ~(Fail \/ ExitCall)
      BY <2>2, <1>17 DEF LoopFails, LifeInv, LifeTypes, CoreStage, UpStage,
         ThreadStage, TempStage, OrderlyEnd, CoreOutlivesUsers, EndsClean,
         Starting, Named, Loaded, Stopping, Silent, Unloaded, NoCore
    <2> QED BY <2>1, <2>2
  <1>18. CASE Quit
    BY <1>18 DEF Quit, LifeInv, LifeTypes, CoreStage, UpStage, ThreadStage,
       TempStage, OrderlyEnd, CoreOutlivesUsers, EndsClean, Starting, Named,
       Loaded, Stopping, Silent, Unloaded, NoCore
  <1>19. CASE Persist
    <2>1. CASE Fail \/ ExitCall
      BY <2>1, <1>19, FailKeeps, ExitKeeps DEF Persist
    <2>2. CASE ~(Fail \/ ExitCall)
      BY <2>2, <1>19 DEF Persist, Order, LifeInv, LifeTypes, CoreStage,
         UpStage, ThreadStage, TempStage, OrderlyEnd, CoreOutlivesUsers,
         EndsClean, Starting, Named, Loaded, Stopping, Silent, Unloaded,
         NoCore
    <2> QED BY <2>1, <2>2
  <1>20. CASE StopThread("load")
    <2>1. Shut("load")
      BY <1>20 DEF StopThread
    <2>2. lifePc = "load" /\ lifePc' = "network"
      BY <2>1, NextStage DEF Stopping, Silent
    <2> QED
      BY <1>20, <2>2 DEF StopThread, ShutRest, LifeInv, LifeTypes, CoreStage,
         UpStage, ThreadStage, TempStage, OrderlyEnd, CoreOutlivesUsers,
         EndsClean, Starting, Named, Loaded, Stopping, Silent, Unloaded,
         NoCore
  <1>21. CASE StopThread("network")
    <2>1. Shut("network")
      BY <1>21 DEF StopThread
    <2>2. lifePc = "network" /\ lifePc' = "catalog"
      BY <2>1, NextStage DEF Stopping, Silent
    <2> QED
      BY <1>21, <2>2 DEF StopThread, ShutRest, LifeInv, LifeTypes, CoreStage,
         UpStage, ThreadStage, TempStage, OrderlyEnd, CoreOutlivesUsers,
         EndsClean, Starting, Named, Loaded, Stopping, Silent, Unloaded,
         NoCore
  <1>22. CASE StopThread("catalog")
    <2>1. Shut("catalog")
      BY <1>22 DEF StopThread
    <2>2. lifePc = "catalog" /\ lifePc' = "achievements"
      BY <2>1, NextStage DEF Stopping, Silent
    <2> QED
      BY <1>22, <2>2 DEF StopThread, ShutRest, LifeInv, LifeTypes, CoreStage,
         UpStage, ThreadStage, TempStage, OrderlyEnd, CoreOutlivesUsers,
         EndsClean, Starting, Named, Loaded, Stopping, Silent, Unloaded,
         NoCore
  <1>23. CASE StopAchievements
    <2>1. Shut("achievements")
      BY <1>23 DEF StopAchievements
    <2>2. lifePc = "achievements" /\ lifePc' = "decorations"
      BY <2>1, NextStage DEF Stopping, Silent
    <2> QED
      BY <1>23, <2>2 DEF StopAchievements, ShutRest, LifeInv, LifeTypes,
         CoreStage, UpStage, ThreadStage, TempStage, OrderlyEnd,
         CoreOutlivesUsers, EndsClean, Starting, Named, Loaded, Stopping,
         Silent, Unloaded, NoCore
  <1>24. CASE StopDevice("decorations")
    <2>1. Shut("decorations")
      BY <1>24 DEF StopDevice
    <2>2. lifePc = "decorations" /\ lifePc' = "callbacks"
      BY <2>1, NextStage DEF Stopping, Silent
    <2> QED
      BY <1>24, <2>2 DEF StopDevice, ShutRest, LifeInv, LifeTypes, CoreStage,
         UpStage, ThreadStage, TempStage, OrderlyEnd, CoreOutlivesUsers,
         EndsClean, Starting, Named, Loaded, Stopping, Silent, Unloaded,
         NoCore
  <1>25. CASE DisableCallbacks
    <2>1. Shut("callbacks")
      BY <1>25 DEF DisableCallbacks
    <2>2. lifePc = "callbacks" /\ lifePc' = "audio"
      BY <2>1, NextStage DEF Stopping, Silent
    <2> QED
      BY <1>25, <2>2 DEF DisableCallbacks, ShutRest, LifeInv, LifeTypes,
         CoreStage, UpStage, ThreadStage, TempStage, OrderlyEnd,
         CoreOutlivesUsers, EndsClean, Starting, Named, Loaded, Stopping,
         Silent, Unloaded, NoCore
  <1>26. CASE StopDevice("audio")
    <2>1. Shut("audio")
      BY <1>26 DEF StopDevice
    <2>2. lifePc = "audio" /\ lifePc' = "video"
      BY <2>1, NextStage DEF Stopping, Silent
    <2> QED
      BY <1>26, <2>2 DEF StopDevice, ShutRest, LifeInv, LifeTypes, CoreStage,
         UpStage, ThreadStage, TempStage, OrderlyEnd, CoreOutlivesUsers,
         EndsClean, Starting, Named, Loaded, Stopping, Silent, Unloaded,
         NoCore
  <1>27. CASE PrepareUnload
    <2>1. Shut("video")
      BY <1>27 DEF PrepareUnload
    <2>2. lifePc = "video" /\ lifePc' = "game"
      BY <2>1, NextStage DEF Stopping, Silent
    <2>3. LifeTypes'
      BY <1>27, <2>2 DEF PrepareUnload, ShutRest, LifeInv, LifeTypes,
         CoreStage, UpStage, ThreadStage, TempStage, OrderlyEnd,
         CoreOutlivesUsers, EndsClean, Starting, Named, Loaded, Stopping,
         Silent, Unloaded, NoCore
    <2>4. CoreStage'
      BY <1>27, <2>2 DEF PrepareUnload, ShutRest, LifeInv, LifeTypes,
         CoreStage, UpStage, ThreadStage, TempStage, OrderlyEnd,
         CoreOutlivesUsers, EndsClean, Starting, Named, Loaded, Stopping,
         Silent, Unloaded, NoCore
    <2>5. UpStage'
      BY <1>27, <2>2 DEF PrepareUnload, ShutRest, LifeInv, LifeTypes,
         CoreStage, UpStage, ThreadStage, TempStage, OrderlyEnd,
         CoreOutlivesUsers, EndsClean, Starting, Named, Loaded, Stopping,
         Silent, Unloaded, NoCore
    <2>6. ThreadStage'
      BY <1>27, <2>2 DEF PrepareUnload, ShutRest, LifeInv, LifeTypes,
         CoreStage, UpStage, ThreadStage, TempStage, OrderlyEnd,
         CoreOutlivesUsers, EndsClean, Starting, Named, Loaded, Stopping,
         Silent, Unloaded, NoCore
    <2>7. TempStage'
      BY <1>27, <2>2 DEF PrepareUnload, ShutRest, LifeInv, LifeTypes,
         CoreStage, UpStage, ThreadStage, TempStage, OrderlyEnd,
         CoreOutlivesUsers, EndsClean, Starting, Named, Loaded, Stopping,
         Silent, Unloaded, NoCore
    <2>8. OrderlyEnd'
      BY <1>27, <2>2 DEF PrepareUnload, ShutRest, LifeInv, LifeTypes,
         CoreStage, UpStage, ThreadStage, TempStage, OrderlyEnd,
         CoreOutlivesUsers, EndsClean, Starting, Named, Loaded, Stopping,
         Silent, Unloaded, NoCore
    <2> QED BY <2>3, <2>4, <2>5, <2>6, <2>7, <2>8 DEF LifeInv
  <1>28. CASE UnloadGame
    <2>2. lifePc = "game" /\ lifePc' = "core" /\ UNCHANGED outcome
      BY <1>28, NextStage DEF UnloadGame, Quirk, Silent
    <2>3. LifeTypes'
      BY <1>28, <2>2 DEF UnloadGame, LifeInv, LifeTypes, CoreStage, UpStage,
         ThreadStage, TempStage, OrderlyEnd, CoreOutlivesUsers, EndsClean,
         Starting, Named, Loaded, Stopping, Silent, Unloaded, NoCore
    <2>4. CoreStage'
      BY <1>28, <2>2 DEF UnloadGame, LifeInv, LifeTypes, CoreStage, UpStage,
         ThreadStage, TempStage, OrderlyEnd, CoreOutlivesUsers, EndsClean,
         Starting, Named, Loaded, Stopping, Silent, Unloaded, NoCore
    <2>5. UpStage'
      BY <1>28, <2>2 DEF UnloadGame, LifeInv, LifeTypes, CoreStage, UpStage,
         ThreadStage, TempStage, OrderlyEnd, CoreOutlivesUsers, EndsClean,
         Starting, Named, Loaded, Stopping, Silent, Unloaded, NoCore
    <2>6. ThreadStage'
      BY <1>28, <2>2 DEF UnloadGame, LifeInv, LifeTypes, CoreStage, UpStage,
         ThreadStage, TempStage, OrderlyEnd, CoreOutlivesUsers, EndsClean,
         Starting, Named, Loaded, Stopping, Silent, Unloaded, NoCore
    <2>7. TempStage'
      BY <1>28, <2>2 DEF UnloadGame, LifeInv, LifeTypes, CoreStage, UpStage,
         ThreadStage, TempStage, OrderlyEnd, CoreOutlivesUsers, EndsClean,
         Starting, Named, Loaded, Stopping, Silent, Unloaded, NoCore
    <2>8. OrderlyEnd'
      BY <1>28, <2>2 DEF UnloadGame, LifeInv, LifeTypes, CoreStage, UpStage,
         ThreadStage, TempStage, OrderlyEnd, CoreOutlivesUsers, EndsClean,
         Starting, Named, Loaded, Stopping, Silent, Unloaded, NoCore
    <2> QED BY <2>3, <2>4, <2>5, <2>6, <2>7, <2>8 DEF LifeInv
  <1>29. CASE Deinit
    <2>1. Shut("core")
      BY <1>29 DEF Deinit
    <2>2. lifePc = "core" /\ lifePc' = "surfaces"
      BY <2>1, NextStage DEF Stopping, Silent
    <2>3. CASE legacy
      <3>1. LifeTypes'
        BY <1>29, <2>2, <2>3 DEF Deinit, ShutRest, LifeInv, LifeTypes,
           CoreStage, UpStage, ThreadStage, TempStage, OrderlyEnd,
           CoreOutlivesUsers, EndsClean, Starting, Named, Loaded, Stopping,
           Silent, Unloaded, NoCore
      <3>2. CoreStage'
        BY <1>29, <2>2, <2>3 DEF Deinit, ShutRest, LifeInv, LifeTypes,
           CoreStage, UpStage, ThreadStage, TempStage, OrderlyEnd,
           CoreOutlivesUsers, EndsClean, Starting, Named, Loaded, Stopping,
           Silent, Unloaded, NoCore
      <3>3. UpStage'
        BY <1>29, <2>2, <2>3 DEF Deinit, ShutRest, LifeInv, LifeTypes,
           CoreStage, UpStage, ThreadStage, TempStage, OrderlyEnd,
           CoreOutlivesUsers, EndsClean, Starting, Named, Loaded, Stopping,
           Silent, Unloaded, NoCore
      <3>4. ThreadStage'
        BY <1>29, <2>2, <2>3 DEF Deinit, ShutRest, LifeInv, LifeTypes,
           CoreStage, UpStage, ThreadStage, TempStage, OrderlyEnd,
           CoreOutlivesUsers, EndsClean, Starting, Named, Loaded, Stopping,
           Silent, Unloaded, NoCore
      <3>5. TempStage'
        BY <1>29, <2>2, <2>3 DEF Deinit, ShutRest, LifeInv, LifeTypes,
           CoreStage, UpStage, ThreadStage, TempStage, OrderlyEnd,
           CoreOutlivesUsers, EndsClean, Starting, Named, Loaded, Stopping,
           Silent, Unloaded, NoCore
      <3>6. OrderlyEnd'
        BY <1>29, <2>2, <2>3 DEF Deinit, ShutRest, LifeInv, LifeTypes,
           CoreStage, UpStage, ThreadStage, TempStage, OrderlyEnd,
           CoreOutlivesUsers, EndsClean, Starting, Named, Loaded, Stopping,
           Silent, Unloaded, NoCore
      <3> QED BY <3>1, <3>2, <3>3, <3>4, <3>5, <3>6 DEF LifeInv
    <2>4. CASE ~legacy
      <3>1. /\ core'.initialized = FALSE /\ core'.callbacks = FALSE
            /\ core' \in [handle : BOOLEAN, initialized : BOOLEAN,
                         loaded : BOOLEAN, callbacks : BOOLEAN]
        BY <1>29, <2>4 DEF Deinit, LifeInv, LifeTypes
      <3>2. hooks' = {}
        BY <1>29, <2>2, <2>4
           DEF Deinit, LifeInv, LifeTypes, CoreStage, Unloaded
      <3>3. UNCHANGED <<legacy, wanted, temp, restarted, execs, benchmark,
                        outcome, up, threads>>
        BY <1>29 DEF Deinit, ShutRest
      <3>4. LifeTypes'
        BY <2>2, <2>4, <3>1, <3>2, <3>3 DEF LifeInv, LifeTypes, CoreStage,
           UpStage, ThreadStage, TempStage, OrderlyEnd, CoreOutlivesUsers,
           EndsClean, Starting, Named, Loaded, Stopping, Silent, Unloaded,
           NoCore
      <3>5. CoreStage'
        BY <2>2, <2>4, <3>1, <3>2, <3>3 DEF LifeInv, LifeTypes, CoreStage,
           UpStage, ThreadStage, TempStage, OrderlyEnd, CoreOutlivesUsers,
           EndsClean, Starting, Named, Loaded, Stopping, Silent, Unloaded,
           NoCore
      <3>6. UpStage'
        BY <2>2, <2>4, <3>1, <3>2, <3>3 DEF LifeInv, LifeTypes, CoreStage,
           UpStage, ThreadStage, TempStage, OrderlyEnd, CoreOutlivesUsers,
           EndsClean, Starting, Named, Loaded, Stopping, Silent, Unloaded,
           NoCore
      <3>7. ThreadStage'
        BY <2>2, <2>4, <3>1, <3>2, <3>3 DEF LifeInv, LifeTypes, CoreStage,
           UpStage, ThreadStage, TempStage, OrderlyEnd, CoreOutlivesUsers,
           EndsClean, Starting, Named, Loaded, Stopping, Silent, Unloaded,
           NoCore
      <3>8. TempStage'
        BY <2>2, <2>4, <3>1, <3>2, <3>3 DEF LifeInv, LifeTypes, CoreStage,
           UpStage, ThreadStage, TempStage, OrderlyEnd, CoreOutlivesUsers,
           EndsClean, Starting, Named, Loaded, Stopping, Silent, Unloaded,
           NoCore
      <3>9. OrderlyEnd'
        BY <2>2, <2>4, <3>1, <3>2, <3>3 DEF LifeInv, LifeTypes, CoreStage,
           UpStage, ThreadStage, TempStage, OrderlyEnd, CoreOutlivesUsers,
           EndsClean, Starting, Named, Loaded, Stopping, Silent, Unloaded,
           NoCore
      <3> QED BY <3>4, <3>5, <3>6, <3>7, <3>8, <3>9 DEF LifeInv
    <2> QED BY <2>3, <2>4
  <1>30. CASE StopDevice("surfaces")
    <2>1. Shut("surfaces")
      BY <1>30 DEF StopDevice
    <2>2. lifePc = "surfaces" /\ lifePc' = "input"
      BY <2>1, NextStage DEF Stopping, Silent
    <2> QED
      BY <1>30, <2>2 DEF StopDevice, ShutRest, LifeInv, LifeTypes, CoreStage,
         UpStage, ThreadStage, TempStage, OrderlyEnd, CoreOutlivesUsers,
         EndsClean, Starting, Named, Loaded, Stopping, Silent, Unloaded,
         NoCore
  <1>31. CASE StopDevice("input")
    <2>1. Shut("input")
      BY <1>31 DEF StopDevice
    <2>2. lifePc = "input" /\ lifePc' = "library"
      BY <2>1, NextStage DEF Stopping, Silent
    <2> QED
      BY <1>31, <2>2 DEF StopDevice, ShutRest, LifeInv, LifeTypes, CoreStage,
         UpStage, ThreadStage, TempStage, OrderlyEnd, CoreOutlivesUsers,
         EndsClean, Starting, Named, Loaded, Stopping, Silent, Unloaded,
         NoCore
  <1>32. CASE Close
    <2>3. CASE legacy
      <3>1. LifeTypes'
        BY <1>32, <2>3 DEF Close, LifeInv, LifeTypes, CoreStage, UpStage,
           ThreadStage, TempStage, OrderlyEnd, CoreOutlivesUsers, EndsClean,
           Starting, Named, Loaded, Stopping, Silent, Unloaded, NoCore
      <3>2. CoreStage'
        BY <1>32, <2>3 DEF Close, LifeInv, LifeTypes, CoreStage, UpStage,
           ThreadStage, TempStage, OrderlyEnd, CoreOutlivesUsers, EndsClean,
           Starting, Named, Loaded, Stopping, Silent, Unloaded, NoCore
      <3>3. UpStage'
        BY <1>32, <2>3 DEF Close, LifeInv, LifeTypes, CoreStage, UpStage,
           ThreadStage, TempStage, OrderlyEnd, CoreOutlivesUsers, EndsClean,
           Starting, Named, Loaded, Stopping, Silent, Unloaded, NoCore
      <3>4. ThreadStage'
        BY <1>32, <2>3 DEF Close, LifeInv, LifeTypes, CoreStage, UpStage,
           ThreadStage, TempStage, OrderlyEnd, CoreOutlivesUsers, EndsClean,
           Starting, Named, Loaded, Stopping, Silent, Unloaded, NoCore
      <3>5. TempStage'
        BY <1>32, <2>3 DEF Close, LifeInv, LifeTypes, CoreStage, UpStage,
           ThreadStage, TempStage, OrderlyEnd, CoreOutlivesUsers, EndsClean,
           Starting, Named, Loaded, Stopping, Silent, Unloaded, NoCore
      <3>6. OrderlyEnd'
        BY <1>32, <2>3 DEF Close, LifeInv, LifeTypes, CoreStage, UpStage,
           ThreadStage, TempStage, OrderlyEnd, CoreOutlivesUsers, EndsClean,
           Starting, Named, Loaded, Stopping, Silent, Unloaded, NoCore
      <3> QED BY <3>1, <3>2, <3>3, <3>4, <3>5, <3>6 DEF LifeInv
    <2>4. CASE ~legacy
      <3>0. core' = NoCore
        BY <1>32, <2>4 DEF Close
      <3>1. /\ core' = NoCore /\ core'.callbacks = FALSE
            /\ core' \in [handle : BOOLEAN, initialized : BOOLEAN,
                         loaded : BOOLEAN, callbacks : BOOLEAN]
        BY <3>0 DEF NoCore
      <3>2. /\ lifePc = "library" /\ lifePc' = "ended" /\ temp' = FALSE
            /\ hooks = {} /\ hooks' = {} /\ outcome' = "returned"
        BY <1>32, <2>4 DEF Close, LifeInv, CoreStage, Unloaded
      <3>3. UNCHANGED <<legacy, up, threads>>
        BY <1>32 DEF Close
      <3>4. LifeTypes'
        BY <2>4, <3>1, <3>2, <3>3 DEF LifeInv, LifeTypes, CoreStage, UpStage,
           ThreadStage, TempStage, OrderlyEnd, CoreOutlivesUsers, EndsClean,
           Starting, Named, Loaded, Stopping, Silent, Unloaded, NoCore
      <3>5. CoreStage'
        BY <2>4, <3>1, <3>2, <3>3 DEF LifeInv, LifeTypes, CoreStage, UpStage,
           ThreadStage, TempStage, OrderlyEnd, CoreOutlivesUsers, EndsClean,
           Starting, Named, Loaded, Stopping, Silent, Unloaded, NoCore
      <3>6. UpStage'
        BY <2>4, <3>1, <3>2, <3>3 DEF LifeInv, LifeTypes, CoreStage, UpStage,
           ThreadStage, TempStage, OrderlyEnd, CoreOutlivesUsers, EndsClean,
           Starting, Named, Loaded, Stopping, Silent, Unloaded, NoCore
      <3>7. ThreadStage'
        BY <2>4, <3>1, <3>2, <3>3 DEF LifeInv, LifeTypes, CoreStage, UpStage,
           ThreadStage, TempStage, OrderlyEnd, CoreOutlivesUsers, EndsClean,
           Starting, Named, Loaded, Stopping, Silent, Unloaded, NoCore
      <3>8. TempStage'
        BY <2>4, <3>1, <3>2, <3>3 DEF LifeInv, LifeTypes, CoreStage, UpStage,
           ThreadStage, TempStage, OrderlyEnd, CoreOutlivesUsers, EndsClean,
           Starting, Named, Loaded, Stopping, Silent, Unloaded, NoCore
      <3>9. OrderlyEnd'
        BY <2>4, <3>1, <3>2, <3>3 DEF LifeInv, LifeTypes, CoreStage, UpStage,
           ThreadStage, TempStage, OrderlyEnd, CoreOutlivesUsers, EndsClean,
           Starting, Named, Loaded, Stopping, Silent, Unloaded, NoCore
      <3> QED BY <3>4, <3>5, <3>6, <3>7, <3>8, <3>9 DEF LifeInv
    <2> QED BY <2>3, <2>4
  <1>33. CASE UNCHANGED lifeVars
    BY <1>33 DEF lifeVars, LifeInv, LifeTypes, CoreStage, UpStage,
       ThreadStage, TempStage, OrderlyEnd, CoreOutlivesUsers, EndsClean,
       Starting, Named, Loaded, Stopping, Silent, Unloaded, NoCore
  <1> QED
    BY <1>1, <1>2, <1>3, <1>4, <1>5, <1>6, <1>7, <1>8, <1>9, <1>10, <1>11,
       <1>12, <1>13, <1>14, <1>15, <1>16, <1>17, <1>18, <1>19, <1>20, <1>21,
       <1>22, <1>23, <1>24, <1>25, <1>26, <1>27, <1>28, <1>29, <1>30, <1>31,
       <1>32, <1>33 DEF LifeNext, Startup, Shutdown

\* Nothing that reads or calls the core outlives it, the core finds the devices
\* it calls into, and a process leaves no extracted content behind and stops
\* what it started, however many restarts it took and wherever it failed:
\* the start, restart and shutdown of main.cpp with core_loader and
\* archive_content.
THEOREM OrderlyEndHolds == LifeSpec => []OrderlyEnd
  <1>1. LifeInit => LifeInv
    BY LifeInvInit
  <1>2. LifeInv /\ [LifeNext]_lifeVars => LifeInv'
    BY LifeInvNext
  <1>3. LifeInv => OrderlyEnd
    BY DEF LifeInv
  <1> QED BY <1>1, <1>2, <1>3, PTL DEF LifeSpec

-----------------------------------------------------------------------------
(* What core and frontend agree on.                                        *)

EnvTypes ==
  /\ envPc \in {"init", "load", "configure", "running", "closed", "ended"}
  /\ \/ build = "go2" /\ renderer = "auto"
     \/ build \in {"gles", "gl"}
        /\ renderer \in {"auto", "software", "vulkan"}
  /\ counters \in Seq(Counters)
  /\ controllerMap \subseteq 0 .. MaxType
  /\ envPc \in {"init", "load", "configure"} => ~turned

\* Nothing is made and nothing called before the game is configured, and what
\* was granted names its hooks.
RenderStage ==
  /\ envPc \in {"init", "load", "configure"} => called = << >>
  /\ granted = NoRequest
     \/ granted \in [type : ContextTypes, hooks : {1, 2}]

EnvInv == EnvTypes /\ RenderStage /\ EnvironmentHonoured

\* A set of naturals has a least element.
LEMMA LeastNatural ==
  ASSUME NEW s \in SUBSET Nat, s # {}
  PROVE  \E m \in s : \A k \in s : m <= k
  <1> DEFINE R == OpToRel(<, Nat)
  <1>1. IsWellFoundedOn(R, Nat)
    BY NatLessThanWellFounded
  <1>2. \A k, m \in Nat : k < m => <<k, m>> \in R
    BY DEF OpToRel
  <1> HIDE DEF R
  <1>3. PICK m \in s : \A k \in s : ~(<<k, m>> \in R)
    BY <1>1, WFMin
  <1>4. ASSUME NEW k \in s PROVE m <= k
    <2>1. k \in Nat /\ m \in Nat /\ ~(<<k, m>> \in R)
      BY <1>3
    <2>2. ~(k < m)
      BY <1>2, <2>1
    <2> QED BY <2>1, <2>2
  <1> QED BY <1>4

\* What setDeviceType picks of the types above another, and of all of them.
LEMMA LeastType ==
  ASSUME NEW s \in SUBSET (0 .. MaxType), s # {}
  PROVE  (CHOOSE u \in s : \A v \in s : u <= v) \in s
  <1>1. s \in SUBSET Nat
    BY EnvironmentAssumption DEF EnvironmentAssumption
  <1> QED BY <1>1, LeastNatural

\* And of those below it: ids are bounded.
LEMMA GreatestType ==
  ASSUME NEW s \in SUBSET (0 .. MaxType), s # {}
  PROVE  (CHOOSE u \in s : \A v \in s : u >= v) \in s
  <1> DEFINE r == {MaxType - u : u \in s}
  <1>1. MaxType \in Nat
    BY EnvironmentAssumption DEF EnvironmentAssumption
  <1>2. r \in SUBSET Nat /\ r # {}
    <2>1. \A u \in s : MaxType - u \in Nat
      BY <1>1
    <2>2. PICK u \in s : TRUE
      OBVIOUS
    <2>3. MaxType - u \in r
      BY <2>2
    <2> QED BY <2>1, <2>3
  <1>3. PICK m \in r : \A k \in r : m <= k
    <2> HIDE DEF r
    <2> QED BY <1>2, LeastNatural
  <1>4. PICK u \in s : m = MaxType - u
    BY <1>3
  <1>5. \A v \in s : u >= v
    <2> TAKE v \in s
    <2>1. m <= MaxType - v
      BY <1>3
    <2> QED BY <2>1, <1>1, <1>4
  <1> QED BY <1>5

\* A type of the map has one after it and one before it in the map.
LEMMA TypesTurn ==
  ASSUME NEW t \in controllerMap, controllerMap \subseteq 0 .. MaxType
  PROVE  NextType(t) \in controllerMap /\ PreviousType(t) \in controllerMap
  <1>1. controllerMap \in SUBSET (0 .. MaxType)
    OBVIOUS
  <1>2. NextType(t) \in controllerMap
    <2> DEFINE above == {u \in controllerMap : u > t}
    <2>1. CASE above # {}
      <3>1. above \in SUBSET (0 .. MaxType) /\ above \subseteq controllerMap
        BY <1>1
      <3> HIDE DEF above
      <3>2. (CHOOSE u \in above : \A v \in above : u <= v) \in above
        BY <3>1, <2>1, LeastType
      <3> QED BY <3>1, <3>2, <2>1 DEF NextType, above
    <2>2. CASE above = {}
      BY <1>1, <2>2, LeastType DEF NextType
    <2> QED BY <2>1, <2>2
  <1>3. PreviousType(t) \in controllerMap
    <2> DEFINE below == {u \in controllerMap : u < t}
    <2>1. CASE below # {}
      <3>1. below \in SUBSET (0 .. MaxType) /\ below \subseteq controllerMap
        BY <1>1
      <3> HIDE DEF below
      <3>2. (CHOOSE u \in below : \A v \in below : u >= v) \in below
        BY <3>1, <2>1, GreatestType
      <3> QED BY <3>1, <3>2, <2>1 DEF PreviousType, below
    <2>2. CASE below = {}
      BY <1>1, <2>2, GreatestType DEF PreviousType
    <2> QED BY <2>1, <2>2
  <1> QED BY <1>2, <1>3

\* Before its first call a core agrees with the frontend on nothing.
LEMMA EnvInvInit == EnvInit => EnvInv
  <1> SUFFICES ASSUME EnvInit PROVE EnvInv
    OBVIOUS
  <1>1. EnvTypes
    BY DEF EnvInit, EnvTypes
  <1>2. RenderStage
    BY DEF EnvInit, RenderStage
  <1>3. OptionsCurrent
    BY DEF EnvInit, OptionsCurrent
  <1>4. RendererHonoured
    BY DEF EnvInit, RendererHonoured, preferred, Provided
  <1>5. DevicesTold
    BY DEF EnvInit, DevicesTold, Joypad
  <1> QED BY <1>1, <1>2, <1>3, <1>4, <1>5 DEF EnvInv, EnvironmentHonoured

\* The sequence of the hooks that were called.
LEMMA Appended ==
  ASSUME NEW a, NEW b
  PROVE  Append(<< a >>, b) = << a, b >>
  <1> DEFINE T == {a, b}
             s == Append(<< a >>, b)
  <1>1. << a >> \in Seq(T) /\ << a, b >> \in Seq(T) /\ b \in T
    OBVIOUS
  <1>2. s \in Seq(T) /\ Len(s) = 2 /\ s[1] = a /\ s[2] = b
    <2> HIDE DEF T
    <2> QED BY <1>1, AppendProperties
  <1>3. Len(<< a, b >>) = 2
    OBVIOUS
  <1>4. \A i \in 1 .. 2 : s[i] = << a, b >>[i]
    <2> HIDE DEF s, T
    <2>1. \A i \in 1 .. 2 : i = 1 \/ i = 2
      OBVIOUS
    <2> QED BY <1>2, <2>1
  <1> HIDE DEF s, T
  <1> QED BY <1>1, <1>2, <1>3, <1>4, SeqEqual DEF s

\* Reading options, some or all of those read before.
LEMMA SizeIsRead ==
  ASSUME OptionsCurrent, NEW ks \in SUBSET Keys, ReadOptions(ks),
         UNCHANGED <<conf_map, variables>>, updated' = updated
           \/ (\A k \in Keys : known[k] # Unread => k \in ks)
  PROVE  OptionsCurrent'
  BY EnvironmentAssumption
     DEF EnvironmentAssumption, OptionsCurrent, ReadOptions, Value,
         SizeAfterRead, Unread

\* The options, from each call and phase that touches them.
LEMMA OptionsNext ==
  ASSUME EnvInv, [EnvNext]_envVars
  PROVE  OptionsCurrent'
  <1>0. OptionsCurrent
    BY DEF EnvInv, EnvironmentHonoured
  <1>1. CASE SetCoreOptions
    <2>1. PICK list \in Registrations :
            /\ variables' = registerCoreOptions(list)
            /\ known' = [k \in Keys |->
                 IF \E i \in DOMAIN list : list[i].key = k THEN Unread
                 ELSE known[k]]
      BY <1>1 DEF SetCoreOptions
    <2>2. UNCHANGED <<conf_map, updated, coreSize>>
      BY <1>1 DEF SetCoreOptions
    <2> QED
      BY <1>0, <2>1, <2>2
         DEF OptionsCurrent, registerCoreOptions, Value, Unread
  <1>2. CASE GetVariable
    <2>1. PICK k \in Keys : ReadOptions({k})
      BY <1>2 DEF GetVariable
    <2>2. UNCHANGED <<conf_map, variables, updated>>
      BY <1>2 DEF GetVariable
    <2> QED BY <1>0, <2>1, <2>2, SizeIsRead
  <1>3. CASE GetVariableUpdate
    <2> DEFINE ks == {k \in Keys : known[k] # Unread}
    <2>1. ReadOptions(ks) /\ UNCHANGED <<conf_map, variables>>
      BY <1>3 DEF GetVariableUpdate
    <2> QED BY <1>0, <2>1, SizeIsRead
  <1>4. CASE EndInit
    <2>1. PICK over \in Overrides :
            conf_map' = Overlaid(over) /\ updated' = (updated \/ Changes(over))
      BY <1>4 DEF EndInit
    <2>2. UNCHANGED <<variables, coreSize, known>>
      BY <1>4 DEF EndInit
    <2>3. updated' \/ ~updated'
      OBVIOUS
    <2>4. CASE ~updated'
      <3>1. ~updated /\ \A k \in Keys : conf_map'[k] = conf_map[k]
        BY <2>1, <2>4 DEF Changes
      <3> QED
        BY <1>0, <2>2, <3>1, EnvironmentAssumption
           DEF OptionsCurrent, Value, EnvironmentAssumption
    <2> QED
      BY <2>3, <2>4 DEF OptionsCurrent
  <1>5. CASE UNCHANGED coreOptionVars
    BY <1>0, <1>5 DEF coreOptionVars, OptionsCurrent, Value
  <1> QED
    BY <1>1, <1>2, <1>3, <1>4, <1>5
       DEF EnvNext, OptionCalls, RenderCalls, DeviceCalls, Phases, envVars,
           SetPixelFormat, SetHwRender, SetControllerInfo, setDeviceType,
           Register, EndLoad, video_configure_core, EndCore

\* The renderer, from a request to the end of its context.
LEMMA RendererNext ==
  ASSUME EnvInv, [EnvNext]_envVars
  PROVE  RenderStage' /\ RendererHonoured'
  <1>0. EnvTypes /\ RenderStage /\ RendererHonoured
    BY DEF EnvInv, EnvironmentHonoured
  <1>1. preferred \in {"none", "vulkan"} \/ Provided(preferred)
    BY <1>0 DEF RendererHonoured
  <1>2. UNCHANGED <<build, renderer>>
    BY DEF EnvNext, OptionCalls, RenderCalls, DeviceCalls, Phases, envVars,
           SetPixelFormat, SetHwRender, SetControllerInfo, setDeviceType,
           Register, EndLoad, video_configure_core, EndCore, SetCoreOptions,
           GetVariable, GetVariableUpdate, EndInit, choiceOfBuild
  <1>3. (preferred \in {"none", "vulkan"} \/ Provided(preferred))'
    BY <1>1, <1>2 DEF preferred, Provided
  <1>4. CASE UNCHANGED <<renderVars, envPc>>
    BY <1>0, <1>3, <1>4
       DEF renderVars, RenderStage, RendererHonoured, CoreLives
  <1>5. CASE \E f \in Formats : SetPixelFormat(f)
    BY <1>0, <1>3, <1>5
       DEF SetPixelFormat, RenderStage, RendererHonoured, CoreLives
  <1>6. CASE SetHwRender
    <2>1. PICK type \in ContextTypes, which \in {1, 2} :
            LET request == [type |-> type, hooks |-> which]
            IN /\ hwRequest' = Judged(request)
               /\ granted' = IF Provided(type) THEN request ELSE granted
      BY <1>6 DEF SetHwRender
    <2>2. /\ UNCHANGED <<envPc, called, target>>
          /\ envPc = "load"
      BY <1>6 DEF SetHwRender
    <2> QED
      BY <1>0, <1>3, <2>1, <2>2
         DEF Judged, RenderStage, RendererHonoured, CoreLives
  <1>7. CASE EndInit
    <2>1. UNCHANGED renderVars /\ envPc = "init" /\ envPc' = "load"
      BY <1>7 DEF EndInit
    <2> QED
      BY <1>0, <1>3, <2>1
         DEF renderVars, RenderStage, RendererHonoured, CoreLives
  <1>8. CASE EndLoad
    <2>1. UNCHANGED renderVars /\ envPc = "load" /\ envPc' = "configure"
      BY <1>8 DEF EndLoad
    <2> QED
      BY <1>0, <1>3, <2>1
         DEF renderVars, RenderStage, RendererHonoured, CoreLives
  <1>9. CASE video_configure_core
    <2>1. /\ UNCHANGED <<color_format, hwRequest, granted>>
          /\ called = << >> /\ hwRequest = granted
      BY <1>0, <1>9
         DEF video_configure_core, RenderStage, RendererHonoured, CoreLives
    <2>2. CASE envPc' = "ended"
      BY <1>0, <1>3, <2>1, <2>2 DEF RenderStage, RendererHonoured, CoreLives
    <2>3. CASE envPc' # "ended"
      <3>1. /\ envPc' = "running" /\ target' = MadeTarget
            /\ called' = IF hwRequest # NoRequest
                         THEN Append(<< >>, <<"reset", hwRequest.hooks>>)
                         ELSE << >>
        BY <1>9, <2>1, <2>3 DEF video_configure_core
      <3>2. Append(<< >>, <<"reset", hwRequest.hooks>>)
              = << <<"reset", hwRequest.hooks>> >>
        OBVIOUS
      <3>3. CASE granted = NoRequest
        BY <1>0, <1>3, <2>1, <3>1, <3>3
           DEF RenderStage, RendererHonoured, CoreLives, MadeTarget,
               SurfaceFormat
      <3>4. CASE granted # NoRequest
        BY <1>0, <1>3, <2>1, <3>1, <3>2, <3>4
           DEF RenderStage, RendererHonoured, CoreLives, MadeTarget
      <3> QED BY <3>3, <3>4
    <2> QED BY <2>2, <2>3
  <1>10. CASE EndCore
    <2>1. /\ envPc = "running" /\ envPc' = "closed" /\ granted' = NoRequest
          /\ called' = IF target.kind = "context"
                       THEN Append(called, <<"destroy", hwRequest.hooks>>)
                       ELSE called
      BY <1>10 DEF EndCore
    <2>2. hwRequest = granted
      BY <1>0, <2>1 DEF RendererHonoured, CoreLives
    <2>3. CASE granted = NoRequest
      <3>1. called' = << >>
        BY <1>0, <2>1, <2>3 DEF RendererHonoured
      <3> QED
        BY <1>0, <1>3, <2>1, <3>1 DEF RenderStage, RendererHonoured, CoreLives
    <2>4. CASE granted # NoRequest
      <3>1. /\ target.kind = "context"
            /\ called = << <<"reset", granted.hooks>> >>
        BY <1>0, <2>1, <2>4 DEF RendererHonoured
      <3>2. granted.hooks \in {1, 2}
        BY <1>0, <2>4 DEF RenderStage
      <3>3. called' = << <<"reset", granted.hooks>>,
                         <<"destroy", granted.hooks>> >>
        <4>1. called' = Append(<< <<"reset", granted.hooks>> >>,
                               <<"destroy", granted.hooks>>)
          BY <2>1, <2>2, <3>1
        <4> QED BY <4>1, Appended
      <3> QED
        BY <1>0, <1>3, <2>1, <3>2, <3>3
           DEF RenderStage, RendererHonoured, CoreLives
    <2> QED BY <2>3, <2>4
  <1> QED
    BY <1>4, <1>5, <1>6, <1>7, <1>8, <1>9, <1>10
       DEF EnvNext, OptionCalls, RenderCalls, DeviceCalls, Phases, envVars,
           SetControllerInfo, setDeviceType, Register, SetCoreOptions,
           GetVariable, GetVariableUpdate

\* The counters and the types of controller.
LEMMA DevicesNext ==
  ASSUME EnvInv, [EnvNext]_envVars
  PROVE  EnvTypes' /\ DevicesTold'
  <1>0. EnvTypes /\ DevicesTold
    BY DEF EnvInv, EnvironmentHonoured
  <1>1. CASE \E c \in Counters : Register(c)
    <2>1. PICK c \in Counters : Register(c)
      BY <1>1
    <2>2. UNCHANGED <<choiceOfBuild, envPc, deviceVars>>
      BY <2>1 DEF Register
    <2>3. CASE UNCHANGED counters
      BY <1>0, <2>2, <2>3
         DEF EnvTypes, DevicesTold, choiceOfBuild, deviceVars
    <2>4. CASE /\ counters' = Append(counters, c)
               /\ \A i \in DOMAIN counters : counters[i] # c
      <3>1. /\ counters \in Seq(Counters) /\ counters' \in Seq(Counters)
            /\ Len(counters') = Len(counters) + 1
            /\ \A i \in 1 .. Len(counters) : counters'[i] = counters[i]
            /\ counters'[Len(counters) + 1] = c
        BY <1>0, <2>4, AppendProperties DEF EnvTypes
      <3>2. /\ DOMAIN counters = 1 .. Len(counters)
            /\ DOMAIN counters' = 1 .. Len(counters')
            /\ Len(counters) \in Nat
        BY <3>1, LenProperties
      <3>3. \A i, j \in DOMAIN counters' : counters'[i] = counters'[j] => i = j
        BY <1>0, <2>4, <3>1, <3>2 DEF DevicesTold
      <3> QED
        BY <1>0, <2>2, <3>1, <3>3
           DEF EnvTypes, DevicesTold, choiceOfBuild, deviceVars
    <2> QED BY <2>1, <2>3, <2>4 DEF Register
  <1>2. CASE SetControllerInfo
    <2>1. PICK types \in Descriptions :
            controllerMap' = controllerMap \cup types
      BY <1>2 DEF SetControllerInfo
    <2>2. UNCHANGED <<choiceOfBuild, envPc, counters, deviceTypeSelected, port,
                      turned>>
      BY <1>2 DEF SetControllerInfo, counterMapVars
    <2> QED
      BY <1>0, <2>1, <2>2, EnvironmentAssumption
         DEF EnvironmentAssumption, EnvTypes, DevicesTold, choiceOfBuild
  <1>3. CASE setDeviceType
    <2>1. /\ UNCHANGED <<choiceOfBuild, envPc, counters, controllerMap>>
          /\ turned' /\ port' = deviceTypeSelected' /\ envPc = "running"
      BY <1>3 DEF setDeviceType, counterMapVars
    <2>2. deviceTypeSelected' \in controllerMap \cup {Joypad}
      <3>1. CASE deviceTypeSelected \in controllerMap
        <4>1. /\ NextType(deviceTypeSelected) \in controllerMap
              /\ PreviousType(deviceTypeSelected) \in controllerMap
          BY <1>0, <3>1, TypesTurn DEF EnvTypes
        <4> QED BY <4>1, <3>1, <1>3 DEF setDeviceType
      <3>2. CASE deviceTypeSelected \notin controllerMap
        BY <1>0, <1>3, <3>2 DEF setDeviceType, DevicesTold
      <3> QED BY <3>1, <3>2
    <2> QED
      BY <1>0, <2>1, <2>2 DEF EnvTypes, DevicesTold, choiceOfBuild
  <1>4. CASE EndInit
    BY <1>0, <1>4
       DEF EndInit, EnvTypes, DevicesTold, choiceOfBuild, counterMapVars
  <1>5. CASE UNCHANGED <<choiceOfBuild, envPc, counterMapVars, deviceVars>>
    BY <1>0, <1>5
       DEF EnvTypes, DevicesTold, choiceOfBuild, counterMapVars, deviceVars
  <1>7. CASE EndLoad \/ video_configure_core \/ EndCore
    BY <1>0, <1>7
       DEF EndLoad, video_configure_core, EndCore, EnvTypes, DevicesTold,
           choiceOfBuild, counterMapVars, deviceVars
  <1>6. CASE SetCoreOptions \/ GetVariable \/ GetVariableUpdate
    BY <1>5, <1>6 DEF SetCoreOptions, GetVariable, GetVariableUpdate
  <1>8. CASE SetHwRender \/ \E f \in Formats : SetPixelFormat(f)
    BY <1>5, <1>8 DEF SetHwRender, SetPixelFormat
  <1>9. CASE UNCHANGED envVars
    BY <1>5, <1>9 DEF envVars
  <1> QED
    BY <1>1, <1>2, <1>3, <1>4, <1>6, <1>7, <1>8, <1>9
       DEF EnvNext, OptionCalls, RenderCalls, DeviceCalls, Phases

\* A core and the frontend go on with what they agreed on: an option it has
\* read has its value until it is told of a change, the renderer it was
\* granted is the one it draws with and whose hooks are called, once and in
\* order, and the controller it was told of is the player's: core_environment
\* and what video_configure, the menus and the end make of its answers, for
\* any options, registrations, profiles and types.
THEOREM EnvironmentHolds == EnvSpec => []EnvironmentHonoured
  <1>1. EnvInit => EnvInv
    BY EnvInvInit
  <1>2. EnvInv /\ [EnvNext]_envVars => EnvInv'
    BY OptionsNext, RendererNext, DevicesNext DEF EnvInv, EnvironmentHonoured
  <1>3. EnvInv => EnvironmentHonoured
    BY DEF EnvInv
  <1> QED BY <1>1, <1>2, <1>3, PTL DEF EnvSpec


-----------------------------------------------------------------------------
(* Save states: types.                                                     *)

Savings == [path : Paths \cup {NoPath}, data : Contents,
            then : {"loop", "shutdown"}]

\* SaveTypeOK, in the parts a step changes, and that a thread that is to read
\* has something to read.
FileTypes ==
  /\ state \in [Paths -> Contents] /\ sidecar \in [Paths -> Contents]
  /\ preview \in [Paths -> Contents]
MainTypes ==
  /\ savePc \in {"off", "loop", "apply", "shutdown"} \cup Saving
  /\ gameState \in Contents /\ reached \in Contents
  /\ session \in [verifiable : BOOLEAN, autoSave : BOOLEAN]
  /\ saving \in Savings /\ recentSave \in BOOLEAN
  /\ crashes \in 0 .. MaxCrashes
RequestTypes ==
  /\ menuOpen \in BOOLEAN /\ showing \in BOOLEAN
  /\ loadRequested \in BOOLEAN /\ saveRequested \in BOOLEAN
  /\ requests \in 0 .. MaxRequests
LoadTypes ==
  /\ joinable \in BOOLEAN /\ busy \in BOOLEAN /\ readyFlag \in BOOLEAN
  /\ loadPc \in {"none", "read", "verify", "publish", "flag", "rest",
                 "ended"}
  /\ loadJob \in Jobs /\ ready \in Jobs /\ taken \in Jobs
  /\ loadPc = "read" => loadJob.path \in Paths
Types == FileTypes /\ MainTypes /\ RequestTypes /\ LoadTypes

LEMMA TypesAre == Types => SaveTypeOK
  BY Zenon DEF Types, FileTypes, MainTypes, RequestTypes, LoadTypes,
     SaveTypeOK, Savings

LEMMA NoneTypes ==
  NoFile \in Contents /\ NoLoad \in Jobs /\ NoSave \in Savings
  BY SaveAssumption DEF NoLoad, NoSave, NoFile, Jobs, Savings, Contents

LEMMA TypesInit == SaveInit => Types
<1> SUFFICES ASSUME SaveInit PROVE Types
  OBVIOUS
<1>1. FileTypes
  BY NoneTypes DEF SaveInit, FileTypes
<1>2. MainTypes
  <2>1. crashes \in 0 .. MaxCrashes
    BY SaveAssumption DEF SaveInit
  <2>2. recentSave \in BOOLEAN
    BY Zenon DEF SaveInit
  <2> QED BY <2>1, <2>2, NoneTypes DEF SaveInit, MainTypes, NoSession, NoFile
<1>3. RequestTypes
  <2>1. requests \in 0 .. MaxRequests
    BY SaveAssumption DEF SaveInit
  <2>2. /\ menuOpen \in BOOLEAN /\ showing \in BOOLEAN
        /\ loadRequested \in BOOLEAN /\ saveRequested \in BOOLEAN
    BY Zenon DEF SaveInit
  <2> QED BY <2>1, <2>2, Zenon DEF RequestTypes
<1>4. LoadTypes
  BY NoneTypes DEF SaveInit, LoadTypes
<1> QED BY <1>1, <1>2, <1>3, <1>4 DEF Types

LEMMA StartTypes ==
  ASSUME LoadTypes, NEW p \in Paths, NEW auto \in BOOLEAN,
         ThreadStart(p, auto)
  PROVE  LoadTypes'
  BY NoneTypes DEF ThreadStart, LoadTypes, Jobs

LEMMA LoadStartTypes ==
  ASSUME LoadTypes, RequestTypes, NEW p \in Paths, LoadStart(p)
  PROVE  LoadTypes' /\ loadRequested' \in BOOLEAN
<1>1. CASE LoadRefused /\ UNCHANGED <<loadVars, loadRequested>>
  BY <1>1 DEF LoadTypes, RequestTypes, loadVars
<1>2. CASE /\ loadRequested' = FALSE /\ joinable' = FALSE /\ loadPc' = "none"
           /\ UNCHANGED <<loadJob, busy, readyFlag, ready, taken>>
  BY <1>2 DEF LoadTypes
<1>3. CASE ThreadStart(p, FALSE) /\ UNCHANGED loadRequested
  BY <1>3, StartTypes DEF RequestTypes
<1> QED BY <1>1, <1>2, <1>3 DEF LoadStart

LEMMA ResetTypes ==
  ASSUME Types, Reset
  PROVE  /\ FileTypes' /\ RequestTypes'
         /\ savePc' \in {"off"} /\ gameState' \in Contents
         /\ reached' \in Contents
         /\ session' \in [verifiable : BOOLEAN, autoSave : BOOLEAN]
         /\ saving' \in Savings /\ recentSave' \in BOOLEAN
         /\ busy' = FALSE /\ readyFlag' = FALSE
         /\ ready' \in Jobs /\ taken' \in Jobs
  BY NoneTypes
  DEF Reset, Types, FileTypes, MainTypes, RequestTypes, fileVars, NoSession

LEMMA SaveBeginTypes ==
  ASSUME MainTypes, NEW p \in Paths, NEW then \in {"loop", "shutdown"},
         SaveBegin(p, then)
  PROVE  /\ savePc' \in {"off", "loop", "apply", "shutdown"} \cup Saving
         /\ saving' \in Savings /\ recentSave' \in BOOLEAN
<1>1. CASE recentSave = TRUE
  BY <1>1 DEF SaveBegin, MainTypes
<1>2. CASE recentSave = FALSE
  BY <1>2, NoneTypes DEF SaveBegin, MainTypes, Saving, Savings
<1> QED BY <1>1, <1>2 DEF MainTypes

LEMMA TypesNext == Types /\ [SaveNext]_saveVars => Types'
<1> SUFFICES ASSUME Types, [SaveNext]_saveVars PROVE Types'
  OBVIOUS
<1> USE NoneTypes DEF Types, FileTypes, MainTypes, RequestTypes, LoadTypes,
                      fileVars, requestVars, gameVars, loadVars
<1>1. ASSUME NEW slot \in Paths \cup {NoPath}, NEW restart \in BOOLEAN,
             NEW autoSave \in BOOLEAN, NEW autoLoad \in BOOLEAN,
             NEW verifiable \in BOOLEAN,
             Boot(slot, restart, autoSave, autoLoad, verifiable)
      PROVE Types'
  <2> DEFINE path == IF slot = NoPath THEN Latest ELSE slot
             load == /\ ~restart /\ (slot # NoPath \/ autoLoad)
                     /\ state[path] # NoFile
  <2>1. path \in Paths /\ load \in BOOLEAN /\ (slot = NoPath) \in BOOLEAN
    BY DEF Paths
  <2>2. LoadTypes'
    <3>1. CASE load
      BY <1>1, <2>1, <3>1, StartTypes DEF Boot
    <3>2. CASE ~load
      BY <1>1, <3>2 DEF Boot
    <3> QED BY <3>1, <3>2
  <2>3. FileTypes'
    BY <1>1 DEF Boot
  <2>4. RequestTypes'
    <3>1. showing' = load /\ loadRequested' = load
      BY <1>1 DEF Boot
    <3> QED BY <1>1, <2>1, <3>1 DEF Boot
  <2>5. MainTypes'
    BY <1>1, SaveAssumption DEF Boot, Contents
  <2> QED BY <2>2, <2>3, <2>4, <2>5
<1>2. CASE Play
  BY <1>2, SaveAssumption DEF Play, Contents
<1>3. CASE Press
  <2>1. FileTypes' /\ MainTypes' /\ LoadTypes'
    BY <1>3 DEF Press
  <2>2. requests' \in 0 .. MaxRequests
    BY <1>3, SaveAssumption DEF Press
  <2>3. /\ menuOpen' \in BOOLEAN /\ showing' \in BOOLEAN
        /\ loadRequested' \in BOOLEAN /\ saveRequested' \in BOOLEAN
    BY <1>3, Zenon DEF Press
  <2> QED BY <2>1, <2>2, <2>3
<1>4. CASE ToggleMenu
  BY <1>4, SaveAssumption DEF ToggleMenu
<1>5. CASE Elapse
  <2>1. FileTypes' /\ LoadTypes' /\ recentSave' = FALSE
        /\ UNCHANGED <<savePc, gameState, reached, session, saving, crashes,
                       menuOpen, loadRequested, saveRequested, requests>>
    BY <1>5 DEF Elapse
  <2>2. showing' \in BOOLEAN
    BY <1>5, Zenon DEF Elapse
  <2> QED BY <2>1, <2>2
<1>6. CASE PumpReady
  <2>1. FileTypes' /\ RequestTypes' /\ MainTypes'
    BY <1>6 DEF PumpReady
  <2>2. LoadTypes'
    BY <1>6 DEF PumpReady
  <2> QED BY <2>1, <2>2
<1>7. CASE PumpApply
  <2>1. gameState' \in Contents
    BY <1>7 DEF PumpApply, Jobs
  <2>2. FileTypes' /\ RequestTypes' /\ MainTypes'
    BY <1>7, <2>1 DEF PumpApply
  <2>3. LoadTypes'
    BY <1>7 DEF PumpApply
  <2> QED BY <2>2, <2>3
<1>8. CASE SaveState
  <2>1. CASE Serialize
    BY <1>8, <2>1 DEF Serialize, SaveStep, SaveEnd, Savings, Saving
  <2>2. CASE Invalidate
    BY <1>8, <2>2 DEF Invalidate, Invalidated, SaveStep, SaveEnd, Savings,
                      Saving
  <2>3. CASE Rename
    BY <1>8, <2>3 DEF Rename, SaveStep, SaveEnd, Savings, Saving
  <2>4. CASE Record
    <3>1. PICK side \in {saving.data, NoFile} :
            sidecar' = [sidecar EXCEPT ![saving.path] = side]
      BY <2>4 DEF Record, FailedSidecar
    <3>2. sidecar' \in [Paths -> Contents]
      BY <3>1 DEF Savings
    <3> QED BY <2>4, <3>2 DEF Record, SaveStep, Saving
  <2>5. CASE Capture
    <3>1. SaveEnd /\ SaveStep /\ UNCHANGED <<state, sidecar>>
      BY <2>5 DEF Capture
    <3>2. PICK image \in {saving.data, preview[saving.path]} :
            preview' = [preview EXCEPT ![saving.path] = image]
      BY <2>5 DEF Capture
    <3>3. preview' \in [Paths -> Contents]
      BY <3>2 DEF Savings
    <3> QED BY <3>1, <3>3 DEF SaveEnd, SaveStep, Savings, Saving
  <2> QED BY <1>8, <2>1, <2>2, <2>3, <2>4, <2>5 DEF SaveState
<1>10. ASSUME NEW p \in Slots, LoopLoad(p) PROVE Types'
  BY <1>10, LoadStartTypes DEF LoopLoad, Paths
<1>11. ASSUME NEW p \in Slots, LoopSave(p) PROVE Types'
  BY <1>11, SaveBeginTypes DEF LoopSave, Paths, LoadBusy
<1>12. ASSUME NEW p \in Slots, MenuChoice(p) PROVE Types'
  <2>1. CASE LoadStart(p) /\ UNCHANGED <<savePc, saving, recentSave>>
    BY <1>12, <2>1, LoadStartTypes DEF MenuChoice, Paths
  <2>2. CASE SaveBegin(p, "loop") /\ UNCHANGED <<loadVars, loadRequested>>
    <3>1. MainTypes'
      BY <1>12, <2>2, SaveBeginTypes DEF MenuChoice, Paths
    <3>2. FileTypes' /\ LoadTypes' /\ RequestTypes'
      BY <1>12, <2>2 DEF MenuChoice
    <3> QED BY <3>1, <3>2
  <2> QED BY <1>12, <2>1, <2>2 DEF MenuChoice
<1>13. CASE Exit
  <2>1. CASE session.autoSave
    BY <1>13, <2>1, SaveBeginTypes DEF Exit, Paths
  <2>2. CASE ~session.autoSave
    BY <1>13, <2>2 DEF Exit
  <2> QED BY <2>1, <2>2
<1>14. CASE ShutdownLoad
  BY <1>14, ResetTypes DEF ShutdownLoad
<1>15. CASE LoadThread
  <2>1. CASE ReadState
    <3>1. PICK read \in {state[loadJob.path], NoFile} :
            /\ loadJob' = [loadJob EXCEPT !.data = read]
            /\ Work(IF read = NoFile THEN "publish" ELSE "verify")
      BY <2>1 DEF ReadState
    <3>2. read \in Contents
      BY <2>1 DEF ReadState, Jobs, Contents
    <3> QED BY <2>1, <3>1, <3>2 DEF ReadState, Work, Jobs
  <2>2. CASE VerifyState
    BY <2>2 DEF VerifyState, Work, Jobs
  <2>3. CASE Publish
    BY <2>3 DEF Publish, Work
  <2>4. CASE RaiseFlag
    BY <2>4 DEF RaiseFlag, Work
  <2>5. CASE ThreadEnd
    <3>1. LoadTypes'
      BY <2>5 DEF ThreadEnd, BusyAfter, Work
    <3>2. FileTypes' /\ MainTypes' /\ RequestTypes'
      BY <2>5 DEF ThreadEnd, Work
    <3> QED BY <3>1, <3>2
  <2> QED BY <1>15, <2>1, <2>2, <2>3, <2>4, <2>5 DEF LoadThread
<1>16. CASE Crash
  <2>1. Reset /\ joinable' = FALSE /\ loadPc' = "none" /\ loadJob' = NoLoad
    BY <1>16 DEF Crash
  <2>2. crashes' \in 0 .. MaxCrashes
    BY <1>16, SaveAssumption DEF Crash
  <2>3. LoadTypes'
    BY <2>1, ResetTypes
  <2> QED BY <2>1, <2>2, <2>3, ResetTypes
<1>17. CASE UNCHANGED saveVars
  BY <1>17 DEF saveVars
<1> QED
  BY <1>1, <1>2, <1>3, <1>4, <1>5, <1>6, <1>7, <1>8, <1>10, <1>11, <1>12,
     <1>13, <1>14, <1>15, <1>16, <1>17
  DEF SaveNext, SessionStart, User, PumpLoad, Loop

-----------------------------------------------------------------------------
(* The files.                                                              *)

\* How far a save is: its path, the old image gone before the new state
\* comes, and the new state there before it is described.
SaveUnderWay ==
  /\ savePc \in Saving => saving.path \in Paths
  /\ savePc = "rename" => preview[saving.path] = NoFile
  /\ savePc \in {"identify", "capture"} => state[saving.path] = saving.data

FileInv == SaveUnderWay /\ FilesMatch

\* Steps that touch no file: of others than a save, the start of a save, and
\* a crash.
LEMMA FilesUntouched ==
  ASSUME Types, FileInv, UNCHANGED fileVars,
         \/ UNCHANGED <<savePc, saving, crashes>>
         \/ /\ savePc \notin Saving /\ UNCHANGED crashes
            /\ savePc' \in Saving =>
                 savePc' = "serialize" /\ saving'.path \in Paths
         \/ savePc' = "off" /\ crashes' # 0
  PROVE  FileInv'
<1> USE DEF Types, MainTypes, FileInv, SaveUnderWay, FilesMatch,
            PreviewMatches, SidecarDescribes, SidecarFits, fileVars, Saving
<1>1. CASE UNCHANGED <<savePc, saving, crashes>>
  BY <1>1
<1>2. CASE /\ savePc \notin Saving /\ UNCHANGED crashes
           /\ savePc' \in Saving =>
                savePc' = "serialize" /\ saving'.path \in Paths
  BY <1>2
<1>3. CASE savePc' = "off" /\ crashes' # 0
  BY <1>3
<1> QED BY <1>1, <1>2, <1>3

LEMMA SaveKeepsFiles ==
  ASSUME Types, FileInv, SaveState PROVE FileInv'
<1> USE DEF FileInv, SaveUnderWay, FilesMatch, PreviewMatches,
            SidecarDescribes, SidecarFits, Saving, SaveStep, SaveEnd
<1>0. /\ state \in [Paths -> Contents] /\ sidecar \in [Paths -> Contents]
      /\ preview \in [Paths -> Contents] /\ saving \in Savings
      /\ saving.then \in {"loop", "shutdown"} /\ UNCHANGED crashes
  BY DEF Types, FileTypes, MainTypes, Savings, SaveState, Serialize,
         Invalidate, Rename, Record, Capture
<1>1. CASE Serialize
  BY <1>0, <1>1 DEF Serialize, Savings
<1>2. CASE Invalidate
  BY <1>0, <1>2 DEF Invalidate, Invalidated
<1>3. CASE Rename
  BY <1>0, <1>3 DEF Rename
<1>4. CASE Record
  <2>1. PICK side \in {saving.data, NoFile} :
          sidecar' = [sidecar EXCEPT ![saving.path] = side]
    BY <1>4 DEF Record, FailedSidecar
  <2> QED BY <1>0, <1>4, <2>1 DEF Record
<1>5. CASE Capture
  <2>1. PICK image \in {saving.data, preview[saving.path]} :
          preview' = [preview EXCEPT ![saving.path] = image]
    BY <1>5 DEF Capture
  <2> QED BY <1>0, <1>5, <2>1 DEF Capture
<1> QED BY <1>1, <1>2, <1>3, <1>4, <1>5 DEF SaveState

LEMMA BeginTouchesNothing ==
  ASSUME MainTypes, NEW p \in Paths, NEW then \in {"loop", "shutdown"},
         SaveBegin(p, then)
  PROVE  savePc' \in Saving =>
           savePc' = "serialize" /\ saving'.path \in Paths
<1>1. CASE recentSave = TRUE
  BY <1>1 DEF SaveBegin, Saving
<1>2. CASE recentSave = FALSE
  BY <1>2 DEF SaveBegin, Saving
<1> QED BY <1>1, <1>2 DEF MainTypes

LEMMA FileInvNext ==
  Types /\ FileInv /\ [SaveNext]_saveVars => FileInv'
<1> SUFFICES ASSUME Types, FileInv, [SaveNext]_saveVars PROVE FileInv'
  OBVIOUS
<1> USE FilesUntouched
<1>1. CASE SessionStart
  BY <1>1 DEF SessionStart, Boot, Saving
<1>2. CASE Play \/ Press \/ ToggleMenu \/ Elapse
  BY <1>2 DEF Play, Press, ToggleMenu, Elapse
<1>3. CASE PumpLoad
  BY <1>3 DEF PumpLoad, PumpReady, PumpApply, Saving
<1>4. CASE SaveState
  BY <1>4, SaveKeepsFiles
<1>5. ASSUME NEW p \in Slots, LoopLoad(p) PROVE FileInv'
  BY <1>5 DEF LoopLoad
<1>6. ASSUME NEW p \in Slots, LoopSave(p) PROVE FileInv'
  BY <1>6, BeginTouchesNothing DEF LoopSave, Paths, Saving, Types
<1>7. ASSUME NEW p \in Slots, MenuChoice(p) PROVE FileInv'
  <2>1. CASE UNCHANGED <<savePc, saving, recentSave>>
    BY <1>7, <2>1 DEF MenuChoice
  <2>2. CASE SaveBegin(p, "loop")
    BY <1>7, <2>2, BeginTouchesNothing DEF MenuChoice, Paths, Saving, Types
  <2> QED BY <1>7, <2>1, <2>2 DEF MenuChoice
<1>8. CASE Exit
  <2>1. CASE SaveBegin(Latest, "shutdown")
    BY <1>8, <2>1, BeginTouchesNothing DEF Exit, Paths, Saving, Types
  <2>2. CASE savePc' = "shutdown"
    BY <1>8, <2>2 DEF Exit, Saving
  <2> QED BY <1>8, <2>1, <2>2 DEF Exit
<1>9. CASE ShutdownLoad
  BY <1>9 DEF ShutdownLoad, Reset, Saving
<1>10. CASE LoadThread
  BY <1>10
  DEF LoadThread, ReadState, VerifyState, Publish, RaiseFlag, ThreadEnd, Work
<1>11. CASE Crash
  <2>1. crashes' # 0
    BY <1>11, SaveAssumption DEF Crash, Types, MainTypes
  <2> QED BY <1>11, <2>1 DEF Crash, Reset
<1>12. CASE UNCHANGED saveVars
  BY <1>12 DEF saveVars
<1> QED
  BY <1>1, <1>2, <1>3, <1>4, <1>5, <1>6, <1>7, <1>8, <1>9, <1>10, <1>11,
     <1>12
  DEF SaveNext, User, Loop

-----------------------------------------------------------------------------
(* The loading thread.                                                     *)

\* The flag is only up once the thread has nothing more to hand over, and
\* main only applies what such a thread has left.
LoadInv ==
  /\ OneLoad
  /\ readyFlag = TRUE => loadPc \in {"rest", "ended"}
  /\ savePc = "apply" =>
       loadPc \in {"rest", "ended"} /\ readyFlag = FALSE /\ ready = NoLoad

\* Steps of main that leave the loading thread alone.
LEMMA LoadUntouched ==
  ASSUME Types, LoadInv, UNCHANGED loadVars,
         \/ UNCHANGED savePc
         \/ savePc # "apply" /\ savePc' \notin {"off", "apply"}
  PROVE  LoadInv'
  BY DEF LoadInv, OneLoad, loadVars

LEMMA StartKeepsLoad ==
  ASSUME Types, LoadInv, NEW p \in Paths, NEW auto \in BOOLEAN,
         loadPc \in {"none", "ended"}, readyFlag = FALSE,
         savePc # "apply", savePc' \notin {"off", "apply"},
         ThreadStart(p, auto)
  PROVE  LoadInv'
  BY DEF LoadInv, OneLoad, ThreadStart, Types, LoadTypes

LEMMA LoadStartKeepsLoad ==
  ASSUME Types, LoadInv, NEW p \in Paths, LoadStart(p),
         savePc = "loop", savePc' = "loop"
  PROVE  LoadInv'
<1> USE DEF Types, LoadTypes
<1>1. CASE LoadRefused
  BY <1>1, LoadUntouched DEF LoadStart
<1>2. CASE ~LoadRefused
  <2>1. readyFlag = FALSE
    BY <1>2, Zenon DEF LoadRefused, LoadBusy
  <2>2. loadPc \in {"none", "ended"}
    BY <1>2 DEF LoadStart, LoadInv, OneLoad
  <2>3. CASE /\ joinable' = FALSE /\ loadPc' = "none"
             /\ UNCHANGED <<loadJob, busy, readyFlag, ready, taken>>
    BY <2>1, <2>2, <2>3 DEF LoadInv, OneLoad
  <2>4. CASE ThreadStart(p, FALSE)
    BY <2>1, <2>2, <2>4, StartKeepsLoad
  <2> QED BY <1>2, <2>3, <2>4 DEF LoadStart
<1> QED BY <1>1, <1>2

LEMMA ThreadKeepsLoad ==
  ASSUME Types, LoadInv, LoadThread PROVE LoadInv'
<1> USE DEF Types, LoadTypes, LoadInv, OneLoad, Work
<1>1. CASE ReadState
  BY <1>1 DEF ReadState
<1>2. CASE VerifyState
  BY <1>2 DEF VerifyState
<1>3. CASE Publish
  BY <1>3 DEF Publish
<1>4. CASE RaiseFlag
  BY <1>4 DEF RaiseFlag
<1>5. CASE ThreadEnd
  BY <1>5 DEF ThreadEnd
<1> QED BY <1>1, <1>2, <1>3, <1>4, <1>5 DEF LoadThread

LEMMA LoadInvNext ==
  Types /\ LoadInv /\ [SaveNext]_saveVars => LoadInv'
<1> SUFFICES ASSUME Types, LoadInv, [SaveNext]_saveVars PROVE LoadInv'
  OBVIOUS
<1> USE LoadUntouched
<1>1. ASSUME NEW slot \in Paths \cup {NoPath}, NEW restart \in BOOLEAN,
             NEW autoSave \in BOOLEAN, NEW autoLoad \in BOOLEAN,
             NEW verifiable \in BOOLEAN,
             Boot(slot, restart, autoSave, autoLoad, verifiable)
      PROVE LoadInv'
  <2> DEFINE path == IF slot = NoPath THEN Latest ELSE slot
  <2>1. path \in Paths /\ (slot = NoPath) \in BOOLEAN
    BY DEF Paths
  <2>2. /\ loadPc = "none" /\ readyFlag = FALSE /\ savePc = "off"
        /\ savePc' = "loop"
    BY <1>1 DEF Boot, LoadInv, OneLoad, Types, LoadTypes
  <2>3. CASE ThreadStart(path, slot = NoPath)
    BY <2>1, <2>2, <2>3, StartKeepsLoad
  <2>4. CASE UNCHANGED loadVars
    BY <2>2, <2>4
  <2> QED BY <1>1, <2>3, <2>4 DEF Boot
<1>2. CASE Play \/ Press \/ ToggleMenu \/ Elapse
  BY <1>2 DEF Play, Press, ToggleMenu, Elapse
<1>3. CASE PumpReady
  BY <1>3 DEF PumpReady, LoadInv, OneLoad, Types, LoadTypes
<1>4. CASE PumpApply
  BY <1>4 DEF PumpApply, LoadInv, OneLoad, Types, LoadTypes
<1>5. CASE SaveState
  <2>1. savePc \in Saving /\ savePc' \in Saving \cup {"loop", "shutdown"}
    BY <1>5 DEF SaveState, Serialize, Invalidate, Rename, Record, Capture,
       SaveEnd, Saving, Types, MainTypes, Savings
  <2>2. UNCHANGED loadVars
    BY <1>5 DEF SaveState, Serialize, Invalidate, Rename, Record, Capture,
       SaveStep
  <2> QED BY <2>1, <2>2 DEF Saving
<1>6. ASSUME NEW p \in Slots, LoopLoad(p) PROVE LoadInv'
  BY <1>6, LoadStartKeepsLoad DEF LoopLoad, Paths
<1>7. ASSUME NEW p \in Slots, LoopSave(p) PROVE LoadInv'
  BY <1>7 DEF LoopSave, SaveBegin
<1>8. ASSUME NEW p \in Slots, MenuChoice(p) PROVE LoadInv'
  <2>1. CASE LoadStart(p) /\ UNCHANGED <<savePc, saving, recentSave>>
    BY <1>8, <2>1, LoadStartKeepsLoad DEF MenuChoice, Paths
  <2>2. CASE SaveBegin(p, "loop") /\ UNCHANGED <<loadVars, loadRequested>>
    BY <1>8, <2>2 DEF MenuChoice, SaveBegin
  <2> QED BY <1>8, <2>1, <2>2 DEF MenuChoice
<1>9. CASE Exit
  BY <1>9 DEF Exit, SaveBegin
<1>10. CASE ShutdownLoad
  BY <1>10 DEF ShutdownLoad, Joined, Reset, LoadInv, OneLoad
<1>11. CASE LoadThread
  BY <1>11, ThreadKeepsLoad
<1>12. CASE Crash
  BY <1>12 DEF Crash, Reset, LoadInv, OneLoad
<1>13. CASE UNCHANGED saveVars
  BY <1>13 DEF saveVars, loadVars
<1> QED
  BY <1>1, <1>2, <1>3, <1>4, <1>5, <1>6, <1>7, <1>8, <1>9, <1>10, <1>11,
     <1>12, <1>13
  DEF SaveNext, SessionStart, User, PumpLoad, Loop

-----------------------------------------------------------------------------
(* The theorems.                                                           *)

LEMMA SaveInvInit == SaveInit => Types /\ FileInv /\ LoadInv
<1> SUFFICES ASSUME SaveInit PROVE FileInv /\ LoadInv
  BY TypesInit
<1>1. FileInv
  BY DEF SaveInit, FileInv, SaveUnderWay, FilesMatch, PreviewMatches,
         SidecarDescribes, SidecarFits, Saving, NoFile
<1>2. LoadInv
  BY DEF SaveInit, LoadInv, OneLoad
<1> QED BY <1>1, <1>2

LEMMA SaveInvariant == SaveSpec => [](Types /\ FileInv /\ LoadInv)
<1>1. Types /\ FileInv /\ LoadInv /\ [SaveNext]_saveVars
        => (Types /\ FileInv /\ LoadInv)'
  BY TypesNext, FileInvNext, LoadInvNext
<1> QED BY <1>1, SaveInvInit, PTL DEF SaveSpec

\* The variables of savestate.cpp and the files keep their types.
THEOREM SaveTypesHold == SaveSpec => []SaveTypeOK
  BY SaveInvariant, TypesAre, PTL

\* However many slots there are and wherever saves fail and processes die: an
\* image is one of the state it stands beside, and without a crash a sidecar
\* describes it.
THEOREM FilesMatchHolds == SaveSpec => []FilesMatch
<1>1. FileInv => FilesMatch
  BY DEF FileInv
<1> QED BY <1>1, SaveInvariant, PTL

\* However loads, saves, menus and ends of sessions meet: a state that was
\* read has one owner, no load starts over another, and no thread is
\* forgotten before its end.
THEOREM OneLoadHolds == SaveSpec => []OneLoad
<1>1. LoadInv => OneLoad
  BY DEF LoadInv
<1> QED BY <1>1, SaveInvariant, PTL

-----------------------------------------------------------------------------
(* The sizes and the ratio of a core's picture.                            *)

\* The cores whose surface has a size of its own, whatever they ask for.
FixedSize == isFlycast \/ geoCore = "mgba"

GeoTypes ==
  /\ \E s \in Setups :
       handset = s.handset /\ geoCore = s.core /\ hardware = s.hardware
  /\ screen \in Sizes /\ maxSize \in Sizes /\ allocated \in Sizes

GeoInv ==
  /\ GeoTypes /\ RatioFollows
  /\ FixedSize \/ SurfaceHolds

\* A surface holds what it was made for.
LEMMA SurfaceForIs ==
  ASSUME NEW size \in Sizes
  PROVE  SurfaceFor(size) \in Sizes /\ Fits(size, SurfaceFor(size))
<1>1. size[1] \in Nat /\ size[2] \in Nat
  BY DEF Sizes
<1>2. \A n \in Nat : ALIGN(n) \in Nat /\ n <= ALIGN(n)
  BY DEF ALIGN
<1>3. /\ SurfaceFor(size)[1] = ALIGN(size[1])
      /\ SurfaceFor(size)[2] = ALIGN(size[2])
      /\ SurfaceFor(size) = <<ALIGN(size[1]), ALIGN(size[2])>>
  BY DEF SurfaceFor
<1> QED
  BY <1>1, <1>2, <1>3 DEF Sizes, Fits

LEMMA FitsFits ==
  ASSUME NEW a \in Sizes, NEW b \in Sizes, NEW c \in Sizes,
         Fits(a, b), Fits(b, c)
  PROVE  Fits(a, c)
<1>1. /\ a[1] \in Nat /\ a[2] \in Nat /\ b[1] \in Nat /\ b[2] \in Nat
      /\ c[1] \in Nat /\ c[2] \in Nat
  BY DEF Sizes
<1> QED
  BY <1>1 DEF Fits

\* What is asked for stays a geometry when an option says at which size.
LEMMA ConfiguredIs ==
  ASSUME NEW g, g.max \in Sizes
  PROVE  applyConfiguredResolution(g).max \in Sizes
<1>1. <<320, 240>> \in Sizes /\ <<640, 480>> \in Sizes
  BY DEF Sizes
<1>2. applyConfiguredResolution(g).max \in {g.max, <<320, 240>>, <<640, 480>>}
  BY DEF applyConfiguredResolution
<1> QED
  BY <1>1, <1>2

LEMMA GeoInvInit == GeoInit => GeoInv
<1> SUFFICES ASSUME GeoInit PROVE GeoInv
  OBVIOUS
<1>1. NoSize \in Sizes
  BY DEF NoSize, Sizes
<1>2. screen \in Sizes
  BY GeometryAssumption DEF GeoInit, sdl
<1> QED
  BY <1>1, <1>2 DEF GeoInit, GeoInv, GeoTypes, RatioFollows, SurfaceHolds

LEMMA AskedAre ==
  ASSUME GeoTypes, NEW asked \in Asked[geoCore]
  PROVE  asked \in [base : Sizes, max : Sizes, ratio : Sizes]
BY GeometryAssumption DEF GeoTypes

LEMMA ConfigureKeeps == GeoInv /\ video_configure => GeoInv'
<1> SUFFICES ASSUME GeoInv, video_configure PROVE GeoInv'
  OBVIOUS
<1>1. PICK asked \in Asked[geoCore] :
        LET amended == Amended(asked)
            g == applyConfiguredResolution(amended)
            own == resolvedAspect(NoRatio, amended.ratio, amended.base)
        IN /\ maxSize' = g.max /\ game_aspect' = own
           /\ aspect' = IF opt_aspect # NoRatio THEN opt_aspect
                        ELSE IF geoCore = "dosbox" THEN <<4, 3>> ELSE own
           /\ \/ geoPc' = "run" /\ allocated' = Target(g.max)
              \/ geoPc' = "stopped" /\ UNCHANGED allocated
  BY DEF video_configure
<1> DEFINE g == applyConfiguredResolution(Amended(asked))
<1>2. asked.max \in Sizes
  BY AskedAre DEF GeoInv
<1>3. Turned(Upright) \in Sizes
  BY DEF GeoInv, GeoTypes, Turned, Upright, Sizes
<1>4. Amended(asked).max \in {asked.max, <<480, 272>>, Turned(Upright)}
  BY DEF Amended
<1>5. <<480, 272>> \in Sizes /\ <<320, 240>> \in Sizes
        /\ <<640, 480>> \in Sizes /\ <<240, 160>> \in Sizes
  BY DEF Sizes
<1>6. g.max \in Sizes
  BY <1>2, <1>3, <1>4, <1>5, ConfiguredIs
<1>7. Fixed(g.max) \in Sizes /\ (~FixedSize => Fixed(g.max) = g.max)
  BY <1>5, <1>6 DEF Fixed, FixedSize
<1>8. /\ Target(g.max) \in Sizes
      /\ ~FixedSize /\ ~hardware => Fits(g.max, Target(g.max))
  BY <1>6, <1>7, SurfaceForIs DEF Target
<1>9. /\ maxSize' = g.max
      /\ \/ geoPc' = "run" /\ allocated' = Target(g.max)
         \/ geoPc' = "stopped" /\ allocated' = allocated
  BY <1>1
<1>10. UNCHANGED <<handset, geoCore, hardware, screen, opt_aspect>>
  BY DEF video_configure, choiceVars
<1>11. RatioFollows'
  BY <1>1, <1>10 DEF RatioFollows
<1> HIDE DEF g
<1>12. GeoTypes'
  BY <1>6, <1>8, <1>9, <1>10 DEF GeoInv, GeoTypes
<1>13. FixedSize' \/ SurfaceHolds'
  BY <1>8, <1>9, <1>10 DEF SurfaceHolds, FixedSize, isFlycast
<1> QED
  BY <1>11, <1>12, <1>13 DEF GeoInv

LEMMA ReconfigureKeeps == GeoInv /\ video_reconfigure_geometry => GeoInv'
<1> SUFFICES ASSUME GeoInv, video_reconfigure_geometry PROVE GeoInv'
  OBVIOUS
<1>1. UNCHANGED <<handset, geoCore, hardware, screen, opt_aspect>>
  BY DEF video_reconfigure_geometry, Reshapes, choiceVars
<1>2. PICK asked \in Asked[geoCore] :
        LET g == applyConfiguredResolution(asked)
        IN \/ /\ geoPc' = "stopped" /\ allocated' \in {allocated, NoSize}
              /\ UNCHANGED <<maxSize, aspect, game_aspect>>
           \/ /\ allocated' = IF ~hardware /\ Exceeds(g.max)
                              THEN SurfaceFor(g.max) ELSE allocated
              /\ maxSize' = g.max /\ Resolved(g, g.base)
              /\ UNCHANGED geoPc
  BY DEF video_reconfigure_geometry
<1> DEFINE g == applyConfiguredResolution(asked)
<1>3. asked.max \in Sizes
  BY AskedAre DEF GeoInv
<1>4. g.max \in Sizes
  BY <1>3, ConfiguredIs
<1>5. NoSize \in Sizes
  BY DEF NoSize, Sizes
<1>6. CASE /\ geoPc' = "stopped" /\ allocated' \in {allocated, NoSize}
           /\ UNCHANGED <<maxSize, aspect, game_aspect>>
  BY <1>1, <1>5, <1>6 DEF GeoInv, GeoTypes, RatioFollows, SurfaceHolds
<1>7. CASE /\ allocated' = IF ~hardware /\ Exceeds(g.max)
                           THEN SurfaceFor(g.max) ELSE allocated
           /\ maxSize' = g.max /\ Resolved(g, g.base) /\ UNCHANGED geoPc
  <2>1. RatioFollows'
    BY <1>1, <1>7 DEF Resolved, GeoInv, RatioFollows
  <2> HIDE DEF g
  <2>2. SurfaceFor(g.max) \in Sizes /\ Fits(g.max, SurfaceFor(g.max))
    BY <1>4, SurfaceForIs
  <2>3. GeoTypes'
    BY <1>1, <1>4, <1>7, <2>2 DEF GeoInv, GeoTypes
  <2>4. ASSUME ~FixedSize, geoPc = "run", ~hardware
        PROVE  Fits(g.max, allocated')
    <3>1. CASE Exceeds(g.max)
      BY <1>7, <2>2, <2>4, <3>1
    <3>2. CASE ~Exceeds(g.max)
      BY <1>4, <1>7, <2>4, <3>2, FitsFits
      DEF Exceeds, GeoInv, GeoTypes, SurfaceHolds
    <3> QED
      BY <3>1, <3>2
  <2>5. FixedSize' \/ SurfaceHolds'
    BY <1>1, <1>7, <2>4 DEF SurfaceHolds, FixedSize, isFlycast
  <2> QED
    BY <2>1, <2>3, <2>5 DEF GeoInv
<1> QED
  BY <1>2, <1>6, <1>7

\* The sizes are the loop's: no choice and no frame changes them.
LEMMA SizesKept ==
  ASSUME GeoInv, UNCHANGED <<handset, geoCore, hardware, maxSize, allocated>>,
         geoPc' = geoPc, screen' \in Sizes, RatioFollows'
  PROVE  GeoInv'
BY DEF GeoInv, GeoTypes, SurfaceHolds, FixedSize, isFlycast

LEMMA GeoInvNext == GeoInv /\ [GeoNext]_geoVars => GeoInv'
<1> SUFFICES ASSUME GeoInv, [GeoNext]_geoVars PROVE GeoInv'
  OBVIOUS
<1>1. screen \in Sizes /\ RatioFollows
  BY DEF GeoInv, GeoTypes
<1>2. CASE video_configure
  BY <1>2, ConfigureKeeps
<1>3. CASE video_reconfigure_geometry
  BY <1>3, ReconfigureKeeps
<1>4. CASE video_reconfigure_base_geometry
  <2>1. UNCHANGED <<handset, geoCore, hardware, maxSize, allocated, geoPc,
                    screen, opt_aspect>>
    BY <1>4 DEF video_reconfigure_base_geometry, Reshapes, choiceVars
  <2>2. UNCHANGED <<aspect, game_aspect>>
          \/ \E g : Resolved(g, g.base)
    BY <1>4 DEF video_reconfigure_base_geometry
  <2>3. RatioFollows'
    BY <1>1, <2>1, <2>2 DEF RatioFollows, Resolved
  <2> QED
    BY <1>1, <2>1, <2>3, SizesKept
<1>5. CASE core_video_refresh
  <2>1. UNCHANGED <<handset, geoCore, hardware, maxSize, allocated, geoPc,
                    screen, opt_aspect, aspect, game_aspect>>
    BY <1>5 DEF core_video_refresh, choiceVars, sizeVars
  <2> QED
    BY <1>1, <2>1, SizesKept DEF RatioFollows
<1>6. CASE setAspectRatioSettings
  <2>1. UNCHANGED <<handset, geoCore, hardware, maxSize, allocated, geoPc,
                    screen, game_aspect>>
    BY <1>6 DEF setAspectRatioSettings, Choice, Reshapes, sizeVars
  <2>2. aspect' = IF opt_aspect' = NoRatio THEN game_aspect ELSE opt_aspect'
    BY <1>6 DEF setAspectRatioSettings
  <2>3. RatioFollows'
    BY <2>1, <2>2 DEF RatioFollows
  <2> QED
    BY <1>1, <2>1, <2>3, SizesKept
<1>7. CASE setTateMode \/ setPixelPerfect
  <2>1. UNCHANGED <<handset, geoCore, hardware, maxSize, allocated, geoPc,
                    screen, opt_aspect, aspect, game_aspect>>
    BY <1>7 DEF setTateMode, setPixelPerfect, Choice, Reshapes, sizeVars
  <2> QED
    BY <1>1, <2>1, SizesKept DEF RatioFollows
<1>8. CASE OptionChanges \/ WindowResized
  <2>1. UNCHANGED <<handset, geoCore, hardware, maxSize, allocated, geoPc,
                    opt_aspect, aspect, game_aspect>>
    BY <1>8
    DEF OptionChanges, WindowResized, Reshapes, sizeVars, choiceVars
  <2>2. screen' = screen \/ screen' \in Windows
    BY <1>8 DEF OptionChanges, WindowResized
  <2>3. screen' \in Sizes
    BY <1>1, <2>2, GeometryAssumption
  <2> QED
    BY <1>1, <2>1, <2>3, SizesKept DEF RatioFollows
<1>9. CASE UNCHANGED geoVars
  <2>1. UNCHANGED <<handset, geoCore, hardware, maxSize, allocated, geoPc,
                    screen, opt_aspect, aspect, game_aspect>>
    BY <1>9 DEF geoVars, sizeVars, choiceVars
  <2> QED
    BY <1>1, <2>1, SizesKept DEF RatioFollows
<1> QED
  BY <1>2, <1>3, <1>4, <1>5, <1>6, <1>7, <1>8, <1>9 DEF GeoNext

\* Whatever a core asks for and in which order, while the player changes the
\* ratio, the options and the window: the ratio in use is the player's or the
\* core's last one, and the surface of a software core holds every frame the
\* core may send, unless its size is one that getFixedWidth fixes.
THEOREM SizesHold ==
  GeoSpec => [](RatioFollows /\ (FixedSize \/ SurfaceHolds))
<1>1. GeoInv => RatioFollows /\ (FixedSize \/ SurfaceHolds)
  BY DEF GeoInv
<1> QED
  BY <1>1, GeoInvInit, GeoInvNext, PTL DEF GeoSpec
=============================================================================
