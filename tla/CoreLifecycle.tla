--------------------------- MODULE CoreLifecycle ---------------------------
(***************************************************************************)
(* A process of RetroRun from its arguments to its end: core/core_loader,  *)
(* core/archive_content, core/runtime_exit.h, and the startup, restart and *)
(* shutdown of main.cpp.  What the model keeps of a step is which of the   *)
(* core's entry points it calls, what it brings up or releases, and how    *)
(* the process ends when it fails.                                         *)
(***************************************************************************)
EXTENDS Integers, Sequences

CONSTANT MaxExecs  \* bound: restarts in place

ASSUME LifeAssumption == MaxExecs \in Nat

VARIABLES
  lifePc,     \* where main is
  core,       \* g_retro: handle, initialized, game_loaded, callbacks_enabled
  legacy,     \* isFlycast2021(), known once the core has named itself
  hooks,      \* pointers into the core the frontend keeps
  wanted,     \* flycastRequestedCoreVariant is another one than the active
  temp,       \* the directory a ZIP was extracted to exists
  up,         \* devices and services that are up
  threads,    \* joinable threads of the services
  restarted,  \* RETRORUN_FLYCAST_VARIANT_RESTARTED
  execs,      \* bound
  benchmark,  \* benchmark_requested()
  outcome     \* how the process ended

lifeVars == <<lifePc, core, legacy, hooks, wanted, temp, up, threads,
              restarted, execs, benchmark, outcome>>

NoCore == [handle |-> FALSE, initialized |-> FALSE, loaded |-> FALSE,
           callbacks |-> FALSE]

LifeInit ==
  /\ lifePc = "arguments" /\ core = NoCore /\ legacy = FALSE /\ hooks = {}
  /\ wanted = FALSE /\ temp = FALSE /\ up = {} /\ threads = {}
  /\ restarted = FALSE /\ execs = 0 /\ benchmark \in BOOLEAN
  /\ outcome = "none"

-----------------------------------------------------------------------------
(* The ends of a process.                                                  *)

\* core_discard_prepared_content.  Mutant: rr_runtime_fail leaves it.
NotDiscarded == temp
Discarded == FALSE

\* rr_runtime_fail, which also ends a retrorun_main that returned an error or
\* threw: no destructor runs.
Fail ==
  /\ lifePc' = "ended" /\ outcome' = "failed" /\ temp' = Discarded
  /\ UNCHANGED <<core, legacy, hooks, wanted, up, threads, restarted, execs,
                 benchmark>>

\* exit: the destructors of the static objects run, in no given order.  One
\* of a thread that can be joined calls std::terminate.
ExitCall ==
  /\ lifePc' = "ended"
  /\ IF threads = {} THEN outcome' = "exited" /\ temp' = FALSE
     ELSE outcome' = "aborted" /\ temp' \in {temp, FALSE}
  /\ UNCHANGED <<core, legacy, hooks, wanted, up, threads, restarted, execs,
                 benchmark>>

-----------------------------------------------------------------------------
(* Startup.                                                                *)

\* The options and arguments, then initConfig and the device: an error is a
\* return or a failure.  rr_input_create may also exit.
Arguments ==
  /\ lifePc = "arguments"
  /\ \/ Fail
     \/ lifePc' = "platform"
        /\ UNCHANGED <<core, legacy, hooks, wanted, temp, up, threads,
                       restarted, execs, benchmark, outcome>>

Platform ==
  /\ lifePc = "platform"
  /\ \/ Fail \/ ExitCall
     \/ /\ lifePc' = "open" /\ up' = up \cup {"input"}
        /\ UNCHANGED <<core, legacy, hooks, wanted, temp, threads, restarted,
                       execs, benchmark, outcome>>

\* core_load: dlopen, and the symbols a core must have.
Open ==
  /\ lifePc = "open"
  /\ \/ Fail
     \/ /\ lifePc' = "init" /\ core' = [NoCore EXCEPT !.handle = TRUE]
        /\ UNCHANGED <<legacy, hooks, wanted, temp, up, threads, restarted,
                       execs, benchmark, outcome>>

\* core_environment, called by the core from any of its entry points: what it
\* registers of its own.  SET_KEYBOARD_CALLBACK ignores a null pointer; the
\* disk control can be taken back.
Environment(kinds) == {h \in SUBSET kinds : hooks \ {"disk"} \subseteq h}

\* The callbacks are enabled before retro_init is called, which may throw.
CoreInit ==
  /\ lifePc = "init"
  /\ \/ Fail
     \/ /\ lifePc' = "profile" /\ legacy' \in BOOLEAN
        /\ core' = [core EXCEPT !.callbacks = TRUE, !.initialized = TRUE]
        /\ hooks' \in Environment({"keyboard", "disk"})
        /\ UNCHANGED <<wanted, temp, up, threads, restarted, execs, benchmark,
                       outcome>>

\* applyFlycastGameCatalog: a profile may ask for another build of the core.
AskVariant ==
  /\ lifePc = "profile" /\ lifePc' = "variant" /\ wanted' \in BOOLEAN
  /\ UNCHANGED <<core, legacy, hooks, temp, up, threads, restarted, execs,
                 benchmark, outcome>>

\* maybeRestartWithFlycastCoreVariant.  A process that was restarted keeps
\* the core it has.  Mutant: nobody looks at the environment variable.
RestartAlways == wanted
MayRestart == wanted /\ ~restarted

\* execv: all that is left of the process is its environment.
Restart ==
  /\ lifePc = "variant" /\ MayRestart /\ restarted' = TRUE
  /\ execs' = IF execs < MaxExecs THEN execs + 1 ELSE execs
  /\ lifePc' = "arguments" /\ core' = NoCore /\ legacy' = FALSE
  /\ hooks' = {} /\ wanted' = FALSE /\ up' = {} /\ threads' = {}
  /\ UNCHANGED <<temp, benchmark, outcome>>

\* Nothing asked for, no such file, refused, or execv failed.  The benchmark's
\* settings are applied once more; the loading screen has a thread.
Proceed ==
  /\ lifePc = "variant" /\ lifePc' = "content"
  /\ restarted' \in {restarted, restarted \/ wanted}
  /\ up' \in IF benchmark THEN {up} ELSE {up, up \cup {"loading"}}
  /\ threads' = threads \cup (up' \cap {"loading"})
  /\ UNCHANGED <<core, legacy, hooks, wanted, temp, execs, benchmark, outcome>>
Setting == lifePc = "variant" /\ benchmark /\ Fail

\* ArchiveContent::prepare, after reset: content that is not a ZIP, or that
\* the core reads itself, stays where it is; a failure leaves no directory.
\* The Flycast cores read archives themselves.
Prepare ==
  /\ lifePc = "content"
  /\ \/ Fail
     \/ /\ lifePc' = "load_game"
        /\ temp' \in IF legacy THEN {FALSE} ELSE BOOLEAN
        /\ UNCHANGED <<core, legacy, hooks, wanted, up, threads, restarted,
                       execs, benchmark, outcome>>

\* core_load_game.  A refusal resets the archive before it fails.
LoadGame ==
  /\ lifePc = "load_game"
  /\ \/ Fail
     \/ /\ lifePc' = "configure" /\ core' = [core EXCEPT !.loaded = TRUE]
        /\ hooks' \in Environment({"keyboard", "disk", "context"})
        /\ UNCHANGED <<legacy, wanted, temp, up, threads, restarted, execs,
                       benchmark, outcome>>

\* video_configure stops the loading screen, then brings up the display and,
\* for a core that asked for one, its hardware context.
InitVideo ==
  /\ lifePc = "configure"
  /\ \/ Fail
     \/ /\ lifePc' = "sound" /\ threads' = threads \ {"loading"}
        /\ up' = (up \ {"loading"})
                   \cup {"surfaces", "video"} \cup (hooks \cap {"context"})
        /\ UNCHANGED <<core, legacy, hooks, wanted, temp, restarted, execs,
                       benchmark, outcome>>

InitAudio ==
  /\ lifePc = "sound"
  /\ \/ Fail
     \/ /\ lifePc' = "services" /\ up' = up \cup {"audio"}
        /\ UNCHANGED <<core, legacy, hooks, wanted, temp, threads, restarted,
                       execs, benchmark, outcome>>

\* achievements_init, decoration_init, network_status_refresh: the network is
\* always probed by a thread, a disc may be hashed by one.
Services ==
  /\ lifePc = "services" /\ lifePc' = "slot"
  /\ up' = up \cup {"achievements", "decorations"}
  /\ threads' \in {threads \cup {"network"},
                   threads \cup {"network", "achievements"}}
  /\ UNCHANGED <<core, legacy, hooks, wanted, temp, restarted, execs,
                 benchmark, outcome>>

\* A slot asked for must exist: retrorun_main returns.  A state is loaded by
\* a thread.
StartState ==
  /\ lifePc = "slot"
  /\ \/ Fail
     \/ /\ lifePc' = "battery" /\ threads' \in {threads, threads \cup {"load"}}
        /\ UNCHANGED <<core, legacy, hooks, wanted, temp, up, restarted,
                       execs, benchmark, outcome>>

\* LoadSram: a core without the memory its size announces, or a file that
\* shrinks while it is read, ends the process.
Battery ==
  /\ lifePc = "battery"
  /\ \/ ExitCall
     \/ /\ lifePc' = "loop"
        /\ UNCHANGED <<core, legacy, hooks, wanted, temp, up, threads,
                       restarted, execs, benchmark, outcome>>

-----------------------------------------------------------------------------
(* The loop, as far as the lifecycle goes.                                 *)

\* retro_run and the services pumped beside it.
Frame ==
  /\ lifePc = "loop"
  /\ hooks' \in Environment({"keyboard", "disk"}
                            \cup (hooks \cap {"context"}))
  /\ threads' \in {threads} \cup
       {threads \cup {t} : t \in {"load", "catalog", "achievements"}} \cup
       {threads \ {t} : t \in {"load", "catalog"}}
  /\ UNCHANGED <<lifePc, core, legacy, wanted, temp, up, restarted, execs,
                 benchmark, outcome>>

\* audio_reconfigure and the allocations of a frame throw; a controller that
\* cannot be opened ends the process.
LoopFails == lifePc = "loop" /\ (Fail \/ ExitCall)

Quit ==
  /\ lifePc = "loop" /\ lifePc' = "sram"
  /\ UNCHANGED <<core, legacy, hooks, wanted, temp, up, threads, restarted,
                 execs, benchmark, outcome>>

\* Mutant: the game goes before the achievements that read its memory.
GameFirst == <<"load", "network", "catalog", "decorations", "callbacks",
  "audio", "video", "game", "achievements", "core", "surfaces", "input",
  "library">>
Order == <<"load", "network", "catalog", "achievements", "decorations",
  "callbacks", "audio", "video", "game", "core", "surfaces", "input",
  "library">>

\* SaveSram writes in place, not for a benchmark; then the automatic state.
Persist ==
  /\ lifePc = "sram"
  /\ \/ ~benchmark /\ ExitCall
     \/ /\ lifePc' = Order[1]
        /\ UNCHANGED <<core, legacy, hooks, wanted, temp, up, threads,
                       restarted, execs, benchmark, outcome>>

-----------------------------------------------------------------------------
(* The shutdown, one step after the other.                                 *)

Shut(pc) ==
  \E i \in 1 .. Len(Order) - 1 :
    Order[i] = pc /\ lifePc = pc /\ lifePc' = Order[i + 1]
ShutRest == UNCHANGED <<legacy, wanted, temp, restarted, execs, benchmark,
                        outcome>>

\* ShutdownLoadStateAsync, network_status_shutdown, decoration_catalog_shutdown
\* join what they started.
StopThread(t) ==
  /\ Shut(t) /\ threads' = threads \ {t}
  /\ ShutRest /\ UNCHANGED <<core, hooks, up>>

StopAchievements ==
  /\ Shut("achievements") /\ threads' = threads \ {"achievements"}
  /\ up' = up \ {"achievements"}
  /\ ShutRest /\ UNCHANGED <<core, hooks>>

StopDevice(d) ==
  /\ Shut(d) /\ up' = up \ {d}
  /\ ShutRest /\ UNCHANGED <<core, hooks, threads>>

DisableCallbacks ==
  /\ Shut("callbacks") /\ core' = [core EXCEPT !.callbacks = FALSE]
  /\ ShutRest /\ UNCHANGED <<hooks, up, threads>>

\* video_prepare_core_unload calls the core's context_destroy.
PrepareUnload ==
  /\ Shut("video") /\ up' = up \ {"video", "context"}
  /\ hooks' = hooks \ {"context"}
  /\ ShutRest /\ UNCHANGED <<core, threads>>

\* core_unload_game.  The legacy core crashes in retro_unload_game, which is
\* not called.
Quirk == legacy

UnloadGame ==
  /\ lifePc = "game"
  /\ IF legacy /\ ~Quirk THEN lifePc' = "ended" /\ outcome' = "crashed"
     ELSE Shut("game") /\ UNCHANGED outcome
  /\ core' = [core EXCEPT !.loaded = FALSE]
  /\ UNCHANGED <<legacy, hooks, wanted, temp, up, threads, restarted, execs,
                 benchmark>>

\* core_deinit, not for the legacy core.
Deinit ==
  /\ Shut("core")
  /\ IF legacy THEN UNCHANGED <<core, hooks>>
     ELSE /\ core' = [core EXCEPT !.callbacks = FALSE, !.initialized = FALSE]
          /\ hooks' = hooks \ {"keyboard", "disk"}
  /\ ShutRest /\ UNCHANGED <<up, threads>>

\* core_close and the return, or the end of the legacy core without either.
Close ==
  /\ lifePc = "library" /\ lifePc' = "ended"
  /\ IF legacy THEN outcome' = "legacy" /\ UNCHANGED <<core, hooks, temp>>
     ELSE /\ outcome' = "returned" /\ core' = NoCore /\ temp' = FALSE
          /\ hooks' = hooks \ {"context"}
  /\ UNCHANGED <<legacy, wanted, up, threads, restarted, execs, benchmark>>

Startup == \/ Arguments \/ Platform \/ Open \/ CoreInit \/ AskVariant
           \/ Restart \/ Proceed \/ Setting \/ Prepare \/ LoadGame
           \/ InitVideo \/ InitAudio \/ Services \/ StartState \/ Battery
Shutdown == \/ Persist \/ StopThread("load") \/ StopThread("network")
            \/ StopThread("catalog") \/ StopAchievements
            \/ StopDevice("decorations") \/ DisableCallbacks
            \/ StopDevice("audio") \/ PrepareUnload \/ UnloadGame \/ Deinit
            \/ StopDevice("surfaces") \/ StopDevice("input") \/ Close

LifeNext == Startup \/ Frame \/ LoopFails \/ Quit \/ Shutdown
LifeSpec == LifeInit /\ [][LifeNext]_lifeVars

-----------------------------------------------------------------------------
(* Properties.                                                             *)

Stages == {Order[i] : i \in 1 .. Len(Order)}

\* Nothing that reads or calls the core outlives it: the keyboard and disk
\* callbacks an initialised core, the achievements and the hardware context a
\* loaded game; and while the core may call, it finds the devices it calls
\* into, from the first frame to the end of a shutdown.
CoreOutlivesUsers ==
  /\ hooks # {} => core.initialized
  /\ up \cap {"achievements", "context"} # {} => core.loaded
  /\ core.callbacks /\ lifePc \in {"loop", "sram"} \cup Stages
       => {"audio", "video", "surfaces"} \subseteq up

\* However a process ends but by a crash of its own, no extracted content
\* stays behind; the legacy core is never called where it crashes; and a
\* process that ends in order has stopped and released everything first,
\* which it must, for its static objects are then destroyed.
EndsClean ==
  /\ outcome \in {"failed", "exited", "legacy", "returned"} => ~temp
  /\ outcome # "crashed"
  /\ outcome \in {"legacy", "returned"} => up = {} /\ threads = {}
  /\ outcome = "returned" => hooks = {} /\ core = NoCore

\* Both: what the order of the start and of every end is for.
OrderlyEnd == CoreOutlivesUsers /\ EndsClean

\* Whatever core a profile asks for, a start with good arguments gets to the
\* loop or to its end: a core that does not become the one asked for is not
\* restarted for ever.
StartupSettles == lifePc = "platform" ~> lifePc \in {"loop", "ended"}
=============================================================================
