----------------------------- MODULE MCFrontend -----------------------------
(***************************************************************************)
(* Instances of the frontend's components for TLC.  They share no variable *)
(* and each is checked by itself: a behaviour is one of the component      *)
(* named by part, while the others stay in their initial state.            *)
(***************************************************************************)
EXTENDS SaveStates, CoreLifecycle, AvUpdates, Achievements, FrontendLoop,
        FramePacing, Go2Audio, InputProperties

CONSTANT Parts  \* the components a run checks

VARIABLE part

\* What may be chosen for a component that is not checked is chosen once.
StillChosen ==
  /\ part # "life" => ~benchmark
  /\ part # "loop" => ui.loading /\ measuring = (Benchmarks = {TRUE})
  /\ part # "pacing" => fixedSkip = 0 /\ ~adaptive
  /\ part # "sound" => coreThread = (CoreThreads = {TRUE})

\* A gamepad at rest.
PadChosen ==
  IF part = "gamepad" THEN Go2PadInit
  ELSE holding = {} /\ missing = {} /\ Go2PadInit

FrontendInit ==
  /\ part \in Parts
  /\ SaveInit
  /\ LifeInit
  /\ AvInit
  /\ AchInit
  /\ ViewInit
  /\ LoopInit
  /\ PaceInit
  /\ MenuInit
  /\ SdlInit
  /\ Go2Init
  /\ StillChosen
  /\ PadChosen

Only(p) ==
  /\ part = p /\ UNCHANGED part
  /\ IF p = "saves" THEN TRUE ELSE UNCHANGED saveVars
  /\ IF p = "life" THEN TRUE ELSE UNCHANGED lifeVars
  /\ IF p = "updates" THEN TRUE ELSE UNCHANGED avVars
  /\ IF p = "achievements" THEN TRUE ELSE UNCHANGED achVars
  /\ IF p = "view" THEN TRUE ELSE UNCHANGED viewVars
  /\ IF p = "loop" THEN TRUE ELSE UNCHANGED loopVars
  /\ IF p = "pacing" THEN TRUE ELSE UNCHANGED paceVars
  /\ IF p = "menu" THEN TRUE ELSE UNCHANGED menuVars
  /\ IF p = "input" THEN TRUE ELSE UNCHANGED sdlVars
  /\ IF p = "sound" THEN TRUE ELSE UNCHANGED go2Vars
  /\ IF p = "gamepad" THEN TRUE ELSE UNCHANGED go2PadVars

FrontendNext ==
  \/ Only("saves") /\ SaveNext
  \/ Only("life") /\ LifeNext
  \/ Only("updates") /\ AvNext
  \/ Only("achievements") /\ AchNext
  \/ Only("view") /\ ViewNext
  \/ Only("loop") /\ LoopNext
  \/ Only("pacing") /\ PaceNext
  \/ Only("menu") /\ MenuNext
  \/ Only("input") /\ SdlNext
  \/ Only("sound") /\ Go2Next
  \/ Only("gamepad") /\ Go2PadNext

FrontendVars == <<part, saveVars, lifeVars, avVars, achVars,
                  viewVars, loopVars, paceVars, menuVars,
                  sdlVars, go2Vars, go2PadVars>>
FrontendSpec == FrontendInit /\ [][FrontendNext]_FrontendVars

\* The loading thread and main both run.  Every iteration of the loop without
\* the menu pumps before it looks at the requests, so that a main that keeps
\* saving cannot pass over a result for ever: strong fairness for PumpReady.
SaveFairness ==
  /\ WF_saveVars(part = "saves" /\ LoadThread)
  /\ SF_saveVars(part = "saves" /\ PumpReady)
  /\ WF_saveVars(part = "saves" /\ (PumpApply \/ SaveState \/ ShutdownLoad))

\* Main is not stopped outside of the loop.
LifeFairness == WF_lifeVars(part = "life" /\ (Startup \/ Shutdown))

\* Main and the worker run, and a core that was called polls, reads and
\* returns, which it can only while it is not polling: strong fairness.
LoopFairness ==
  /\ WF_loopVars(part = "loop" /\ loopPc # "core" /\ Main)
  /\ WF_loopVars(part = "loop" /\ CorePoll /\ polled = "no")
  /\ WF_loopVars(part = "loop" /\ CoreReads)
  /\ SF_loopVars(part = "loop" /\ CoreReturns)
  /\ WF_loopVars(part = "loop" /\ Painter)

FairFrontendSpec ==
  FrontendSpec /\ SaveFairness /\ LifeFairness /\ LoopFairness
=============================================================================
