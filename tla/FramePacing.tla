---------------------------- MODULE FramePacing -----------------------------
(***************************************************************************)
(* Which frames are shown: the fixed and the adaptive frameskip, the gates *)
(* of core_video_refresh that drop a frame, the end of the loop of main.cpp*)
(* that decides whether the next one is dropped, and the settings, which   *)
(* keep the two kinds of skipping apart.                                   *)
(***************************************************************************)
EXTENDS Integers

CONSTANTS MaxSkip,     \* the largest fixed skip: 5 in the code
          MaxPeriod,   \* the mildest adaptive skip: 4 in the code
          MaxCooldown, \* recoverCooldown: 8 in the code
          MaxDropped   \* bound: where the history stops counting

ASSUME PaceAssumption ==
  /\ MaxSkip \in Nat \ {0} /\ MaxPeriod \in Nat \ {0} /\ MaxCooldown \in Nat
  /\ MaxDropped \in Nat /\ MaxDropped > MaxSkip + 1

VARIABLES
  fixedSkip, adaptive,  \* fixedFrameSkip, adaptiveFrameSkip
  remaining,            \* fixedFramesRemaining
  skipNext,             \* skipNextVideoFrame
  period, ticker, cooldown, \* skipPeriod, skipTicker, recoverCooldown
  page,                 \* the menu: "none", "asked", and "shown" when drawn
  dropped               \* history: frames not shown since the last one that
                        \* was, or since fast-forward

paceVars == <<fixedSkip, adaptive, remaining, skipNext, period, ticker,
              cooldown, page, dropped>>

-----------------------------------------------------------------------------
(* The settings.                                                           *)

Skips == [fixed : 0 .. MaxSkip, adaptive : BOOLEAN]
Apply(s) == fixedSkip' = s.fixed /\ adaptive' = s.adaptive

\* initConfig, and the settings of a profile applied over it: the fixed skip
\* wins.
Configured(s) == [s EXCEPT !.adaptive = s.adaptive /\ s.fixed = 0]

\* applyBenchmarkSetting: the one set last wins.
Benchmarked(s) ==
  {[fixed |-> f, adaptive |-> s.adaptive /\ f = 0] : f \in 0 .. MaxSkip} \cup
  {[fixed |-> IF a THEN 0 ELSE s.fixed, adaptive |-> a] : a \in BOOLEAN}

\* A run starts with the settings of the file, of the profile, and of the
\* benchmark in turn.
PaceInit ==
  /\ \E file \in Skips :
       \E s \in {Configured(file)} \cup Benchmarked(Configured(file)) :
         fixedSkip = s.fixed /\ adaptive = s.adaptive
  /\ remaining = 0 /\ skipNext = FALSE
  /\ period = 0 /\ ticker = 0 /\ cooldown = 0
  /\ page = "none" /\ dropped = 0

\* setAdaptiveFrameskipSetting, setFixedFrameskipSetting.  Mutant: the fixed
\* skip is chosen without a look at the adaptive one.
AdaptiveKept(f) == adaptive
AdaptiveAfter(f) == adaptive /\ f = 0

Stepped == {(fixedSkip + k) % (MaxSkip + 1) : k \in {1, MaxSkip}}
MenuSetting ==
  /\ page = "shown"
  /\ \/ Apply([fixed |-> IF adaptive THEN fixedSkip ELSE 0,
               adaptive |-> ~adaptive])
     \/ \E f \in Stepped : Apply([fixed |-> f, adaptive |-> AdaptiveAfter(f)])
  /\ UNCHANGED <<remaining, skipNext, period, ticker, cooldown, page, dropped>>

\* The hotkey, at the poll of any iteration, and an item of the menu.
Page ==
  /\ page' = IF page = "none" THEN "asked" ELSE "none"
  /\ UNCHANGED <<fixedSkip, adaptive, remaining, skipNext, period, ticker,
                 cooldown, dropped>>

-----------------------------------------------------------------------------
(* core_video_refresh.                                                     *)

\* A frame of the core: with a page of the frontend or a message in it, while
\* credits or a screenshot are asked for, or while fast-forwarding.
Kinds == {"game", "page", "credits", "ffwd"}
KindNow == IF page = "none" THEN Kinds \ {"page"} ELSE {"page"}

\* forcePresentation.
Forced(kind) == kind # "game"

\* What the gate of the fixed skip leaves in fixedFramesRemaining, and
\* whether it drops the frame.
FixedDrops(kind) == ~Forced(kind) /\ fixedSkip > 0 /\ remaining > 0
FixedLeaves(kind) ==
  IF Forced(kind) \/ fixedSkip = 0 THEN 0
  ELSE IF remaining > 0 THEN remaining - 1 ELSE fixedSkip

\* The gate of the adaptive skip.  The one of fast-forward, which drops what
\* comes faster than the display shows, is not counted.
AdaptiveDrops(kind) == skipNext /\ kind \in {"game", "credits"}

Shown(kind) == dropped' = 0 /\ page' = IF kind = "page" THEN "shown" ELSE page
Lost == /\ dropped' = IF dropped < MaxDropped THEN dropped + 1 ELSE dropped
        /\ UNCHANGED page
Drops(kind) ==
  \/ /\ FixedDrops(kind) /\ Lost /\ UNCHANGED skipNext
  \/ /\ ~FixedDrops(kind) /\ AdaptiveDrops(kind)
     /\ skipNext' = FALSE /\ Lost
  \/ /\ ~FixedDrops(kind) /\ ~AdaptiveDrops(kind) /\ UNCHANGED skipNext
     /\ Shown(kind)

\* A repetition of the last hardware frame returns before any of that.
VideoRefresh ==
  \E kind \in KindNow :
    /\ Drops(kind) /\ remaining' = FixedLeaves(kind)
    /\ UNCHANGED <<fixedSkip, adaptive, period, ticker, cooldown>>

-----------------------------------------------------------------------------
(* The end of an iteration of the loop.                                    *)

\* What the average of the time the frames are late asks for.
Targets == 0 .. MaxPeriod

Recovers(target) == target = 0 /\ period > 0
NewPeriod(target) ==
  IF target > period THEN target
  ELSE IF Recovers(target) /\ cooldown = 0 THEN period - 1 ELSE period
NewCooldown(target) ==
  IF target > period THEN 0
  ELSE IF Recovers(target)
       THEN IF cooldown = 0 THEN MaxCooldown ELSE cooldown - 1
  ELSE IF cooldown < MaxCooldown THEN cooldown + 1 ELSE MaxCooldown

\* A change of the period starts its count again.
Count(target) == IF NewPeriod(target) # period THEN 0 ELSE ticker

\* Measured only with the adaptive skip, at the declared rate and without
\* fast-forward from the start of the iteration on.
Measure ==
  \E target \in Targets :
    /\ period' = NewPeriod(target) /\ cooldown' = NewCooldown(target)
    /\ skipNext' = (period' > 0 /\ Count(target) = 0)
    /\ ticker' = IF period' = 0 THEN Count(target)
                 ELSE (Count(target) + 1) % (period' + 1)

\* When nothing is measured, the last decision goes, too.
Forget == period' = 0 /\ ticker' = 0 /\ cooldown' = 0 /\ skipNext' = FALSE

\* The menu's branch of the loop does not get here.
LoopEnd ==
  /\ page = "none"
  /\ (adaptive /\ Measure) \/ Forget
  /\ UNCHANGED <<fixedSkip, adaptive, remaining, page, dropped>>

PaceNext == MenuSetting \/ Page \/ VideoRefresh \/ LoopEnd
PaceSpec == PaceInit /\ [][PaceNext]_paceVars

-----------------------------------------------------------------------------
(* Properties.                                                             *)

\* However the file, the profile, the benchmark and the menu choose the
\* settings, a game that is not fast-forwarded is still shown: with a fixed
\* skip, at least one frame of fixedSkip + 2 gets through both gates (the one
\* more is what the adaptive skip decided before the menu turned it off); and
\* without any skip, none but that one is dropped.
GameShown == fixedSkip > 0 \/ ~adaptive => dropped <= fixedSkip + 1
=============================================================================
