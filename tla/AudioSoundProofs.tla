------------------------- MODULE AudioSoundProofs --------------------------
(***************************************************************************)
(* That no sound is lost, counted twice or heard out of order, that the    *)
(* provider is only called while it exists, that a pause is silent, and    *)
(* that the engine implements the abstract pipe: on top of                 *)
(* AudioEngineProofs, for every value of the constants.                    *)
(***************************************************************************)
EXTENDS AudioEngineProofs

-----------------------------------------------------------------------------
(* The life of the engine under its callbacks.                             *)

InCallback == {"volume", "chunks", "submit", "start"}

\* The stages of audio_deinit and audio_init, and the wait for a Stop.
Stopping == msend = "Stop" /\ mpc \in {"send", "await"}
Closing == mpc \in {"close", "cancel", "stop", "destroy", "release"}
Closed ==
  Stopping \/ mpc \in {"cancel", "stop", "destroy", "release", "create",
                       "reset", "halted"}

\* Which operation main is in, and what it is about to command.
Operation ==
  /\ mop = "boot" => mpc \in {"create", "reset"}
  /\ mpc \in {"create", "reset"} => mop \in {"boot", "rate"}
  /\ mpc = "halted" => mop = "shutdown"
  /\ Closing \/ Stopping => mop \in {"rate", "shutdown"}
  /\ mpc \in {"unstage", "erase"} => msend = "Flush"
  /\ mpc = "direct" => msend # "Stop"
  /\ mpc \in {"retarget", "rebuffer"} => mop = "retime"

\* Who is in a callback, and that the engine is not taken down under it.
Callers ==
  /\ cbOwner = "producer" <=> ppc \in InCallback
  /\ ~coreThread /\ mpc # "idle" => ppc = "idle"
  /\ mop = "boot" => ppc = "idle"
  /\ mop = "shutdown" => ~callbacks
  /\ coreThread /\ mop = "rate" => rebuilt
  /\ ~rebuilt /\ Closed => staging = 0 /\ ppc \in {"idle", "lock"}
  /\ ~rebuilt /\ ppc \in {"submit"} => staging >= chunk

\* The provider is there while it can be called.
Provided ==
  /\ mpc \notin {"create", "release", "halted"} => device.open
  /\ mpc \notin {"create", "halted"} => backend
  /\ mpc \in {"release", "create", "reset", "halted"} =>
       wpc \in {"none", "dead"}

Life == Operation /\ Callers /\ Provided

-----------------------------------------------------------------------------
(* The order of the frames.                                                *)

\* The last frame that has left the staging.
Passed == produced - Unsubmitted

Rising(q) == \A i, j \in DOMAIN q : i < j => q[i] < q[j]

\* Every frame on its way is younger than those ahead of it.
Chain ==
  /\ Rising(device.queue)
  /\ heard <= Passed /\ DeviceAbove(heard) /\ HeldAbove(heard)
  /\ QueueAbove(heard)
  /\ \A i \in DOMAIN device.queue :
       /\ device.queue[i] <= Passed
       /\ HeldAbove(device.queue[i]) /\ QueueAbove(device.queue[i])
  /\ wpc = "submit" => wcmd.hi <= Passed /\ QueueAbove(wcmd.hi)
  /\ \A i \in DOMAIN commands : IsData(commands[i]) =>
       /\ commands[i].hi <= Passed
       /\ \A j \in DOMAIN commands :
            IsData(commands[j]) /\ i < j => commands[i].hi < commands[j].lo

\* Where they are counted.
InHands == IF wpc = "submit" THEN Size(wcmd) ELSE 0

Counted ==
  /\ produced = settled + dropped + flushed + queued + Unsubmitted + InHands
  /\ IsFiniteSet(QueuedFrames) /\ queued = Cardinality(QueuedFrames)

SoundInv == Life /\ (rebuilt \/ (Chain /\ Counted))

-----------------------------------------------------------------------------
(* The silence of a pause.                                                 *)

\* main has executed the Pause, and has not left it; the provider is the one
\* that was paused.
InPause ==
  /\ transition /\ ~untold
  /\ mop # "shutdown" /\ (mop = "pause" => mpc = "idle")

Answered == ackedId >= mid

Pauses ==
  /\ mop \in {"boot", "resume"} => ~transition
  /\ mop = "rate" /\ transition => untold
  /\ mop = "resume" /\ mpc # "idle" => msend = "Resume"
  /\ mop = "pause" => msend \in {"Flush", "Pause"} /\ transition
  /\ mop \notin {"pause", "resume"} /\ mpc \in {"send", "await", "direct"} =>
       msend \in {"Flush", "Stop"}
  /\ mop = "shutdown" =>
       Closing \/ Stopping \/ mpc = "halted"

\* Who may start the device, and that a paused one is not started.
Starts ==
  /\ device.starting =>
       \/ threaded /\ wpc = "submitted"
       \/ ~threaded /\ ppc = "start"
  /\ device.paused => ~device.running /\ ~device.starting

Silent ==
  /\ InPause => device.paused /\ state = "Paused"
  /\ msend = "Pause" /\ mpc = "await" =>
       /\ wpc \in {"publish", "ack"} \/ Answered => device.paused
       /\ wpc = "ack" \/ Answered => state = "Paused"

PauseInv == Pauses /\ (ProviderSerialised => Starts /\ Silent)

USE DEF modeVars, stageVars, dequeVars, idVars, lifeVars, opVars, mainVars,
        producerVars, workerVars, engineVars, countVars

-----------------------------------------------------------------------------
(* The provider's operations, field by field.                              *)

\* What a submission leaves of the device,
LEMMA SubmitFields ==
  ASSUME NEW d \in Device, NEW frames \in Seq(Nat)
  PROVE  LET s == DeviceSubmit(d, frames)
         IN  /\ s.open = d.open /\ s.running = d.running
             /\ s.paused = d.paused
             /\ s.starting = (~d.started /\ StartedBy(d, d.queue \o frames))
             /\ s.queue = d.queue \o frames
BY DEF DeviceSubmit, Device

\* ... and the start that follows it,
LEMMA StartFields ==
  ASSUME NEW d \in Device
  PROVE  LET s == DeviceStart(d)
         IN  /\ s.open = d.open /\ s.paused = d.paused
             /\ s.running = (d.running \/ d.starting) /\ ~s.starting
             /\ s.queue = d.queue
BY DEF DeviceStart, Device

\* ... a flush, which starts nothing,
LEMMA FlushFields ==
  ASSUME NEW d \in Device
  PROVE  LET s == DeviceFlush(d)
         IN  /\ s.open = d.open /\ s.paused = d.paused
             /\ s.running = (d.running /\ StartsAtOnce)
             /\ s.starting = d.starting
BY DEF DeviceFlush, Device

\* ... and the pause, which stops it.
LEMMA PauseFields ==
  ASSUME NEW d \in Device, NEW paused \in BOOLEAN
  PROVE  LET s == DevicePause(d, paused)
         IN  /\ s.open = d.open /\ s.paused = paused
             /\ s.running = (~paused /\ (d.running \/ d.started))
             /\ s.starting = d.starting
BY DEF DevicePause, Device

\* A control command neither opens nor closes it, and only Pause and Resume
\* turn the pause on and off.
LEMMA ExecutedFields ==
  ASSUME device \in Device, NEW type \in ControlTypes
  PROVE  LET s == Executed(type)
         IN  /\ s.open = device.open /\ s.starting = device.starting
             /\ type = "Pause" => s.paused /\ ~s.running
             /\ type \in {"Flush", "Stop"} =>
                  s.paused = device.paused /\ (~device.running => ~s.running)
             /\ type = "Resume" => ~s.paused
<1>1. CASE type = "Flush"
  BY <1>1, FlushFields DEF Executed
<1>2. CASE type = "Pause"
  BY <1>2, PauseFields DEF Executed
<1>3. CASE type = "Resume"
  BY <1>3, PauseFields DEF Executed
<1>4. CASE type = "Stop"
  BY <1>4 DEF Executed
<1> QED
  BY <1>1, <1>2, <1>3, <1>4 DEF ControlTypes

\* What a submission leaves of it, and of the counters.
LEMMA TakenFields ==
  ASSUME device \in Device, NEW c \in Command, ProviderTakes(c)
  PROVE  /\ device'.open = device.open /\ device'.running = device.running
         /\ device'.paused = device.paused
         /\ \/ device' = device
            \/ device'.starting =
                 (~device.started /\ StartedBy(device, device'.queue))
<1>1. Frames(c) \in Seq(Nat)
  BY FramesAreNumbers
<1>2. CASE device' = device
  BY <1>2
<1>3. CASE device' = DeviceSubmit(device, Frames(c))
  BY <1>1, <1>3, SubmitFields
<1> QED
  BY <1>2, <1>3 DEF ProviderTakes

\* The parts of a chunk are commands.
LEMMA ChunkIsCommand ==
  ASSUME TypeOK, Chunking
  PROVE  Data(Oldest, Oldest + chunk - 1) \in Command
<1>1. Oldest \in Nat /\ Oldest + chunk - 1 \in Nat
  BY DEF Oldest, Chunking, TypeOK
<1> QED
  BY <1>1, DataIsCommand DEF Data, Command

-----------------------------------------------------------------------------
(* Every step keeps the life.                                              *)

\* Operations run stage by stage, main waits for the callbacks it takes the
\* engine from, and the provider is there for the others.
LEMMA LifeStep ==
  ASSUME IndInv, Life, [Next]_vars
  PROVE  Life'
<1> USE DEF Life, Operation, Callers, Provided, InCallback, Stopping,
      Closing, Closed
<1>0. TypeOK /\ Chunking /\ Loads /\ Protocol
  BY DEF IndInv
<1>1. ASSUME NEW n \in Batches, CallbackEnter(n) PROVE Life'
  BY <1>1, <1>0 DEF CallbackEnter, MayProduce, TypeOK
<1>2. CASE CallbackLock
  BY <1>2, <1>0 DEF CallbackLock, StillWanted, TypeOK
<1>3. CASE CallbackStage
  BY <1>3, <1>0 DEF CallbackStage
<1>4. CASE CallbackNext
  BY <1>4, <1>0 DEF CallbackNext
<1>5. CASE SubmitNowhere
  BY <1>5, <1>0 DEF SubmitNowhere
<1>6. CASE SubmitPush
  BY <1>6, <1>0 DEF SubmitPush
<1>7. CASE SubmitWait
  BY <1>7, <1>0 DEF SubmitWait
<1>8. CASE SubmitRefused
  BY <1>8, <1>0 DEF SubmitRefused
<1>9. CASE SubmitDirect
  <2>1. device'.open = device.open
    BY <1>9, <1>0, TakenFields, ChunkIsCommand DEF SubmitDirect, TypeOK
  <2> QED
    BY <1>9, <1>0, <2>1 DEF SubmitDirect, TypeOK, Unstaged
<1>10. CASE SubmitStart
  <2>1. device'.open = device.open
    BY <1>10, <1>0, StartFields DEF SubmitStart, TypeOK
  <2> QED
    BY <1>10, <1>0, <2>1 DEF SubmitStart, TypeOK
<1>11. CASE WorkerSleep
  BY <1>11, <1>0 DEF WorkerSleep
<1>12. CASE WorkerPop
  BY <1>12, <1>0 DEF WorkerPop
<1>13. CASE WorkerSubmit
  <2>1. device'.open = device.open
    BY <1>13, <1>0, TakenFields DEF WorkerSubmit, TypeOK
  <2> QED
    BY <1>13, <1>0, <2>1 DEF WorkerSubmit, TypeOK
<1>14. CASE WorkerSettle
  <2>1. device'.open = device.open
    BY <1>14, <1>0, StartFields DEF WorkerSettle, TypeOK
  <2> QED
    BY <1>14, <1>0, <2>1 DEF WorkerSettle, TypeOK
<1>15. CASE WorkerExecute
  <2>1. device'.open = device.open
    BY <1>15, <1>0, ExecutedFields DEF WorkerExecute, TypeOK, Protocol,
       Executing, Awaited
  <2> QED
    BY <1>15, <1>0, <2>1 DEF WorkerExecute, TypeOK
<1>16. CASE WorkerPublish
  BY <1>16, <1>0 DEF WorkerPublish
<1>17. CASE WorkerAck
  BY <1>17, <1>0 DEF WorkerAck
<1>18. ASSUME NEW op \in ControlNames, Begin(op) PROVE Life'
  <2>1. /\ mpc = "idle" /\ (~coreThread => ppc = "idle")
        /\ mop' = op /\ rebuilt' = (rebuilt \/ (coreThread /\ op = "rate"))
        /\ msend' = IF op = "resume" THEN "Resume" ELSE "Flush"
        /\ UNCHANGED <<coreThread, callbacks, cbOwner, ppc, staging, chunk,
                       device, backend, wpc>>
    BY <1>18 DEF Begin, MainIdle
  <2>2. /\ mpc' \in {"idle", "send", "direct", "close", "unstage"}
        /\ mpc' = "close" => op = "rate"
        /\ mpc' = "unstage" => op # "resume"
    BY <1>18, StageIsStage DEF Begin, FirstStage, ControlNames
  <2> QED
    BY <1>18, <1>0, <2>1, <2>2 DEF ControlNames
<1>19. CASE BeginShutdown
  <2>1. /\ mpc = "idle" /\ (~coreThread => ppc = "idle")
        /\ mop' = "shutdown" /\ callbacks' = FALSE /\ mpc' = "close"
        /\ UNCHANGED <<coreThread, rebuilt, cbOwner, ppc, staging, chunk,
                       device, backend, wpc, msend>>
    BY <1>19 DEF BeginShutdown, MainIdle, FirstStage
  <2> QED
    BY <1>19, <1>0, <2>1
<1>20. CASE FlushStaging
  BY <1>20, <1>0 DEF FlushStaging, ClearStaging
<1>21. CASE FlushErase
  BY <1>21, <1>0 DEF FlushErase
<1>22. CASE SendControl
  BY <1>22, <1>0 DEF SendControl
<1>23. CASE AwaitSleep
  BY <1>23, <1>0 DEF AwaitSleep
<1>24. CASE AwaitDone
  <2>1. /\ mpc = "await" /\ mpc' = NextStage(msend)
        /\ msend' = IF msend = "Flush" /\ mop = "pause" THEN "Pause" ELSE msend
        /\ UNCHANGED <<coreThread, rebuilt, cbOwner, ppc, staging, chunk, mop,
                       device, backend, wpc, callbacks>>
    BY <1>24 DEF AwaitDone
  <2>2. /\ mpc' \in {"send", "retarget", "destroy", "idle"}
        /\ mpc' = "destroy" <=> msend = "Stop"
        /\ mpc' = "retarget" => mop = "retime"
        /\ mpc' = "send" => msend = "Flush" /\ mop = "pause"
    BY <2>1, <1>0 DEF NextStage, TypeOK, ControlTypes
  <2> QED
    BY <1>24, <1>0, <2>1, <2>2
<1>25. CASE DirectControl
  <2>1. /\ mpc = "direct" /\ msend \in ControlTypes \ {"Stop"}
        /\ msend' = IF msend = "Flush" /\ mop = "pause" THEN "Pause" ELSE msend
        /\ UNCHANGED <<coreThread, rebuilt, cbOwner, ppc, staging, chunk, mop,
                       backend, wpc, callbacks>>
    BY <1>25, <1>0 DEF DirectControl, TypeOK
  <2>2. device'.open = device.open
    BY <1>25, <1>0, <2>1, ExecutedFields DEF DirectControl, TypeOK
  <2>3. /\ mpc' \in {"direct", "retarget", "idle"}
        /\ mpc' = "retarget" => mop = "retime"
    BY <1>25, <2>1 DEF DirectControl, NextStage, ControlTypes
  <2> QED
    BY <1>25, <1>0, <2>1, <2>2, <2>3
<1>26. CASE Retarget
  BY <1>26, <1>0 DEF Retarget
<1>27. CASE CloseStaging
  BY <1>27, <1>0 DEF CloseStaging, ClearStaging, TypeOK
<1>28. CASE CloseCancel
  <2>1. device'.open = device.open
    BY <1>28, <1>0, ControlledDevice DEF CloseCancel, DeviceCancel, TypeOK,
       Device
  <2> QED
    BY <1>28, <1>0, <2>1 DEF CloseCancel, TypeOK
<1>29. CASE CloseStop
  BY <1>29, <1>0 DEF CloseStop
<1>30. CASE CloseDestroy
  BY <1>30, <1>0 DEF CloseDestroy, Loads, TypeOK
<1>31. CASE CloseRelease
  BY <1>31, <1>0 DEF CloseRelease
<1>32. CASE CreateBackend
  BY <1>32, <1>0 DEF CreateBackend, DeviceCreate, NoDevice, TypeOK
<1>33. CASE ResetEngine
  BY <1>33, <1>0 DEF ResetEngine
<1>34. CASE Play
  <2>1. device'.open = device.open
    BY <1>34, <1>0, PlayedDevice DEF Play, CanPlay, DevicePlay, TypeOK, Device
  <2> QED
    BY <1>34, <1>0, <2>1 DEF Play, TypeOK
<1>35. CASE Halted
  BY <1>35, <1>0 DEF Halted, vars
<1>36. CASE UNCHANGED vars
  BY <1>36, <1>0 DEF vars
<1> QED
  BY <1>1, <1>2, <1>3, <1>4, <1>5, <1>6, <1>7, <1>8, <1>9, <1>10, <1>11,
     <1>12, <1>13, <1>14, <1>15, <1>16, <1>17, <1>18, <1>19, <1>20, <1>21,
     <1>22, <1>23, <1>24, <1>25, <1>26, <1>27, <1>28, <1>29, <1>30, <1>31,
     <1>32, <1>33, <1>34, <1>35, <1>36 DEF Next, Producer, Submit, Worker,
     Main

-----------------------------------------------------------------------------
(* Sequences of commands and of frames.                                    *)

\* What is left behind the first element.
LEMMA TailAt ==
  ASSUME NEW S, NEW s \in Seq(S), s # << >>
  PROVE  /\ Head(s) = s[1] /\ 1 \in DOMAIN s
         /\ \A i \in DOMAIN Tail(s) :
              /\ i + 1 \in DOMAIN s /\ i >= 1 /\ Tail(s)[i] = s[i + 1]
<1> DEFINE t == Tail(s)
<1>1. /\ Len(s) \in Nat \ {0} /\ DOMAIN s = 1..Len(s)
      /\ DOMAIN t = 1..Len(s) - 1 /\ \A i \in 1..Len(s) - 1 : t[i] = s[i + 1]
      /\ Head(s) = s[1]
  OBVIOUS
<1> HIDE DEF t
<1>2. \A i \in DOMAIN t :
        /\ i + 1 \in DOMAIN s /\ i >= 1 /\ t[i] = s[i + 1]
  BY <1>1
<1>3. 1 \in DOMAIN s
  BY <1>1
<1> QED
  BY <1>1, <1>2, <1>3 DEF t

\* The frames of a command rise from its lower to its upper end.
LEMMA FramesRise ==
  ASSUME NEW c \in Command
  PROVE  /\ Frames(c) \in Seq(Nat)
         /\ \A i \in DOMAIN Frames(c) : Frames(c)[i] \in c.lo..c.hi
         /\ Rising(Frames(c))
<1>1. c.lo \in Nat /\ c.hi \in Nat /\ Size(c) \in Int
  BY DEF Command, Size
<1>2. Frames(c) \in Seq(Nat)
  BY FramesAreNumbers
<1>3. DOMAIN Frames(c) = 1..Size(c)
  BY DEF Frames
<1>4. \A i \in 1..Size(c) : Frames(c)[i] = c.lo + i - 1
  BY DEF Frames
<1>5. \A i \in DOMAIN Frames(c) : Frames(c)[i] \in c.lo..c.hi
  BY <1>1, <1>3, <1>4 DEF Size
<1>6. Rising(Frames(c))
  BY <1>1, <1>3, <1>4 DEF Rising
<1> QED
  BY <1>2, <1>5, <1>6

\* A rising queue, and what is younger behind it.
LEMMA ConcatRises ==
  ASSUME NEW q \in Seq(Nat), NEW f \in Seq(Nat), Rising(q), Rising(f),
         \A i \in DOMAIN q, j \in DOMAIN f : q[i] < f[j]
  PROVE  /\ Rising(q \o f)
         /\ \A i \in DOMAIN (q \o f) :
              \/ \E k \in DOMAIN q : (q \o f)[i] = q[k]
              \/ \E k \in DOMAIN f : (q \o f)[i] = f[k]
<1> DEFINE t == q \o f
<1>1. /\ Len(q) \in Nat /\ Len(f) \in Nat
      /\ DOMAIN q = 1..Len(q) /\ DOMAIN f = 1..Len(f)
      /\ DOMAIN t = 1..Len(q) + Len(f)
      /\ \A i \in 1..Len(q) + Len(f) :
           t[i] = IF i <= Len(q) THEN q[i] ELSE f[i - Len(q)]
  OBVIOUS
<1> HIDE DEF t
<1>2. \A i \in DOMAIN t :
        \/ i \in DOMAIN q /\ t[i] = q[i]
        \/ i > Len(q) /\ i - Len(q) \in DOMAIN f /\ t[i] = f[i - Len(q)]
  BY <1>1
<1>3. ASSUME NEW i \in DOMAIN t, NEW j \in DOMAIN t, i < j
      PROVE  t[i] < t[j]
  <2>1. CASE i \in DOMAIN q /\ t[i] = q[i] /\ j \in DOMAIN q /\ t[j] = q[j]
    BY <1>3, <2>1 DEF Rising
  <2>2. CASE /\ i \in DOMAIN q /\ t[i] = q[i]
             /\ j - Len(q) \in DOMAIN f /\ t[j] = f[j - Len(q)]
    BY <2>2
  <2>3. CASE /\ i > Len(q) /\ i - Len(q) \in DOMAIN f
             /\ t[i] = f[i - Len(q)]
             /\ j - Len(q) \in DOMAIN f /\ t[j] = f[j - Len(q)]
    <3>1. i - Len(q) < j - Len(q)
      BY <1>1, <1>3
    <3> QED
      BY <2>3, <3>1 DEF Rising
  <2>4. CASE i > Len(q) /\ j \in DOMAIN q
    BY <1>1, <1>3, <2>4
  <2> QED
    BY <1>2, <2>1, <2>2, <2>3, <2>4
<1>4. Rising(t)
  BY <1>3 DEF Rising
<1>5. \A i \in DOMAIN t : \/ \E k \in DOMAIN q : t[i] = q[k]
                        \/ \E k \in DOMAIN f : t[i] = f[k]
  BY <1>2
<1> QED
  BY <1>4, <1>5 DEF t

\* The provider takes a command that is younger than all it has.
LEMMA TakenRises ==
  ASSUME device \in Device, NEW c \in Command, ProviderTakes(c),
         Rising(device.queue),
         \A i \in DOMAIN device.queue : device.queue[i] < c.lo
  PROVE  /\ Rising(device'.queue)
         /\ \A i \in DOMAIN device'.queue :
              \/ \E k \in DOMAIN device.queue :
                   device'.queue[i] = device.queue[k]
              \/ device'.queue[i] \in c.lo..c.hi
<1>1. CASE device' = device
  BY <1>1
<1>2. CASE device' = DeviceSubmit(device, Frames(c))
  <2> DEFINE q == device.queue
             f == Frames(c)
  <2>1. f \in Seq(Nat) /\ Rising(f) /\ \A i \in DOMAIN f : f[i] \in c.lo..c.hi
    BY FramesRise
  <2>2. q \in Seq(Nat) /\ c.lo \in Nat /\ c.hi \in Nat
    BY DEF Device, Command
  <2>3. device'.queue = q \o f
    BY <1>2, <2>1, SubmitFields
  <2>4. \A i \in DOMAIN q : q[i] \in Nat /\ q[i] < c.lo
    BY <2>2
  <2> HIDE DEF q, f
  <2>5. \A i \in DOMAIN q, j \in DOMAIN f : q[i] < f[j]
    BY <2>1, <2>2, <2>4
  <2>6. Rising(q)
    BY DEF q
  <2>7. /\ Rising(q \o f)
        /\ \A i \in DOMAIN (q \o f) :
             \/ \E k \in DOMAIN q : (q \o f)[i] = q[k]
             \/ \E k \in DOMAIN f : (q \o f)[i] = f[k]
    BY <2>1, <2>2, <2>5, <2>6, ConcatRises
  <2>8. \A i \in DOMAIN device'.queue :
          \/ \E k \in DOMAIN q : device'.queue[i] = q[k]
          \/ device'.queue[i] \in c.lo..c.hi
    BY <2>1, <2>3, <2>7
  <2> QED
    BY <2>3, <2>7, <2>8 DEF q
<1> QED
  BY <1>1, <1>2 DEF ProviderTakes

\* Nothing but the staging moves, and not back.
LEMMA PassedOn ==
  ASSUME TypeOK, Chain, Passed' \in Int, Passed <= Passed',
         UNCHANGED <<heard, device, commands, wpc, wcmd>>
  PROVE  Chain'
<1>1. /\ heard \in Nat /\ Passed \in Int /\ wcmd.hi \in Nat
      /\ \A i \in DOMAIN device.queue : device.queue[i] \in Nat
  BY DEF TypeOK, Device, Passed, Unsubmitted, Command
<1>2. \A i \in DOMAIN commands : commands[i].hi \in Nat
  <2>1. \A i \in DOMAIN commands : commands[i] \in Command
    BY DEF TypeOK
  <2> QED
    BY <2>1 DEF Command
<1>3. \A m \in Int : m <= Passed => m <= Passed'
  BY <1>1
<1>4. /\ heard' = heard /\ device' = device /\ commands' = commands
      /\ wpc' = wpc /\ wcmd' = wcmd
  OBVIOUS
<1>5. heard <= Passed'
  BY <1>1, <1>3 DEF Chain
<1>6. \A i \in DOMAIN device.queue : device.queue[i] <= Passed'
  BY <1>1, <1>3 DEF Chain
<1>7. wpc = "submit" => wcmd.hi <= Passed'
  BY <1>1, <1>3 DEF Chain
<1>8. \A i \in DOMAIN commands : IsData(commands[i]) =>
        commands[i].hi <= Passed'
  BY <1>2, <1>3 DEF Chain
<1>9. /\ Rising(device'.queue)
      /\ DeviceAbove(heard)' /\ HeldAbove(heard)' /\ QueueAbove(heard)'
      /\ \A i \in DOMAIN device'.queue :
           HeldAbove(device.queue[i])' /\ QueueAbove(device.queue[i])'
      /\ wpc' = "submit" => QueueAbove(wcmd.hi)'
  BY <1>4 DEF Chain, DeviceAbove, HeldAbove, QueueAbove
<1>10. \A i \in DOMAIN commands' : IsData(commands'[i]) =>
         \A j \in DOMAIN commands' :
           IsData(commands'[j]) /\ i < j => commands'[i].hi < commands'[j].lo
  BY <1>4 DEF Chain
<1> HIDE DEF Passed
<1> QED
  BY <1>4, <1>5, <1>6, <1>7, <1>8, <1>9, <1>10 DEF Chain

-----------------------------------------------------------------------------
(* Every step keeps the order.                                             *)

\* Frames move downstream past no other: each place passes on its oldest.
LEMMA ChainStep ==
  ASSUME IndInv, Life, Chain, ~rebuilt, ~rebuilt', [Next]_vars
  PROVE  Chain'
<1> USE DEF Chain, Passed, Unsubmitted, QueueAbove, HeldAbove, DeviceAbove
<1>0. TypeOK /\ Chunking /\ Loads /\ Protocol
  BY DEF IndInv
<1>1. ASSUME NEW n \in Batches, CallbackEnter(n) PROVE Chain'
  BY <1>1, <1>0 DEF CallbackEnter
<1>2. CASE CallbackLock
  BY <1>2, <1>0 DEF CallbackLock
<1>3. CASE CallbackStage
  <2>1. Passed' = Passed
    BY <1>3, <1>0 DEF CallbackStage, TypeOK
  <2>2. UNCHANGED <<device, heard, commands, wpc, wcmd>>
    BY <1>3 DEF CallbackStage
  <2> HIDE DEF Passed
  <2> QED
    BY <2>1, <2>2
<1>4. CASE CallbackNext
  BY <1>4, <1>0 DEF CallbackNext
<1>5. CASE SubmitNowhere
  BY <1>5, <1>0 DEF SubmitNowhere, Life, Callers, Provided, InCallback, Closed
<1>6. CASE SubmitPush
  <2> DEFINE c == Data(Oldest + offset, Oldest + offset + Part - 1)
             p == produced - (staging - offset)
  <2>1. /\ staging \in Nat /\ produced \in Nat /\ offset \in Nat
        /\ chunk \in Nat
        /\ staging <= produced /\ offset < chunk /\ staging >= chunk
        /\ Part \in Nat \ {0} /\ Part <= chunk - offset /\ p \in Nat
    BY <1>6, <1>0, EngineAssumption
       DEF SubmitPush, TypeOK, Chunking, Part, Life, Callers
  <2>2. Oldest + offset = p + 1 /\ c.lo = p + 1 /\ c.hi = p + Part
    BY <2>1 DEF Oldest, Data
  <2>3. c \in Command /\ IsData(c)
    BY <2>1, <2>2, DataIsCommand DEF Data, IsData
  <2>4. produced' - (staging' - offset') = p + Part
    BY <1>6, <2>1 DEF SubmitPush, Unstaged
  <2>5. UNCHANGED <<device, heard, wpc,
                    wcmd>> /\ commands' = Append(commands, c)
    BY <1>6 DEF SubmitPush
  <2>6. /\ commands \in Seq(Command) /\ heard \in Nat /\ wcmd \in Command
        /\ \A i \in DOMAIN device.queue : device.queue[i] \in Nat
    BY <1>0 DEF TypeOK, Device
  <2>7. \A i \in DOMAIN commands :
          /\ commands[i].lo \in Nat /\ commands[i].hi \in Nat
          /\ i <= Len(commands)
    <3>1. \A i \in DOMAIN commands :
            commands[i] \in Command /\ i <= Len(commands)
      BY <2>6
    <3> QED
      BY <3>1 DEF Command
  <2>8. \A i \in DOMAIN commands' :
          \/ i = Len(commands) + 1 /\ commands'[i] = c
          \/ i \in DOMAIN commands /\ commands'[i] = commands[i]
    BY <2>3, <2>5, <2>6, AppendAt
  <2>9. wcmd.hi \in Nat /\ Len(commands) \in Nat
    BY <2>6 DEF Command
  <2> HIDE DEF c, p
  <2>10. \A m \in Nat : m <= p /\ QueueAbove(m) => QueueAbove(m)'
    BY <2>1, <2>2, <2>3, <2>8
  <2>11. \A i \in DOMAIN commands' : IsData(commands'[i]) =>
           /\ commands'[i].hi <= p + Part
           /\ \A j \in DOMAIN commands' :
                IsData(commands'[j]) /\ i < j =>
                  commands'[i].hi < commands'[j].lo
    <3>1. ASSUME NEW i \in DOMAIN commands', IsData(commands'[i])
          PROVE  commands'[i].hi <= p + Part
      <4>1. CASE commands'[i] = c
        BY <4>1, <2>1, <2>2
      <4>2. CASE i \in DOMAIN commands /\ commands'[i] = commands[i]
        <5>1. commands[i].hi <= p /\ commands[i].hi \in Nat
          BY <4>2, <3>1, <2>7 DEF p
        <5> QED
          BY <4>2, <5>1, <2>1
      <4> QED
        BY <4>1, <4>2, <2>8
    <3>2. ASSUME NEW i \in DOMAIN commands', IsData(commands'[i]),
                 NEW j \in DOMAIN commands', IsData(commands'[j]), i < j
          PROVE  commands'[i].hi < commands'[j].lo
      <4>1. i \in DOMAIN commands /\ commands'[i] = commands[i]
        BY <3>2, <2>7, <2>8, <2>9
      <4>2. CASE commands'[j] = c
        BY <4>1, <4>2, <3>2, <2>1, <2>2, <2>7 DEF p
      <4>3. CASE j \in DOMAIN commands /\ commands'[j] = commands[j]
        BY <4>1, <4>3, <3>2
      <4> QED
        BY <4>2, <4>3, <2>8
    <3> QED
      BY <3>1, <3>2
  <2>12. heard <= p /\ \A i \in DOMAIN device.queue : device.queue[i] <= p
    BY DEF p
  <2>13. wpc = "submit" => wcmd.hi <= p /\ QueueAbove(wcmd.hi)
    BY DEF p
  <2>14. QueueAbove(heard)' /\ heard' <= p + Part
    <3>1. heard <= p /\ QueueAbove(heard)
      BY DEF p
    <3>2. QueueAbove(heard)'
      BY <3>1, <2>5, <2>6, <2>10
    <3> QED
      BY <3>1, <3>2, <2>1, <2>5, <2>6
  <2>15. \A i \in DOMAIN device.queue :
           device.queue[i] <= p + Part /\ QueueAbove(device.queue[i])'
    <3> SUFFICES ASSUME NEW i \in DOMAIN device.queue
                 PROVE  /\ device.queue[i] <= p + Part
                        /\ QueueAbove(device.queue[i])'
      OBVIOUS
    <3>1. device.queue[i] <= p /\ QueueAbove(device.queue[i])
      BY <2>12
    <3>2. QueueAbove(device.queue[i])'
      <4> DEFINE m == device.queue[i]
      <4>1. m \in Nat /\ m' = m
        BY <2>5, <2>6
      <4> HIDE DEF m
      <4> QED
        BY <2>10, <3>1, <4>1 DEF m
    <3> QED
      BY <3>1, <3>2, <2>1, <2>6
  <2>16. wpc = "submit" => wcmd.hi <= p + Part /\ QueueAbove(wcmd.hi)'
    <3> SUFFICES ASSUME wpc = "submit"
                 PROVE  wcmd.hi <= p + Part /\ QueueAbove(wcmd.hi)'
      OBVIOUS
    <3>1. wcmd.hi <= p /\ QueueAbove(wcmd.hi)
      BY <2>13
    <3>2. QueueAbove(wcmd.hi)'
      <4>1. ASSUME NEW m \in Nat, m <= p, QueueAbove(m)
            PROVE  QueueAbove(m)'
        BY <2>10, <4>1
      <4> QED
        BY <3>1, <4>1, <2>5, <2>9
    <3> QED
      BY <3>1, <3>2, <2>1, <2>9
  <2> HIDE DEF QueueAbove
  <2> QED
    BY <2>4, <2>5, <2>11, <2>14, <2>15, <2>16
<1>7. CASE SubmitWait
  BY <1>7, <1>0 DEF SubmitWait
<1>8. CASE SubmitRefused
  <2>1. /\ staging >= chunk /\ staging' = Unstaged(chunk) /\ offset' = 0
        /\ UNCHANGED <<produced, heard, device, commands, wpc, wcmd>>
    BY <1>8 DEF SubmitRefused, Life, Callers
  <2>2. /\ staging \in Nat /\ produced \in Nat /\ offset \in Nat
        /\ chunk \in Nat
        /\ offset < chunk
    BY <1>0 DEF TypeOK, Chunking
  <2>3. Passed' \in Int /\ Passed <= Passed'
    BY <2>1, <2>2 DEF Unstaged
  <2> QED
    BY <1>0, <2>1, <2>3, PassedOn
<1>9. CASE SubmitDirect
  <2> DEFINE c == Data(Oldest, Oldest + chunk - 1)
             p == produced - (staging - offset)
  <2>1. /\ staging \in Nat /\ produced \in Nat /\ offset = 0 /\ chunk \in Nat
        /\ staging <= produced /\ staging >= chunk /\ p \in Nat /\ chunk > 0
        /\ commands = << >> /\ wpc = "none"
    BY <1>9, <1>0 DEF SubmitDirect, TypeOK, Chunking, Loads, Life, Callers
  <2>2. Oldest = p + 1 /\ c.lo = p + 1 /\ c.hi = p + chunk
    BY <2>1 DEF Oldest, Data
  <2>3. c \in Command
    BY <1>0, ChunkIsCommand
  <2>4. produced' - (staging' - offset') = p + chunk
    BY <1>9, <2>1 DEF SubmitDirect, Unstaged
  <2>5. UNCHANGED <<commands, heard, wpc, wcmd>> /\ ProviderTakes(c)
    BY <1>9 DEF SubmitDirect
  <2>6. /\ device \in Device /\ heard \in Nat
        /\ \A i \in DOMAIN device.queue : device.queue[i] \in Nat
    BY <1>0 DEF TypeOK, Device
  <2> HIDE DEF c
  <2>7. \A i \in DOMAIN device.queue : device.queue[i] < c.lo
    BY <2>1, <2>2, <2>6
  <2>8. /\ Rising(device'.queue)
        /\ \A i \in DOMAIN device'.queue :
             \/ \E k \in DOMAIN device.queue :
                  device'.queue[i] = device.queue[k]
             \/ device'.queue[i] \in c.lo..c.hi
    BY <2>3, <2>5, <2>6, <2>7, TakenRises
  <2>9. \A i \in DOMAIN device'.queue :
          device'.queue[i] > heard /\ device'.queue[i] <= p + chunk
    BY <2>1, <2>2, <2>6, <2>8
  <2>10. heard <= p + chunk
    BY <2>1, <2>6
  <2> HIDE DEF p
  <2> QED
    BY <2>1, <2>4, <2>5, <2>8, <2>9, <2>10
<1>10. CASE SubmitStart
  <2>1. /\ device'.queue = device.queue
        /\ UNCHANGED <<produced, staging, offset, heard, commands, wcmd, wpc>>
    BY <1>10, <1>0, StartFields DEF SubmitStart, TypeOK
  <2> QED
    BY <2>1
<1>11. CASE WorkerSleep
  BY <1>11, <1>0 DEF WorkerSleep
<1>12. CASE WorkerPop
  <2> DEFINE s == commands
             t == Tail(s)
  <2>1. /\ s \in Seq(Command) /\ s # << >> /\ heard \in Nat
        /\ \A i \in DOMAIN device.queue : device.queue[i] \in Nat
    BY <1>12, <1>0 DEF WorkerPop, TypeOK, Device
  <2>2. /\ Head(s) = s[1] /\ 1 \in DOMAIN s
        /\ \A i \in DOMAIN t : i + 1 \in DOMAIN s /\ i >= 1 /\ t[i] = s[i + 1]
    BY <2>1, TailAt
  <2>3. /\ commands' = t /\ wcmd' = s[1]
        /\ wpc' = IF IsData(s[1]) THEN "submit" ELSE "execute"
        /\ UNCHANGED <<produced, staging, offset, heard, device>>
    BY <1>12, <2>2 DEF WorkerPop
  <2>4. \A i \in DOMAIN t : i \in Nat
    BY <2>1, <2>2
  <2>5. \A i, j \in DOMAIN t : i < j => i + 1 < j + 1
    BY <2>4
  <2>6. \A i \in DOMAIN t : 1 < i + 1
    BY <2>2, <2>4
  <2>14. \A i \in DOMAIN device.queue :
           /\ QueueAbove(device.queue[i]) /\ HeldAbove(device.queue[i])
           /\ device.queue[i] <= Passed
    OBVIOUS
  <2>15. /\ Rising(device.queue) /\ heard <= Passed /\ DeviceAbove(heard)
         /\ QueueAbove(heard)
    OBVIOUS
  <2> HIDE DEF s, t
  <2>7. \A m : QueueAbove(m) => QueueAbove(m)'
    BY <2>2, <2>3 DEF s
  <2>8. wpc' = "submit" => IsData(s[1])
    BY <2>3
  <2>9. wpc' = "submit" => QueueAbove(wcmd.hi)'
    <3>1. ASSUME wpc' = "submit", NEW i \in DOMAIN t, IsData(t[i])
          PROVE  t[i].lo > s[1].hi
      <4>1. /\ IsData(s[1]) /\ IsData(s[i + 1]) /\ 1 \in DOMAIN s
            /\ i + 1 \in DOMAIN s /\ 1 < i + 1
        BY <2>2, <2>6, <2>8, <3>1
      <4>2. s[1].hi < s[i + 1].lo
        BY <4>1 DEF s
      <4>3. s[1] \in Command /\ s[i + 1] \in Command
        BY <2>1, <4>1
      <4>4. s[1].hi \in Nat /\ s[i + 1].lo \in Nat
        BY <4>3 DEF Command
      <4> QED
        BY <2>2, <4>2, <4>4
    <3>2. commands' = t /\ wcmd' = s[1]
      BY <2>3
    <3> QED
      BY <3>1, <3>2 DEF QueueAbove
  <2>10. \A i \in DOMAIN t : IsData(t[i]) =>
          /\ t[i].hi <= Passed
          /\ \A j \in DOMAIN t : IsData(t[j]) /\ i < j => t[i].hi < t[j].lo
    BY <2>2, <2>5 DEF s
  <2>11. \A m : QueueAbove(m) /\ wpc' = "submit" => wcmd'.lo > m
    BY <2>2, <2>3, <2>8 DEF s
  <2>12. wpc' = "submit" => wcmd'.hi <= Passed
    BY <2>2, <2>3, <2>8 DEF s
  <2>13. UNCHANGED Passed
    BY <2>3
  <2> HIDE DEF QueueAbove, Passed
  <2> QED
    <3>1. /\ Rising(device.queue)' /\ (heard <= Passed)' /\ DeviceAbove(heard)'
          /\ HeldAbove(heard)' /\ QueueAbove(heard)'
      BY <2>3, <2>7, <2>11, <2>13, <2>15 DEF HeldAbove, DeviceAbove
    <3>2. \A i \in DOMAIN device'.queue :
            /\ device'.queue[i] <= Passed'
            /\ HeldAbove(device.queue[i])' /\ QueueAbove(device.queue[i])'
      BY <2>3, <2>7, <2>11, <2>13, <2>14 DEF HeldAbove
    <3>3. wpc' = "submit" => wcmd'.hi <= Passed' /\ QueueAbove(wcmd.hi)'
      BY <2>9, <2>12, <2>13
    <3>4. \A i \in DOMAIN commands' : IsData(commands'[i]) =>
            /\ commands'[i].hi <= Passed'
            /\ \A j \in DOMAIN commands' :
                 IsData(commands'[j]) /\ i < j =>
                   commands'[i].hi < commands'[j].lo
      BY <2>3, <2>10, <2>13
    <3> QED
      BY <2>3, <3>1, <3>2, <3>3, <3>4
<1>13. CASE WorkerSubmit
  <2>1. /\ wpc = "submit" /\ wpc' = "submitted" /\ ProviderTakes(wcmd)
        /\ UNCHANGED <<produced, staging, offset, heard, commands, wcmd>>
    BY <1>13 DEF WorkerSubmit
  <2>2. /\ device \in Device /\ wcmd \in Command /\ heard \in Nat
        /\ produced - (staging - offset) \in Int
        /\ \A i \in DOMAIN device.queue : device.queue[i] \in Nat
    BY <1>0 DEF TypeOK, Device
  <2>3. wcmd.lo \in Nat /\ wcmd.hi \in Nat
    BY <2>2 DEF Command
  <2>4. \A i \in DOMAIN device.queue : device.queue[i] < wcmd.lo
    BY <2>1, <2>2, <2>3
  <2>5. /\ Rising(device'.queue)
        /\ \A i \in DOMAIN device'.queue :
             \/ \E k \in DOMAIN device.queue :
                  device'.queue[i] = device.queue[k]
             \/ device'.queue[i] \in wcmd.lo..wcmd.hi
    BY <2>1, <2>2, <2>4, TakenRises
  <2>6. \A i \in DOMAIN commands : commands[i].lo \in Nat
    <3>1. \A i \in DOMAIN commands : commands[i] \in Command
      BY <1>0 DEF TypeOK
    <3> QED
      BY <3>1 DEF Command
  <2>7. \A m \in wcmd.lo..wcmd.hi :
          m > heard /\ m <= produced - (staging - offset) /\ QueueAbove(m)
    BY <2>1, <2>2, <2>3, <2>6
  <2>8. \A i \in DOMAIN device'.queue :
          LET m == device'.queue[i]
          IN  m > heard /\ m <= produced - (staging - offset) /\ QueueAbove(m)
    BY <2>5, <2>7
  <2> QED
    BY <2>1, <2>5, <2>8
<1>14. CASE WorkerSettle
  <2>1. /\ wpc = "submitted" /\ wpc' = "wait"
        /\ device'.queue = device.queue
        /\ UNCHANGED <<produced, staging, offset, heard, commands, wcmd>>
    BY <1>14, <1>0, StartFields DEF WorkerSettle, TypeOK
  <2> QED
    BY <2>1
<1>15. CASE WorkerExecute
  <2>1. wcmd.type \in ControlTypes
    BY <1>15, <1>0 DEF WorkerExecute, Protocol, Executing, IsControl, TypeOK,
       Command
  <2>2. device'.queue = device.queue \/ device'.queue = << >>
    BY <1>15, <1>0, <2>1, ExecutedQueue DEF WorkerExecute, TypeOK
  <2>3. /\ wpc = "execute" /\ wpc' \in {"publish", "ack"}
        /\ UNCHANGED <<produced, staging, offset, heard, commands, wcmd>>
    BY <1>15 DEF WorkerExecute
  <2> QED
    BY <2>2, <2>3 DEF Rising
<1>16. CASE WorkerPublish
  BY <1>16, <1>0 DEF WorkerPublish
<1>17. CASE WorkerAck
  BY <1>17, <1>0 DEF WorkerAck
<1>18. ASSUME NEW op \in ControlNames, Begin(op) PROVE Chain'
  BY <1>18, <1>0 DEF Begin
<1>19. CASE BeginShutdown
  BY <1>19, <1>0 DEF BeginShutdown
<1>20. CASE FlushStaging
  <2>1. /\ staging' = 0
        /\ UNCHANGED <<produced, offset, heard, device, commands, wpc, wcmd>>
    BY <1>20 DEF FlushStaging, ClearStaging
  <2>2. staging \in Nat /\ produced \in Nat /\ offset \in Nat
    BY <1>0 DEF TypeOK
  <2>3. Passed' \in Int /\ Passed <= Passed'
    BY <2>1, <2>2
  <2> QED
    BY <1>0, <2>1, <2>3, PassedOn
<1>21. CASE FlushErase
  <2>1. /\ commands' = Remaining(commands)
        /\ UNCHANGED <<produced, staging, offset, heard, device, wcmd, wpc>>
    BY <1>21 DEF FlushErase
  <2>2. commands' = << >>
    BY <1>21, <1>0, <2>1, NothingRemains DEF FlushErase, Protocol, Awaited,
       TypeOK
  <2> QED
    BY <2>1, <2>2
<1>22. CASE SendControl
  <2> DEFINE c == Control(msend, nextId)
             s == commands
  <2>1. /\ s \in Seq(Command) /\ c \in Command /\ ~IsData(c)
        /\ \A i \in DOMAIN s : i \in Nat
    <3>1. s \in Seq(Command) /\ msend \in ControlTypes /\ nextId \in Nat
      BY <1>0 DEF TypeOK
    <3>2. c \in Command /\ ~IsData(c)
      BY <3>1, ControlIsCommand
    <3> QED
      BY <3>1, <3>2
  <2>2. /\ commands' = <<c>> \o s \/ commands' = Append(s, c)
        /\ UNCHANGED <<produced, staging, offset, heard, device, wcmd, wpc>>
    BY <1>22 DEF SendControl
  <2> HIDE DEF c
  <2>3. \A i \in DOMAIN commands' : IsData(commands'[i]) =>
          \E k \in DOMAIN s :
            /\ commands'[i] = s[k]
                           
            /\ k = IF commands' = Append(s, c) THEN i ELSE i - 1
    <3>1. CASE commands' = Append(s, c)
      BY <2>1, <3>1, AppendAt
    <3>2. CASE commands' # Append(s, c)
      BY <2>1, <2>2, <3>2, ConsAt
    <3> QED
      BY <3>1, <3>2
  <2>4. \A i \in DOMAIN commands' : i \in Int
    <3>1. <<c>> \o s \in Seq(Command) /\ Append(s, c) \in Seq(Command)
      BY <2>1
    <3>2. commands' \in Seq(Command)
      BY <2>2, <3>1
    <3> QED
      BY <3>2
  <2> HIDE DEF s
  <2>5. \A m : QueueAbove(m) => QueueAbove(m)'
    BY <2>3 DEF s
  <2>6. ASSUME NEW i \in DOMAIN commands', NEW j \in DOMAIN commands', i < j,
               IsData(commands'[i]), IsData(commands'[j])
        PROVE  commands'[i].hi < commands'[j].lo
    <3>1. PICK k, l \in DOMAIN s :
            commands'[i] = s[k] /\ commands'[j] = s[l] /\ k < l
      BY <2>3, <2>4, <2>6
    <3> QED
      BY <3>1, <2>6 DEF s
  <2>7. \A i \in DOMAIN commands' : IsData(commands'[i]) =>
          commands'[i].hi <= Passed
    BY <2>3 DEF s
  <2>8. UNCHANGED Passed
    BY <2>2
  <2> HIDE DEF QueueAbove, Passed
  <2> QED
    BY <2>2, <2>5, <2>6, <2>7, <2>8
<1>23. CASE AwaitSleep
  BY <1>23, <1>0 DEF AwaitSleep
<1>24. CASE AwaitDone
  BY <1>24, <1>0 DEF AwaitDone
<1>25. CASE DirectControl
  <2>1. device'.queue = device.queue \/ device'.queue = << >>
    BY <1>25, <1>0, ExecutedQueue DEF DirectControl, TypeOK
  <2>2. UNCHANGED <<produced, staging, offset, heard, commands, wcmd, wpc>>
    BY <1>25 DEF DirectControl
  <2> QED
    BY <2>1, <2>2 DEF Rising
<1>26. CASE Retarget
  BY <1>26, <1>0 DEF Retarget
<1>27. CASE CloseStaging
  <2>1. /\ staging' = 0
        /\ UNCHANGED <<produced, offset, heard, device, commands, wpc, wcmd>>
    BY <1>27 DEF CloseStaging, ClearStaging
  <2>2. staging \in Nat /\ produced \in Nat /\ offset \in Nat
    BY <1>0 DEF TypeOK
  <2>3. Passed' \in Int /\ Passed <= Passed'
    BY <2>1, <2>2
  <2> QED
    BY <1>0, <2>1, <2>3, PassedOn
<1>28. CASE CloseCancel
  BY <1>28, <1>0 DEF CloseCancel, DeviceCancel, TypeOK, Device
<1>29. CASE CloseStop
  BY <1>29, <1>0 DEF CloseStop
<1>30. CASE CloseDestroy
  BY <1>30, <1>0 DEF CloseDestroy, NoDevice, Rising, Life, Provided, TypeOK,
     Loads
<1>31. CASE CloseRelease
  BY <1>31, <1>0 DEF CloseRelease, Life, Callers, Closed, TypeOK
<1>32. CASE CreateBackend
  BY <1>32, <1>0 DEF CreateBackend, DeviceCreate, NoDevice, Rising, TypeOK,
     Life, Provided
<1>33. CASE ResetEngine
  BY <1>33, <1>0 DEF ResetEngine, Life, Callers, Closed, TypeOK
<1>34. CASE Play
  <2> DEFINE q == device.queue
             t == Tail(q)
  <2>1. /\ q \in Seq(Nat) /\ q # << >> /\ device'.queue = t /\ heard' = Head(q)
        /\ UNCHANGED <<produced, staging, offset, commands, wcmd, wpc>>
    BY <1>34, <1>0 DEF Play, CanPlay, DevicePlay, TypeOK, Device
  <2>2. /\ Head(q) = q[1] /\ 1 \in DOMAIN q
        /\ \A i \in DOMAIN t : i + 1 \in DOMAIN q /\ i >= 1 /\ t[i] = q[i + 1]
    BY <2>1, TailAt
  <2>3. \A i \in DOMAIN t : i \in Nat /\ 1 < i + 1
    BY <2>1, <2>2
  <2>4. \A i, j \in DOMAIN t : i < j => i + 1 < j + 1
    BY <2>3
  <2> HIDE DEF q, t
  <2>5. Rising(t) /\ \A i \in DOMAIN t : t[i] > q[1]
    BY <2>2, <2>3, <2>4 DEF Rising, q
  <2>6. \A i \in DOMAIN t : \E k \in DOMAIN q : t[i] = q[k]
    BY <2>2
  <2> QED
    BY <2>1, <2>2, <2>5, <2>6 DEF q
<1>35. CASE Halted
  BY <1>35, <1>0 DEF Halted, vars
<1>36. CASE UNCHANGED vars
  BY <1>36, <1>0 DEF vars
<1> QED
  BY <1>1, <1>2, <1>3, <1>4, <1>5, <1>6, <1>7, <1>8, <1>9, <1>10, <1>11,
     <1>12, <1>13, <1>14, <1>15, <1>16, <1>17, <1>18, <1>19, <1>20, <1>21,
     <1>22, <1>23, <1>24, <1>25, <1>26, <1>27, <1>28, <1>29, <1>30, <1>31,
     <1>32, <1>33, <1>34, <1>35, <1>36 DEF Next, Producer, Submit, Worker,
     Main

-----------------------------------------------------------------------------
(* Every step keeps the count of the deque.                                *)

\* The frames of the Data commands of s.
FramesOf(s) ==
  UNION {s[i].lo..s[i].hi : i \in {k \in DOMAIN s : IsData(s[k])}}

\* A frame is in the deque when some Data command holds it.
LEMMA FramesAt ==
  ASSUME NEW s, NEW f
  PROVE  f \in FramesOf(s) <=>
           \E i \in DOMAIN s : IsData(s[i]) /\ f \in s[i].lo..s[i].hi
BY DEF FramesOf

\* A command at the back brings its frames ...
LEMMA AppendFrames ==
  ASSUME NEW s \in Seq(Command), NEW c \in Command
  PROVE  FramesOf(Append(s, c)) =
           FramesOf(s) \cup (IF IsData(c) THEN c.lo..c.hi ELSE {})
<1> DEFINE t == Append(s, c)
<1>1. /\ Len(s) + 1 \in DOMAIN t /\ t[Len(s) + 1] = c
      /\ \A i \in DOMAIN s : i \in DOMAIN t /\ t[i] = s[i]
  OBVIOUS
<1>2. \A i \in DOMAIN t :
        \/ i = Len(s) + 1 /\ t[i] = c
        \/ i \in DOMAIN s /\ t[i] = s[i]
  BY AppendAt
<1> HIDE DEF t
<1>3. ASSUME NEW f
      PROVE  f \in FramesOf(t) <=>
               f \in FramesOf(s) \cup (IF IsData(c) THEN c.lo..c.hi ELSE {})
  BY <1>1, <1>2, FramesAt
<1> QED
  BY <1>3 DEF t

\* ... a control command brings none, at the front either ...
LEMMA ControlFrames ==
  ASSUME NEW s \in Seq(Command), NEW c \in Command, ~IsData(c)
  PROVE  FramesOf(<<c>> \o s) = FramesOf(s)
<1> DEFINE t == <<c>> \o s
<1>1. /\ 1 \in DOMAIN t /\ t[1] = c
      /\ \A i \in DOMAIN s : i + 1 \in DOMAIN t /\ t[i + 1] = s[i]
      /\ \A i \in DOMAIN t :
           (i = 1 /\ t[i] = c) \/ (i - 1 \in DOMAIN s /\ t[i] = s[i - 1])
  OBVIOUS
<1> HIDE DEF t
<1>2. ASSUME NEW f PROVE f \in FramesOf(t) <=> f \in FramesOf(s)
  BY <1>1, FramesAt
<1> QED
  BY <1>2 DEF t

\* ... and the command that leaves takes its frames along.
LEMMA TailFrames ==
  ASSUME NEW s \in Seq(Command), s # << >>
  PROVE  FramesOf(s) = FramesOf(Tail(s)) \cup
           (IF IsData(s[1]) THEN s[1].lo..s[1].hi ELSE {})
<1> DEFINE t == Tail(s)
<1>1. /\ 1 \in DOMAIN s
      /\ \A i \in DOMAIN t :
           i + 1 \in DOMAIN s /\ i >= 1 /\ t[i] = s[i + 1]
  BY TailAt
<1>2. \A i \in DOMAIN s : i = 1 \/ (i - 1 \in DOMAIN t /\ t[i - 1] = s[i])
  OBVIOUS
<1> HIDE DEF t
<1>3. ASSUME NEW f
      PROVE  f \in FramesOf(s) <=>
               f \in FramesOf(t) \cup
                       (IF IsData(s[1]) THEN s[1].lo..s[1].hi ELSE {})
  BY <1>1, <1>2, FramesAt
<1> QED
  BY <1>3 DEF t

\* An empty deque holds none.
LEMMA NoFrames == FramesOf(<< >>) = {}
BY DEF FramesOf

\* An interval beside the set A.
LEMMA WithInterval ==
  ASSUME NEW A, NEW lo \in Nat, NEW hi \in Nat, lo <= hi,
         \A f \in A : f \notin lo..hi
  PROVE  LET B == A \cup (lo..hi)
         IN  /\ IsFiniteSet(A) => IsFiniteSet(B)
             /\ IsFiniteSet(B) => IsFiniteSet(A)
             /\ IsFiniteSet(A) =>
                  Cardinality(B) = Cardinality(A) + (hi - lo + 1)
<1> DEFINE I == lo..hi
<1>1. IsFiniteSet(I) /\ Cardinality(I) = hi - lo + 1
  BY FS_Interval
<1>2. A \cap I = {}
  OBVIOUS
<1> HIDE DEF I
<1>3. ASSUME IsFiniteSet(A \cup I) PROVE IsFiniteSet(A)
  BY <1>3, FS_Subset
<1>4. ASSUME IsFiniteSet(A)
      PROVE  /\ IsFiniteSet(A \cup I)
             /\ Cardinality(A \cup I) = Cardinality(A) + Cardinality(I)
  <2>1. /\ IsFiniteSet(A \cup I)
        /\ Cardinality(A \cup I) =
             Cardinality(A) + Cardinality(I) - Cardinality(A \cap I)
    BY <1>1, <1>4, FS_Union
  <2>2. Cardinality(A \cap I) = 0
    BY <1>2, FS_EmptySet
  <2>3. Cardinality(A) \in Nat /\ Cardinality(I) \in Nat
    BY <1>1, <1>4, FS_CardinalityType
  <2> QED
    BY <2>1, <2>2, <2>3
<1> QED
  BY <1>1, <1>3, <1>4 DEF I

\* queued_frames is what the deque holds.
QueueCount == IsFiniteSet(QueuedFrames) /\ queued = Cardinality(QueuedFrames)

\* queued_frames follows the deque: the intervals of the Data commands are
\* disjoint, so that pushing and popping one moves the count by its size.
LEMMA QueueCountStep ==
  ASSUME IndInv, Life, Chain, QueueCount, ~rebuilt, ~rebuilt', [Next]_vars
  PROVE  QueueCount'
<1>0. TypeOK /\ Chunking /\ Loads /\ Protocol
  BY DEF IndInv
<1>1. QueuedFrames = FramesOf(commands) /\ QueuedFrames' = FramesOf(commands')
  BY DEF QueuedFrames, DataCommands, FramesOf
<1>2. commands \in Seq(Command) /\ queued \in Nat
  BY <1>0 DEF TypeOK
<1>3. \A i \in DOMAIN commands :
        /\ commands[i] \in Command
        /\ commands[i].lo \in Nat /\ commands[i].hi \in Nat
  <2>1. \A i \in DOMAIN commands : commands[i] \in Command
    BY <1>2
  <2> QED
    BY <2>1 DEF Command
<1>4. ASSUME commands' = << >>, queued' = 0 PROVE QueueCount'
  BY <1>1, <1>4, NoFrames, FS_EmptySet DEF QueueCount
<1>5. CASE SubmitPush
  <2> DEFINE p == produced - (staging - offset)
             c == Data(Oldest + offset, Oldest + offset + Part - 1)
  <2>1. /\ staging \in Nat /\ produced \in Nat /\ offset \in Nat
        /\ chunk \in Nat /\ staging <= produced /\ offset < chunk
        /\ Part \in Nat \ {0} /\ p \in Nat
    BY <1>5, <1>0, EngineAssumption DEF SubmitPush, TypeOK, Chunking, Part
  <2>2. c.lo = p + 1 /\ c.hi = p + Part
    BY <2>1 DEF Oldest, Data
  <2>3. c \in Command /\ IsData(c)
    BY <2>1, <2>2, DataIsCommand DEF Data, IsData
  <2>4. commands' = Append(commands, c) /\ queued' = queued + Part
    BY <1>5 DEF SubmitPush
  <2>5. \A i \in DOMAIN commands : IsData(commands[i]) => commands[i].hi <= p
    BY DEF Chain, Passed, Unsubmitted
  <2> HIDE DEF p, c
  <2>6. FramesOf(commands') = FramesOf(commands) \cup (c.lo..c.hi)
    BY <1>2, <2>3, <2>4, AppendFrames
  <2>7. \A f \in FramesOf(commands) : f \notin c.lo..c.hi
    <3>1. ASSUME NEW f \in FramesOf(commands) PROVE f \notin c.lo..c.hi
      <4>1. PICK i \in DOMAIN commands :
              IsData(commands[i]) /\ f \in commands[i].lo..commands[i].hi
        BY FramesAt
      <4> QED
        BY <1>3, <2>1, <2>2, <2>5, <4>1
    <3> QED
      BY <3>1
  <2>8. c.lo \in Nat /\ c.hi \in Nat /\ c.lo <= c.hi /\ c.hi - c.lo + 1 = Part
    BY <2>1, <2>2
  <2>9. /\ IsFiniteSet(FramesOf(commands))
        /\ queued = Cardinality(FramesOf(commands))
    BY <1>1 DEF QueueCount
  <2>10. /\ IsFiniteSet(FramesOf(commands) \cup (c.lo..c.hi))
         /\ Cardinality(FramesOf(commands) \cup (c.lo..c.hi)) =
              Cardinality(FramesOf(commands)) + (c.hi - c.lo + 1)
    BY <2>7, <2>8, <2>9, WithInterval
  <2> QED
    BY <1>1, <2>4, <2>6, <2>8, <2>9, <2>10 DEF QueueCount
<1>6. CASE WorkerPop
  <2> DEFINE c == commands[1]
             t == Tail(commands)
  <2>1. commands # << >>
    BY <1>6 DEF WorkerPop
  <2>2. /\ Head(commands) = c /\ 1 \in DOMAIN commands
        /\ \A i \in DOMAIN t :
             i + 1 \in DOMAIN commands /\ i >= 1 /\ t[i] = commands[i + 1]
    BY <1>2, <2>1, TailAt
  <2>3. /\ commands' = t
        /\ queued' = IF IsData(c) THEN queued - Size(c) ELSE queued
    BY <1>6, <2>2 DEF WorkerPop
  <2>4. FramesOf(commands) =
          FramesOf(t) \cup (IF IsData(c) THEN c.lo..c.hi ELSE {})
    BY <1>2, <2>1, TailFrames
  <2>5. t \in Seq(Command)
    BY <1>2, <2>1
  <2>6. \A i \in DOMAIN t : i \in Nat
    BY <2>5
  <2>7. /\ IsFiniteSet(FramesOf(commands))
        /\ queued = Cardinality(FramesOf(commands))
    BY <1>1 DEF QueueCount
  <2>8. CASE IsData(c)
    <3>1. c.lo \in Nat /\ c.hi \in Nat /\ c.lo <= c.hi
      BY <1>0, <1>3, <2>2, <2>8 DEF Loads, GoodData, Size
    <3>2. ASSUME NEW f \in FramesOf(t) PROVE f \notin c.lo..c.hi
      <4>1. PICK i \in DOMAIN t : IsData(t[i]) /\ f \in t[i].lo..t[i].hi
        BY FramesAt
      <4>2. /\ i + 1 \in DOMAIN commands /\ 1 < i + 1 /\ 1 \in DOMAIN commands
            /\ IsData(commands[i + 1]) /\ t[i] = commands[i + 1]
        BY <2>2, <2>6, <4>1
      <4>3. c.hi < t[i].lo
        BY <2>8, <4>2 DEF Chain
      <4>4. t[i].lo \in Nat /\ t[i].hi \in Nat
        BY <1>3, <4>2
      <4> QED
        BY <3>1, <4>1, <4>3, <4>4
    <3> HIDE DEF c, t
    <3>3. \A f \in FramesOf(t) : f \notin c.lo..c.hi
      BY <3>2
    <3>4. FramesOf(commands) = FramesOf(t) \cup (c.lo..c.hi)
      BY <2>4, <2>8
    <3>5. /\ IsFiniteSet(FramesOf(t))
          /\ Cardinality(FramesOf(commands)) =
               Cardinality(FramesOf(t)) + (c.hi - c.lo + 1)
      <4>1. IsFiniteSet(FramesOf(t) \cup (c.lo..c.hi))
        BY <2>7, <3>4
      <4>2. IsFiniteSet(FramesOf(t))
        BY <3>1, <3>3, <4>1, WithInterval
      <4>3. Cardinality(FramesOf(t) \cup (c.lo..c.hi)) =
              Cardinality(FramesOf(t)) + (c.hi - c.lo + 1)
        BY <3>1, <3>3, <4>2, WithInterval
      <4> QED
        BY <3>4, <4>2, <4>3
    <3>6. Cardinality(FramesOf(t)) \in Nat
      BY <3>5, FS_CardinalityType
    <3>7. queued' = queued - (c.hi - c.lo + 1)
      BY <2>3, <2>8 DEF Size
    <3>8. queued' = Cardinality(FramesOf(t))
      BY <2>7, <3>1, <3>5, <3>6, <3>7
    <3> QED
      BY <1>1, <2>3, <3>5, <3>8 DEF QueueCount
  <2>9. CASE ~IsData(c)
    <3>1. FramesOf(commands) = FramesOf(t)
      BY <2>4, <2>9
    <3> QED
      BY <1>1, <2>3, <2>7, <2>9, <3>1 DEF QueueCount
  <2> QED
    BY <2>8, <2>9
<1>7. CASE FlushErase
  <2>1. commands' = << >> /\ queued' = 0
    BY <1>7, <1>0, NothingRemains DEF FlushErase, Protocol, Awaited, TypeOK
  <2> QED
    BY <1>4, <2>1
<1>8. CASE SendControl
  <2> DEFINE c == Control(msend, nextId)
  <2>1. c \in Command /\ ~IsData(c)
    <3>1. msend \in ControlTypes /\ nextId \in Nat
      BY <1>0 DEF TypeOK
    <3> QED
      BY <3>1, ControlIsCommand
  <2>2. /\ commands' = <<c>> \o commands \/ commands' = Append(commands, c)
        /\ queued' = queued
    BY <1>8 DEF SendControl
  <2> HIDE DEF c
  <2>3. FramesOf(commands') = FramesOf(commands)
    BY <1>2, <2>1, <2>2, ControlFrames, AppendFrames
  <2> QED
    BY <1>1, <2>2, <2>3 DEF QueueCount
<1>9. CASE CloseStop \/ ResetEngine
  BY <1>4, <1>9 DEF CloseStop, ResetEngine
<1>10. ASSUME commands' = commands, queued' = queued PROVE QueueCount'
  BY <1>1, <1>10 DEF QueueCount
<1>11. ASSUME NEW n \in Batches, CallbackEnter(n) PROVE QueueCount'
  BY <1>10, <1>11 DEF CallbackEnter
<1>12. CASE CallbackLock \/ CallbackStage \/ CallbackNext
  BY <1>10, <1>12 DEF CallbackLock, CallbackStage, CallbackNext
<1>13. CASE SubmitNowhere \/ SubmitWait \/ SubmitRefused
  BY <1>10, <1>13 DEF SubmitNowhere, SubmitWait, SubmitRefused
<1>14. CASE SubmitDirect \/ SubmitStart
  BY <1>10, <1>14 DEF SubmitDirect, SubmitStart
<1>15. CASE WorkerSleep \/ WorkerSubmit \/ WorkerSettle \/ WorkerExecute
  BY <1>10, <1>15 DEF WorkerSleep, WorkerSubmit, WorkerSettle, WorkerExecute
<1>16. CASE WorkerPublish \/ WorkerAck
  BY <1>10, <1>16 DEF WorkerPublish, WorkerAck
<1>17. ASSUME NEW op \in ControlNames, Begin(op) PROVE QueueCount'
  BY <1>10, <1>17 DEF Begin
<1>18. CASE BeginShutdown \/ FlushStaging \/ AwaitSleep \/ AwaitDone
  BY <1>10, <1>18
     DEF BeginShutdown, FlushStaging, ClearStaging, AwaitSleep, AwaitDone
<1>19. CASE DirectControl \/ Retarget \/ CloseStaging \/ CloseCancel
  BY <1>10, <1>19
     DEF DirectControl, Retarget, CloseStaging, ClearStaging, CloseCancel
<1>20. CASE CloseDestroy \/ CloseRelease \/ CreateBackend
  BY <1>10, <1>20 DEF CloseDestroy, CloseRelease, CreateBackend
<1>21. CASE Play \/ Halted \/ UNCHANGED vars
  BY <1>10, <1>21 DEF Play, Halted, vars
<1> QED
  BY <1>5, <1>6, <1>7, <1>8, <1>9, <1>11, <1>12, <1>13, <1>14, <1>15, <1>16,
     <1>17, <1>18, <1>19, <1>20, <1>21
     DEF Next, Producer, Submit, Worker, Main

-----------------------------------------------------------------------------
(* Every step keeps the sum of the counters.                               *)

\* Every frame is in exactly one counter.
Sum ==
  produced = settled + dropped + flushed + queued + Unsubmitted + InHands

\* What leaves one counter enters another.
LEMMA SumStep ==
  ASSUME IndInv, Life, Sum, ~rebuilt, ~rebuilt', [Next]_vars
  PROVE  Sum'
<1>0. TypeOK /\ Chunking /\ Loads /\ Protocol
  BY DEF IndInv
<1>1. /\ staging \in Nat /\ produced \in Nat /\ offset \in Nat
      /\ chunk \in Nat \ {0} /\ pn \in Nat /\ offset < chunk
      /\ settled \in Nat /\ dropped \in Nat /\ flushed \in Nat
      /\ queued \in Nat
  BY <1>0 DEF TypeOK, Chunking
<1>2. wcmd \in Command /\ InHands \in Int
  <2>1. wcmd \in Command
    BY <1>0 DEF TypeOK
  <2> QED
    BY <2>1 DEF Command, InHands, Size
<1>3. Sum <=> produced = settled + dropped + flushed + queued
                         + (staging - offset) + InHands
  BY DEF Sum, Unsubmitted
<1>4. Sum' <=> produced' = settled' + dropped' + flushed' + queued'
                           + (staging' - offset') + InHands'
  BY DEF Sum, Unsubmitted
<1>5. ASSUME UNCHANGED <<wpc, wcmd>> PROVE InHands' = InHands
  BY <1>5 DEF InHands
<1>6. ASSUME wpc # "submit", wpc' # "submit" PROVE InHands = 0 /\ InHands' = 0
  BY <1>6 DEF InHands
<1>7. ASSUME UNCHANGED <<produced, settled, dropped, flushed, queued, staging,
                         offset>>,
             InHands' = InHands
      PROVE  Sum'
  BY <1>3, <1>4, <1>7
<1>8. ASSUME NEW c \in Command, ProviderTakes(c)
      PROVE  settled' + dropped' = settled + dropped + Size(c)
  <2>1. Size(c) \in Int
    BY DEF Command, Size
  <2> QED
    BY <1>1, <1>8, <2>1 DEF ProviderTakes
<1>9. CASE CallbackStage
  BY <1>1, <1>2, <1>3, <1>4, <1>5, <1>9 DEF CallbackStage
<1>10. CASE SubmitNowhere
  BY <1>0, <1>10
     DEF SubmitNowhere, Life, Callers, Provided, InCallback, Closed
<1>11. CASE SubmitPush
  <2>1. staging >= chunk /\ Part \in Nat
    BY <1>0, <1>1, <1>11, EngineAssumption DEF SubmitPush, Life, Callers, Part
  <2>2. /\ queued' = queued + Part /\ InHands' = InHands
        /\ \/ /\ staging' = Unstaged(chunk) /\ offset' = 0
              /\ offset + Part = chunk
           \/ staging' = staging /\ offset' = offset + Part
        /\ UNCHANGED <<produced, settled, dropped, flushed>>
    BY <1>5, <1>11 DEF SubmitPush
  <2> QED
    BY <1>1, <1>2, <1>3, <1>4, <2>1, <2>2 DEF Unstaged
<1>12. CASE SubmitRefused
  <2>1. /\ staging >= chunk /\ staging' = Unstaged(chunk) /\ offset' = 0
        /\ dropped' = dropped + (chunk - offset) /\ InHands' = InHands
        /\ UNCHANGED <<produced, settled, flushed, queued>>
    BY <1>5, <1>12 DEF SubmitRefused, Life, Callers
  <2> QED
    BY <1>1, <1>2, <1>3, <1>4, <2>1 DEF Unstaged
<1>13. CASE SubmitDirect
  <2> DEFINE c == Data(Oldest, Oldest + chunk - 1)
  <2>1. /\ staging >= chunk /\ staging' = Unstaged(chunk)
        /\ InHands' = InHands /\ ProviderTakes(c)
        /\ UNCHANGED <<produced, offset, flushed, queued>>
    BY <1>5, <1>13 DEF SubmitDirect, Life, Callers
  <2>2. c \in Command /\ Size(c) = chunk
    <3>1. c \in Command /\ c.lo = Oldest /\ c.hi = Oldest + chunk - 1
      BY <1>0, ChunkIsCommand DEF Data
    <3> HIDE DEF c
    <3>2. Oldest \in Int
      BY <1>1 DEF Oldest
    <3> QED
      BY <1>1, <3>1, <3>2 DEF Size
  <2>3. settled' + dropped' = settled + dropped + chunk
    BY <1>8, <2>1, <2>2
  <2>4. settled' \in Int /\ dropped' \in Int
    BY <1>1, <2>1, <2>2 DEF ProviderTakes
  <2>5. /\ staging' = staging - chunk /\ InHands' = InHands
        /\ UNCHANGED <<produced, offset, flushed, queued>>
    BY <1>1, <2>1 DEF Unstaged
  <2> HIDE DEF c
  <2>6. produced = settled + dropped + flushed + queued
                   + (staging - offset) + InHands
    BY <1>3
  <2>7. staging' - offset' = (staging - offset) - chunk
    BY <1>1, <2>5
  <2>8. \A x, y \in Int : x + y = settled + dropped + chunk =>
          produced = x + y + flushed + queued
                     + ((staging - offset) - chunk) + InHands
    BY <1>1, <1>2, <2>6
  <2>9. produced = settled' + dropped' + flushed + queued
                   + ((staging - offset) - chunk) + InHands
    BY <2>3, <2>4, <2>8, Zenon
  <2> QED
    BY <1>4, <2>5, <2>7, <2>9
<1>14. CASE WorkerPop
  <2> DEFINE c == commands[1]
  <2>1. c \in Command /\ Head(commands) = c
    BY <1>0, <1>14 DEF WorkerPop, TypeOK
  <2>2. /\ wpc = "wait" /\ wcmd' = c
        /\ queued' = IF IsData(c) THEN queued - Size(c) ELSE queued
        /\ wpc' = IF IsData(c) THEN "submit" ELSE "execute"
        /\ UNCHANGED <<produced, settled, dropped, flushed, staging, offset>>
    BY <1>14, <2>1 DEF WorkerPop
  <2>3. Size(c) \in Int
    BY <2>1 DEF Command, Size
  <2> HIDE DEF c
  <2>4. /\ InHands = 0
        /\ InHands' = IF IsData(c) THEN Size(c) ELSE 0
    BY <2>2 DEF InHands, Size
  <2> QED
    BY <1>1, <1>3, <1>4, <2>2, <2>3, <2>4
<1>15. CASE WorkerSubmit
  <2>1. /\ wpc = "submit" /\ wpc' = "submitted" /\ ProviderTakes(wcmd)
        /\ UNCHANGED <<produced, flushed, queued, staging, offset>>
    BY <1>15 DEF WorkerSubmit
  <2>2. InHands = Size(wcmd) /\ InHands' = 0
    BY <2>1 DEF InHands
  <2>3. settled' + dropped' = settled + dropped + InHands
    BY <1>2, <1>8, <2>1, <2>2
  <2>4. settled' \in Int /\ dropped' \in Int
    BY <1>1, <1>2, <2>1, <2>2 DEF ProviderTakes
  <2> QED
    BY <1>1, <1>2, <1>3, <1>4, <2>1, <2>2, <2>3, <2>4
<1>16. CASE FlushStaging \/ CloseStaging
  <2>1. /\ flushed' = flushed + staging /\ staging' = 0 /\ InHands' = InHands
        /\ UNCHANGED <<produced, offset, settled, dropped, queued>>
    BY <1>5, <1>16 DEF FlushStaging, CloseStaging, ClearStaging
  <2> QED
    BY <1>1, <1>2, <1>3, <1>4, <2>1
<1>17. CASE FlushErase \/ CloseStop
  <2>1. /\ flushed' = flushed + queued /\ queued' = 0 /\ InHands' = InHands
        /\ UNCHANGED <<produced, offset, settled, dropped, staging>>
    BY <1>5, <1>17 DEF FlushErase, CloseStop
  <2> QED
    BY <1>1, <1>2, <1>3, <1>4, <2>1
<1>18. CASE CloseRelease
  <2>1. staging = 0
    BY <1>0, <1>18 DEF CloseRelease, Life, Callers, Closed
  <2> QED
    BY <1>5, <1>7, <1>18, <2>1 DEF CloseRelease
<1>19. CASE ResetEngine
  <2>1. /\ settled' = produced /\ dropped' = 0 /\ flushed' = 0 /\ queued' = 0
        /\ staging' = 0 /\ wpc' # "submit" /\ UNCHANGED <<produced, offset>>
    BY <1>19 DEF ResetEngine
  <2>2. offset = 0 /\ InHands' = 0
    BY <1>0, <1>19, <2>1
       DEF ResetEngine, Chunking, Life, Callers, Closed, InHands
  <2> QED
    BY <1>1, <1>4, <2>1, <2>2
<1>20. ASSUME NEW n \in Batches, CallbackEnter(n) PROVE Sum'
  BY <1>5, <1>7, <1>20 DEF CallbackEnter
<1>21. CASE CallbackLock \/ CallbackNext \/ SubmitWait \/ SubmitStart
  BY <1>5, <1>7, <1>21 DEF CallbackLock, CallbackNext, SubmitWait, SubmitStart
<1>22. CASE WorkerSettle \/ WorkerExecute \/ WorkerPublish \/ WorkerAck
  <2>1. /\ wpc # "submit" /\ wpc' # "submit"
        /\ UNCHANGED <<produced, settled, dropped, flushed, queued, staging,
                       offset>>
    BY <1>22 DEF WorkerSettle, WorkerExecute, WorkerPublish, WorkerAck
  <2> QED
    BY <1>6, <1>7, <2>1
<1>23. ASSUME NEW op \in ControlNames, Begin(op) PROVE Sum'
  BY <1>5, <1>7, <1>23 DEF Begin
<1>24. CASE BeginShutdown \/ SendControl \/ AwaitSleep \/ AwaitDone
  BY <1>5, <1>7, <1>24 DEF BeginShutdown, SendControl, AwaitSleep, AwaitDone
<1>25. CASE WorkerSleep \/ DirectControl \/ Retarget \/ CloseCancel
  BY <1>5, <1>7, <1>25 DEF WorkerSleep, DirectControl, Retarget, CloseCancel
<1>26. CASE CloseDestroy \/ CreateBackend \/ Play \/ Halted \/ UNCHANGED vars
  BY <1>5, <1>7, <1>26 DEF CloseDestroy, CreateBackend, Play, Halted, vars
<1> QED
  BY <1>9, <1>10, <1>11, <1>12, <1>13, <1>14, <1>15, <1>16, <1>17, <1>18,
     <1>19, <1>20, <1>21, <1>22, <1>23, <1>24, <1>25, <1>26
     DEF Next, Producer, Submit, Worker, Main

-----------------------------------------------------------------------------
(* The invariant of the sound.                                             *)

\* What no step changes, or takes back.
Stay == UNCHANGED <<threaded, coreThread>> /\ (rebuilt => rebuilt')

\* The modes stay, and a change of the rate beside a core thread is never
\* forgotten.
LEMMA ModesStay ==
  ASSUME [Next]_vars
  PROVE  Stay
<1> USE DEF Stay
<1>1. ASSUME NEW op \in ControlNames, Begin(op) PROVE Stay
  BY <1>1 DEF Begin
<1>2. ASSUME NEW n \in Batches, CallbackEnter(n) PROVE Stay
  BY <1>2 DEF CallbackEnter
<1>3. CASE CallbackLock \/ CallbackStage \/ CallbackNext
  BY <1>3 DEF CallbackLock, CallbackStage, CallbackNext
<1>4. CASE Submit
  BY <1>4 DEF Submit, SubmitNowhere, SubmitPush, SubmitWait, SubmitRefused,
              SubmitDirect, SubmitStart
<1>5. CASE Worker
  BY <1>5 DEF Worker, WorkerSleep, WorkerPop, WorkerSubmit, WorkerSettle,
              WorkerExecute, WorkerPublish, WorkerAck
<1>6. CASE BeginShutdown \/ FlushStaging \/ FlushErase \/ SendControl
  BY <1>6
     DEF BeginShutdown, FlushStaging, ClearStaging, FlushErase, SendControl
<1>7. CASE AwaitSleep \/ AwaitDone \/ DirectControl \/ Retarget
  BY <1>7 DEF AwaitSleep, AwaitDone, DirectControl, Retarget
<1>8. CASE CloseStaging \/ CloseCancel \/ CloseStop \/ CloseDestroy
  BY <1>8 DEF CloseStaging, ClearStaging, CloseCancel, CloseStop, CloseDestroy
<1>9. CASE CloseRelease \/ CreateBackend \/ ResetEngine
  BY <1>9 DEF CloseRelease, CreateBackend, ResetEngine
<1>10. CASE Play \/ Halted \/ UNCHANGED vars
  BY <1>10 DEF Play, Halted, vars
<1> QED
  BY <1>1, <1>2, <1>3, <1>4, <1>5, <1>6, <1>7, <1>8, <1>9, <1>10
     DEF Next, Producer, Main

\* A program that starts has no frames anywhere.
LEMMA SoundInit == Init => SoundInv
<1> SUFFICES ASSUME Init PROVE SoundInv
  OBVIOUS
<1> USE DEF Init
<1>1. Life
  BY DEF Life, Operation, Callers, Provided, InCallback, Closing, Stopping,
         Closed
<1>2. Chain
  BY DEF Chain, Passed, Unsubmitted, Rising, DeviceAbove, HeldAbove,
         QueueAbove, NoDevice
<1>3. Counted
  <2>1. QueuedFrames = {}
    BY DEF QueuedFrames, DataCommands
  <2> QED
    BY <2>1, FS_EmptySet DEF Counted, Unsubmitted, InHands
<1> QED
  BY <1>1, <1>2, <1>3 DEF SoundInv

\* The parts together; before a rebuild beside a core thread there was none.
LEMMA SoundStep == ASSUME IndInv, SoundInv, [Next]_vars PROVE SoundInv'
<1>1. Life'
  BY LifeStep DEF SoundInv
<1>2. ASSUME ~rebuilt' PROVE Chain' /\ Counted'
  <2>1. ~rebuilt /\ Life /\ Chain /\ Counted
    BY <1>2, ModesStay DEF SoundInv, Stay
  <2>2. QueueCount' /\ Sum'
    BY <1>2, <2>1, QueueCountStep, SumStep DEF Counted, QueueCount, Sum
  <2>3. Chain'
    BY <1>2, <2>1, ChainStep
  <2> QED
    BY <2>2, <2>3 DEF Counted, QueueCount, Sum
<1> QED
  BY <1>1, <1>2 DEF SoundInv

\* Hence both invariants hold throughout.
LEMMA SoundInductive == Spec => [](IndInv /\ SoundInv)
<1>1. IndInv /\ SoundInv /\ [Next]_vars => SoundInv'
  BY SoundStep
<1> QED
  BY SoundInit, Inductive, <1>1, PTL DEF Spec

\* Frame by frame, place by place: the invariant keeps the order and the
\* count the property asks for.
LEMMA SoundIsIntact == ASSUME IndInv, SoundInv PROVE SoundIntact
<1> SUFFICES ASSUME ~rebuilt PROVE Conservation /\ InOrder
  BY DEF SoundIntact
<1>0. TypeOK /\ Loads /\ Chain /\ Counted
  BY DEF IndInv, SoundInv
<1>1. Conservation
  BY <1>0 DEF Conservation, Counted, InHands
<1>2. /\ heard \in Nat /\ wcmd.lo \in Nat /\ wcmd.hi \in Nat
      /\ produced - Unsubmitted \in Int /\ produced \in Nat
      /\ \A i \in DOMAIN device.queue : device.queue[i] \in Nat
  <2>1. /\ wcmd \in Command /\ device \in Device /\ heard \in Nat
        /\ staging \in Nat /\ offset \in Nat /\ produced \in Nat
    BY <1>0 DEF TypeOK
  <2> QED
    BY <2>1 DEF Command, Device, Unsubmitted
<1>3. \A i \in DataCommands :
        /\ commands[i].lo \in Nat /\ commands[i].hi \in Nat
        /\ commands[i].lo <= commands[i].hi
        /\ commands[i].hi <= Passed /\ i \in DOMAIN commands
        /\ IsData(commands[i])
  <2>1. ASSUME NEW i \in DataCommands
        PROVE  /\ commands[i] \in Command /\ i \in DOMAIN commands
               /\ IsData(commands[i]) /\ Size(commands[i]) \in 1..Capacity
    BY <1>0 DEF DataCommands, TypeOK, Loads, GoodData
  <2>2. ASSUME NEW i \in DataCommands
        PROVE  /\ commands[i].lo \in Nat /\ commands[i].hi \in Nat
               /\ commands[i].lo <= commands[i].hi
    <3>1. commands[i].lo \in Nat /\ commands[i].hi \in Nat
      BY <2>1 DEF Command
    <3> QED
      BY <2>1, <3>1, EngineAssumption DEF Size
  <2> QED
    BY <1>0, <2>1, <2>2 DEF Chain
<1>4. \A i, j \in DOMAIN device.queue :
        i < j => device.queue[i] < device.queue[j]
  BY <1>0 DEF Chain, Rising
<1>5. \A i, j \in DataCommands : i < j => commands[i].hi < commands[j].lo
  BY <1>0, <1>3 DEF Chain
<1>6. \A f \in DeviceFrames : heard < f
  BY <1>0, <1>2 DEF DeviceFrames, Chain, DeviceAbove
<1>7. \A f \in HeldFrames : \A g \in DeviceFrames : g < f
  <2>1. ASSUME NEW f \in HeldFrames, NEW i \in DOMAIN device.queue
        PROVE  device.queue[i] < f
    <3>1. wpc = "submit" /\ f \in wcmd.lo..wcmd.hi
      BY <2>1 DEF HeldFrames
    <3>2. wcmd.lo > device.queue[i]
      BY <1>0, <3>1 DEF Chain, HeldAbove
    <3> QED
      BY <1>2, <3>1, <3>2
  <2> QED
    BY <2>1 DEF DeviceFrames
<1>8. \A f \in QueuedFrames : \A g \in HeldFrames \cup DeviceFrames : g < f
  <2>1. ASSUME NEW i \in DataCommands,
               NEW f \in commands[i].lo..commands[i].hi,
               NEW k \in DOMAIN device.queue
        PROVE  device.queue[k] < f
    <3>1. commands[i].lo > device.queue[k]
      BY <1>0, <1>3 DEF Chain, QueueAbove
    <3> QED
      BY <1>2, <1>3, <3>1
  <2>2. ASSUME NEW i \in DataCommands,
               NEW f \in commands[i].lo..commands[i].hi, NEW g \in HeldFrames
        PROVE  g < f
    <3>1. wpc = "submit" /\ g \in wcmd.lo..wcmd.hi
      BY <2>2 DEF HeldFrames
    <3>2. commands[i].lo > wcmd.hi
      BY <1>0, <1>3, <3>1 DEF Chain, QueueAbove
    <3> QED
      BY <1>2, <1>3, <3>1, <3>2
  <2>3. \A f \in QueuedFrames : \E i \in DataCommands :
          f \in commands[i].lo..commands[i].hi
    BY DEF QueuedFrames
  <2>4. \A g \in DeviceFrames : \E k \in DOMAIN device.queue :
          g = device.queue[k]
    BY DEF DeviceFrames
  <2> QED
    BY <2>1, <2>2, <2>3, <2>4
<1>9. \A f \in StagedFrames :
        \A g \in QueuedFrames \cup HeldFrames \cup DeviceFrames : g < f
  <2>1. \A g \in QueuedFrames : g \in Int /\ g <= Passed
    <3>1. ASSUME NEW i \in DataCommands,
                 NEW g \in commands[i].lo..commands[i].hi
          PROVE  g \in Int /\ g <= Passed
      BY <1>2, <1>3 DEF Passed
    <3> QED
      BY <3>1 DEF QueuedFrames
  <2>2. \A g \in HeldFrames : g \in Int /\ g <= Passed
    BY <1>0, <1>2 DEF HeldFrames, Chain, Passed
  <2>3. \A g \in DeviceFrames : g \in Int /\ g <= Passed
    BY <1>0, <1>2 DEF DeviceFrames, Chain
  <2>4. \A f \in StagedFrames : f \in Int /\ Passed < f
    BY <1>2 DEF StagedFrames, Passed
  <2>5. Passed \in Int
    BY <1>2 DEF Passed
  <2> QED
    BY <2>1, <2>2, <2>3, <2>4, <2>5
<1> QED
  BY <1>1, <1>4, <1>5, <1>6, <1>7, <1>8, <1>9 DEF InOrder

\* No frame is lost, counted twice or heard out of order on its way through
\* the staging, the deque, the worker's hands and the provider, until a
\* change of the rate begins beside a core thread.
THEOREM SoundHolds == Spec => []SoundIntact
BY SoundIsIntact, SoundInductive, PTL

\* The provider is open whenever the worker or a callback may call it.
LEMMA AliveHolds == ASSUME SoundInv PROVE BackendAlive
BY DEF SoundInv, Life, Callers, Provided, Closed, InCallback, BackendAlive

\* Neither the worker nor a callback reaches a device that does not exist,
\* until a change of the rate begins beside a core thread.
THEOREM BackendHolds == Spec => []BackendAlive
BY AliveHolds, SoundInductive, PTL

-----------------------------------------------------------------------------
(* Every step keeps the silence of a pause.                                *)

\* A pause sends a Flush and then the Pause, and nothing else sends those.
LEMMA PausesStep ==
  ASSUME IndInv, Life, Pauses, [Next]_vars
  PROVE  Pauses'
<1> USE DEF Pauses, Closing, Stopping
<1>0. TypeOK /\ Protocol /\ Operation
  BY DEF IndInv, Life
<1>1. ASSUME UNCHANGED <<mop, mpc, msend, transition, untold>> PROVE Pauses'
  BY <1>1
<1>2. ASSUME NEW op \in ControlNames, Begin(op) PROVE Pauses'
  <2>1. /\ mop' = op /\ msend' = IF op = "resume" THEN "Resume" ELSE "Flush"
        /\ transition' = (op = "pause" \/ (transition /\ op # "resume"))
        /\ untold' = (op \notin {"pause", "resume"}
                         /\ (untold \/ (op = "rate" /\ transition)))
    BY <1>2 DEF Begin
  <2>2. op = "rate" /\ transition' => untold'
    BY <2>1
  <2>3. op # "boot" /\ op # "shutdown"
    BY DEF ControlNames
  <2> QED
    BY <2>1, <2>2, <2>3
<1>3. CASE BeginShutdown
  BY <1>3 DEF BeginShutdown, FirstStage
<1>4. CASE FlushStaging
  BY <1>0, <1>4 DEF FlushStaging, ClearStaging, Operation
<1>5. CASE FlushErase
  BY <1>0, <1>5 DEF FlushErase, Operation
<1>6. CASE SendControl
  BY <1>6 DEF SendControl
<1>7. CASE AwaitDone
  <2>1. /\ mpc = "await" /\ mpc' = NextStage(msend)
        /\ msend' = IF msend = "Flush" /\ mop = "pause" THEN "Pause" ELSE msend
        /\ UNCHANGED <<mop, transition, untold>>
    BY <1>7 DEF AwaitDone
  <2>2. /\ mpc' \in {"send", "retarget", "destroy", "idle"}
        /\ mpc' = "send" => msend = "Flush" /\ mop = "pause"
        /\ msend = "Stop" => mpc' = "destroy"
    BY <1>0, <2>1 DEF NextStage, TypeOK, ControlTypes
  <2> QED
    BY <1>0, <2>1, <2>2 DEF Operation
<1>8. CASE DirectControl
  <2>1. /\ mpc = "direct"
        /\ mpc' = IF msend = "Flush" /\ mop = "pause" THEN "direct"
                  ELSE NextStage(msend)
        /\ msend' = IF msend = "Flush" /\ mop = "pause" THEN "Pause" ELSE msend
        /\ UNCHANGED <<mop, transition, untold>>
    BY <1>8 DEF DirectControl
  <2>2. /\ mpc' \in {"direct", "retarget", "destroy", "idle"}
        /\ mpc' = "direct" => msend = "Flush" /\ mop = "pause"
    BY <1>0, <2>1 DEF NextStage, TypeOK, ControlTypes
  <2> QED
    BY <1>0, <2>1, <2>2 DEF Operation
<1>9. CASE Retarget
  BY <1>0, <1>9 DEF Retarget, Operation
<1>10. CASE CloseStaging \/ CloseCancel
  BY <1>10 DEF CloseStaging, ClearStaging, CloseCancel
<1>11. CASE CloseStop
  BY <1>0, <1>11 DEF CloseStop, Operation
<1>12. CASE CloseDestroy \/ CloseRelease
  BY <1>12 DEF CloseDestroy, CloseRelease
<1>13. CASE CreateBackend \/ ResetEngine
  BY <1>0, <1>13 DEF CreateBackend, ResetEngine, Operation
<1>14. CASE AwaitSleep \/ Play \/ Halted \/ UNCHANGED vars
  BY <1>1, <1>14 DEF AwaitSleep, Play, Halted, vars
<1>15. CASE Worker
  BY <1>1, <1>15 DEF Worker, WorkerSleep, WorkerPop, WorkerSubmit,
     WorkerSettle, WorkerExecute, WorkerPublish, WorkerAck
<1>16. CASE Submit
  BY <1>1, <1>16 DEF Submit, SubmitNowhere, SubmitPush, SubmitWait,
     SubmitRefused, SubmitDirect, SubmitStart
<1>17. CASE CallbackLock \/ CallbackStage \/ CallbackNext
  BY <1>1, <1>17 DEF CallbackLock, CallbackStage, CallbackNext
<1>18. ASSUME NEW n \in Batches, CallbackEnter(n) PROVE Pauses'
  BY <1>1, <1>18 DEF CallbackEnter
<1> QED
  BY <1>2, <1>3, <1>4, <1>5, <1>6, <1>7, <1>8, <1>9, <1>10, <1>11, <1>12,
     <1>13, <1>14, <1>15, <1>16, <1>17, <1>18 DEF Next, Producer, Main

\* A paused device is not started: a submission sees the pause, and no start
\* is under way when the Pause is executed.
LEMMA StartsStep ==
  ASSUME ~StableBuffer, ProviderSerialised, IndInv, Life, Starts, [Next]_vars
  PROVE  Starts'
<1> USE DEF Starts
<1>0. TypeOK /\ Chunking /\ Loads /\ Protocol /\ Callers /\ Provided
  BY DEF IndInv, Life
<1>1. ASSUME UNCHANGED <<threaded, device, wpc, ppc>> PROVE Starts'
  BY <1>1
<1>2. ASSUME ~device'.starting, device'.paused => ~device'.running
      PROVE  Starts'
  BY <1>2
<1>3. ASSUME NEW c \in Command, ProviderTakes(c)
      PROVE  /\ device'.paused = device.paused
             /\ device.paused => ~device'.running /\ ~device'.starting
  <2>1. device'.running = device.running /\ device'.paused = device.paused
    BY <1>0, <1>3, TakenFields DEF TypeOK
  <2>2. CASE device' = device
    BY <2>2
  <2>3. CASE device'.starting =
               (~device.started /\ StartedBy(device, device'.queue))
    BY <2>1, <2>3 DEF StartedBy
  <2> QED
    BY <1>0, <1>3, <2>1, <2>2, <2>3, TakenFields DEF TypeOK
<1>4. CASE SubmitDirect
  <2>1. /\ ~threaded /\ ~threaded' /\ ppc' = "start"
        /\ ProviderTakes(Data(Oldest, Oldest + chunk - 1))
    BY <1>4 DEF SubmitDirect
  <2> QED
    BY <1>0, <1>3, <2>1, ChunkIsCommand
<1>5. CASE WorkerSubmit
  <2>1. /\ threaded /\ threaded' /\ wpc' = "submitted" /\ ProviderTakes(wcmd)
        /\ wcmd \in Command
    BY <1>0, <1>5 DEF WorkerSubmit, Loads, TypeOK
  <2> QED
    BY <1>3, <2>1
<1>6. CASE WorkerSettle \/ SubmitStart
  <2>1. device' = DeviceStart(device) /\ device \in Device
    BY <1>0, <1>6 DEF WorkerSettle, SubmitStart, TypeOK
  <2> QED
    BY <1>2, <2>1, StartFields
<1>7. ASSUME NEW type \in ControlTypes, device' = Executed(type),
             ~device.starting
      PROVE  Starts'
  <2>1. /\ device'.starting = device.starting
        /\ type = "Pause" => device'.paused /\ ~device'.running
        /\ type \in {"Flush", "Stop"} =>
             /\ device'.paused = device.paused
             /\ ~device.running => ~device'.running
        /\ type = "Resume" => ~device'.paused
    BY <1>0, <1>7, ExecutedFields DEF TypeOK
  <2>2. ~device'.starting
    BY <1>7, <2>1
  <2>3. device'.paused => ~device'.running
    BY <2>1 DEF ControlTypes
  <2> QED
    BY <1>2, <2>2, <2>3
<1>8. CASE WorkerExecute
  <2>1. wpc = "execute" /\ threaded /\ wcmd.type \in ControlTypes
    BY <1>0, <1>8 DEF WorkerExecute, Loads, Protocol, Executing, Awaited,
                      TypeOK
  <2> QED
    BY <1>7, <1>8, <2>1 DEF WorkerExecute
<1>9. CASE DirectControl
  <2>1. ~threaded /\ ~coreThread /\ mpc = "direct"
    BY <1>0, <1>9 DEF DirectControl, Protocol, ProviderSerialised
  <2>2. ppc = "idle" /\ msend \in ControlTypes
    BY <1>0, <2>1 DEF Callers, TypeOK
  <2> QED
    BY <1>7, <1>9, <2>1, <2>2 DEF DirectControl
<1>10. CASE CloseDestroy \/ CreateBackend
  <2>1. device' = NoDevice \/ device' = DeviceCreate
    BY <1>10 DEF CloseDestroy, CreateBackend
  <2>2. /\ ~NoDevice.starting /\ ~NoDevice.paused /\ ~NoDevice.running
        /\ ~DeviceCreate.starting /\ ~DeviceCreate.paused
    BY DEF NoDevice, DeviceCreate
  <2> QED
    BY <1>2, <2>1, <2>2
<1>11. CASE CloseCancel
  <2>1. /\ device'.starting = device.starting
        /\ device'.running = device.running /\ device'.paused = device.paused
    BY <1>0, <1>11 DEF CloseCancel, DeviceCancel, TypeOK, Device
  <2> QED
    BY <1>11, <2>1 DEF CloseCancel
<1>12. CASE Play
  <2>1. /\ device'.starting = device.starting
        /\ device'.running = device.running /\ device'.paused = device.paused
    BY <1>0, <1>12 DEF Play, DevicePlay, TypeOK, Device
  <2> QED
    BY <1>12, <2>1 DEF Play
<1>13. CASE ResetEngine
  BY <1>0, <1>13 DEF ResetEngine, Provided
<1>14. CASE WorkerPop \/ WorkerPublish \/ WorkerAck
  BY <1>14 DEF WorkerPop, WorkerPublish, WorkerAck
<1>15. CASE CallbackLock \/ CallbackStage \/ CallbackNext \/ SubmitPush
  BY <1>15 DEF CallbackLock, CallbackStage, CallbackNext, SubmitPush
<1>16. CASE SubmitRefused \/ SubmitNowhere
  BY <1>16 DEF SubmitRefused, SubmitNowhere
<1>17. ASSUME NEW n \in Batches, CallbackEnter(n) PROVE Starts'
  BY <1>17 DEF CallbackEnter
<1>18. ASSUME NEW op \in ControlNames, Begin(op) PROVE Starts'
  BY <1>1, <1>18 DEF Begin
<1>19. CASE SubmitWait \/ WorkerSleep \/ BeginShutdown \/ FlushErase
  BY <1>1, <1>19 DEF SubmitWait, WorkerSleep, BeginShutdown, FlushErase
<1>20. CASE FlushStaging \/ CloseStaging \/ SendControl \/ AwaitSleep
  BY <1>1, <1>20
     DEF FlushStaging, CloseStaging, ClearStaging, SendControl, AwaitSleep
<1>21. CASE AwaitDone \/ Retarget \/ CloseStop \/ CloseRelease
  BY <1>1, <1>21 DEF AwaitDone, Retarget, CloseStop, CloseRelease
<1>22. CASE Halted \/ UNCHANGED vars
  BY <1>1, <1>22 DEF Halted, vars
<1> QED
  BY <1>4, <1>5, <1>6, <1>8, <1>9, <1>10, <1>11, <1>12, <1>13, <1>14, <1>15,
     <1>16, <1>17, <1>18, <1>19, <1>20, <1>21, <1>22
     DEF Next, Producer, Submit, Worker, Main

\* The Pause is executed and recorded before it is answered, and only the
\* end of the pause takes it back.
LEMMA SilentStep ==
  ASSUME ProviderSerialised, IndInv, Life, Pauses, Silent, [Next]_vars
  PROVE  Silent'
<1> USE DEF Silent, InPause, Answered
<1>0. TypeOK /\ Loads /\ Protocol /\ Operation /\ Callers
  BY DEF IndInv, Life
<1>1. /\ transition /\ mpc \in {"send", "await", "direct"}
           /\ mop \notin {"pause", "shutdown"} => msend \in {"Flush", "Stop"}
      /\ mop = "pause" => msend \in {"Flush", "Pause"}
  BY DEF Pauses
<1>2. ASSUME UNCHANGED <<mpc, mop, msend, mid, transition, untold, ackedId,
                         state, wpc>>,
             device'.paused = device.paused
      PROVE  Silent'
  BY <1>2
<1>3. ASSUME NEW type \in ControlTypes, device' = Executed(type)
      PROVE  /\ type = "Pause" => device'.paused
             /\ type \in {"Flush", "Stop"} => device'.paused = device.paused
  BY <1>0, <1>3, ExecutedFields DEF TypeOK
<1>4. ASSUME NEW c \in Command, ProviderTakes(c)
      PROVE  device'.paused = device.paused
  BY <1>0, <1>4, TakenFields DEF TypeOK
<1>5. CASE WorkerSubmit
  <2>1. /\ ProviderTakes(wcmd) /\ wcmd \in Command /\ wpc' = "submitted"
        /\ UNCHANGED <<mpc, mop, msend, mid, transition, untold, ackedId,
                       state>>
    BY <1>0, <1>5 DEF WorkerSubmit, TypeOK
  <2>2. device'.paused = device.paused
    BY <1>4, <2>1
  <2> QED
    BY <2>1, <2>2
<1>6. CASE WorkerSettle
  <2>1. device'.paused = device.paused
    BY <1>0, <1>6, StartFields DEF WorkerSettle, TypeOK
  <2> QED
    BY <1>6, <2>1 DEF WorkerSettle
<1>7. CASE WorkerExecute
  <2>1. /\ mpc = "await" /\ wcmd.type = msend /\ ackedId < mid
        /\ msend \in ControlTypes /\ ~(ackedId >= mid)
        /\ device' = Executed(msend)
        /\ wpc' = IF msend \in {"Pause", "Resume"} THEN "publish" ELSE "ack"
        /\ UNCHANGED <<mpc, mop, msend, mid, transition, untold, ackedId,
                       state>>
    BY <1>0, <1>7 DEF WorkerExecute, Protocol, Executing, Awaited, TypeOK
  <2>2. /\ msend = "Pause" => device'.paused
        /\ msend \in {"Flush", "Stop"} => device'.paused = device.paused
    BY <1>3, <2>1
  <2> QED
    BY <1>1, <2>1, <2>2
<1>8. CASE WorkerPublish
  <2>1. /\ mpc = "await" /\ wcmd.type = msend /\ wpc = "publish"
        /\ msend \in {"Pause", "Resume"} /\ wpc' = "ack" /\ ~(ackedId >= mid)
        /\ state' = IF msend = "Pause" THEN "Paused" ELSE "Running"
        /\ UNCHANGED <<mpc, mop, msend, mid, transition, untold, ackedId,
                       device>>
    BY <1>0, <1>8 DEF WorkerPublish, Protocol, Executing, Awaited, TypeOK
  <2> QED
    BY <1>1, <2>1
<1>9. CASE WorkerAck
  <2>1. /\ wpc = "ack"
        /\ UNCHANGED <<mpc, mop, msend, mid, transition, untold, state,
                       device>>
    BY <1>9 DEF WorkerAck
  <2> QED
    BY <2>1
<1>10. CASE WorkerPop \/ WorkerSleep
  <2>1. /\ wpc' \in {"wait", "submit", "execute"}
        /\ UNCHANGED <<mpc, mop, msend, mid, transition, untold, ackedId,
                       state, device>>
    BY <1>10 DEF WorkerPop, WorkerSleep
  <2> QED
    BY <2>1
<1>11. ASSUME NEW op \in ControlNames, Begin(op) PROVE Silent'
  <2>1. /\ mpc = "idle" /\ mop' = op
        /\ untold' = (op \notin {"pause", "resume"}
                         /\ (untold \/ (op = "rate" /\ transition)))
        /\ transition' = (op = "pause" \/ (transition /\ op # "resume"))
        /\ mpc' = IF op = "resize" \/ (op = "ffwd" /\ ffwd) THEN "idle"
                  ELSE FirstStage(op)
        /\ UNCHANGED <<device, state>>
    BY <1>11 DEF Begin, MainIdle
  <2>2. mpc' # "await" /\ (op = "pause" => mpc' = "unstage")
    BY <2>1, StageIsStage DEF ControlTypes, FirstStage
  <2>3. mop # "shutdown"
    BY <2>1 DEF Pauses, Closing, Stopping
  <2> QED
    BY <2>1, <2>2, <2>3
<1>12. CASE BeginShutdown
  BY <1>12 DEF BeginShutdown, FirstStage
<1>13. CASE FlushStaging \/ FlushErase
  <2>1. /\ mpc # "idle" /\ mpc' \in {"erase", "direct", "send"}
        /\ UNCHANGED <<mop, transition, untold, device, state>>
    BY <1>13 DEF FlushStaging, ClearStaging, FlushErase
  <2> QED
    BY <2>1
<1>14. CASE SendControl
  <2>1. /\ mpc = "send" /\ mpc' = "await" /\ mid' = nextId
        /\ UNCHANGED <<mop, transition, untold, device, state, wpc,
                       ackedId>>
    BY <1>14 DEF SendControl
  <2>2. wpc \notin {"publish", "ack"} /\ ~(ackedId >= nextId)
    <3>1. ackedId < nextId /\ (Executing => Awaited(wcmd))
      BY <1>0 DEF Protocol
    <3>2. ackedId \in Nat /\ nextId \in Nat
      BY <1>0 DEF TypeOK
    <3> QED
      BY <2>1, <3>1, <3>2 DEF Executing, Awaited
  <2> QED
    BY <2>1, <2>2
<1>15. CASE AwaitDone
  <2>1. /\ mpc = "await" /\ ackedId >= mid /\ mpc' = NextStage(msend)
        /\ UNCHANGED <<mop, transition, untold, device, state>>
    BY <1>15 DEF AwaitDone, Acknowledged
  <2>2. /\ mpc' # "await"
        /\ mop = "pause" /\ mpc' = "idle" => msend = "Pause"
    BY <1>0, <1>1, <2>1 DEF NextStage, TypeOK, ControlTypes
  <2> QED
    BY <2>1, <2>2
<1>16. CASE DirectControl
  <2>1. /\ mpc = "direct" /\ msend \in ControlTypes
        /\ device' = Executed(msend)
        /\ state' = IF msend = "Pause" THEN "Paused"
                    ELSE IF msend = "Resume" THEN "Running" ELSE state
        /\ mpc' = IF msend = "Flush" /\ mop = "pause" THEN "direct"
                  ELSE NextStage(msend)
        /\ UNCHANGED <<mop, transition, untold>>
    BY <1>0, <1>16 DEF DirectControl, TypeOK
  <2>2. /\ mpc' # "await"
        /\ mop = "pause" /\ mpc' = "idle" => msend = "Pause"
    BY <1>0, <1>1, <2>1 DEF NextStage, TypeOK, ControlTypes
  <2>3. /\ msend = "Pause" => device'.paused
        /\ msend \in {"Flush", "Stop"} => device'.paused = device.paused
    BY <1>3, <2>1
  <2> QED
    BY <1>1, <2>1, <2>2, <2>3
<1>17. CASE Retarget
  <2>1. /\ mop = "retime" /\ mpc' \in {"rebuffer", "idle"}
        /\ UNCHANGED <<mop, transition, untold, device, state>>
    BY <1>0, <1>17 DEF Retarget, Operation
  <2> QED
    BY <2>1
<1>18. ASSUME UNCHANGED <<mop, transition, untold>>, mpc' # "await", Closing
       PROVE  Silent'
  <2>1. mop = "shutdown" \/ ~transition \/ untold
    BY <1>0, <1>18 DEF Operation, Pauses
  <2> QED
    BY <1>18, <2>1
<1>19. CASE CloseStaging \/ CloseCancel \/ CloseStop
  BY <1>18, <1>19
     DEF CloseStaging, ClearStaging, CloseCancel, CloseStop, Closing
<1>20. CASE CloseDestroy \/ CloseRelease
  BY <1>18, <1>20 DEF CloseDestroy, CloseRelease, Closing
<1>21. CASE CreateBackend \/ ResetEngine
  <2>1. (transition' => untold') /\ mpc' # "await"
    BY <1>0, <1>21 DEF CreateBackend, ResetEngine, Operation, Pauses
  <2> QED
    BY <2>1
<1>22. CASE SubmitDirect
  <2>1. /\ ProviderTakes(Data(Oldest, Oldest + chunk - 1))
        /\ UNCHANGED <<mpc, mop, msend, mid, transition, untold, ackedId,
                       state, wpc>>
    BY <1>22 DEF SubmitDirect
  <2>2. Data(Oldest, Oldest + chunk - 1) \in Command
    BY <1>0, ChunkIsCommand DEF IndInv
  <2> QED
    BY <1>2, <1>4, <2>1, <2>2
<1>23. CASE SubmitStart
  <2>1. device'.paused = device.paused
    BY <1>0, <1>23, StartFields DEF SubmitStart, TypeOK
  <2> QED
    BY <1>2, <1>23, <2>1 DEF SubmitStart
<1>24. CASE Play
  <2>1. device'.paused = device.paused
    BY <1>0, <1>24 DEF Play, DevicePlay, TypeOK, Device
  <2> QED
    BY <1>2, <1>24, <2>1 DEF Play
<1>25. CASE SubmitNowhere \/ SubmitPush \/ SubmitWait \/ SubmitRefused
  BY <1>2, <1>25 DEF SubmitNowhere, SubmitPush, SubmitWait, SubmitRefused
<1>26. CASE CallbackLock \/ CallbackStage \/ CallbackNext
  BY <1>2, <1>26 DEF CallbackLock, CallbackStage, CallbackNext
<1>27. ASSUME NEW n \in Batches, CallbackEnter(n) PROVE Silent'
  BY <1>2, <1>27 DEF CallbackEnter
<1>28. CASE AwaitSleep \/ Halted \/ UNCHANGED vars
  BY <1>2, <1>28 DEF AwaitSleep, Halted, vars
<1> QED
  BY <1>5, <1>6, <1>7, <1>8, <1>9, <1>10, <1>11, <1>12, <1>13, <1>14, <1>15,
     <1>16, <1>17, <1>19, <1>20, <1>21, <1>22, <1>23, <1>24, <1>25, <1>26,
     <1>27, <1>28 DEF Next, Producer, Submit, Worker, Main

\* Nothing is paused at the start ...
LEMMA PauseInit == Init => PauseInv
BY DEF Init, PauseInv, Pauses, Starts, Silent, InPause, Answered, Closing,
       Stopping, NoDevice

\* ... and every step keeps a pause silent.
LEMMA PauseStep ==
  ASSUME ~StableBuffer, IndInv, SoundInv, PauseInv, [Next]_vars
  PROVE  PauseInv'
<1>1. Life /\ Pauses /\ (ProviderSerialised' => ProviderSerialised)
  BY ModesStay DEF SoundInv, PauseInv, Stay, ProviderSerialised
<1>2. Pauses'
  BY <1>1, PausesStep
<1>3. ASSUME ProviderSerialised' PROVE Starts' /\ Silent'
  BY <1>1, <1>3, StartsStep, SilentStep DEF PauseInv
<1> QED
  BY <1>2, <1>3 DEF PauseInv

\* Unless the stable buffer is on, a paused game is silent, and the provider
\* is called only while it exists, until a change of the rate begins beside a
\* core thread.  With the stable buffer a submission of a core thread starts
\* the device in a pause (audio_backend_sdl2.cpp).
THEOREM ProviderHolds ==
  ASSUME ~StableBuffer
  PROVE  Spec => []ProviderRespected
<1>1. IndInv /\ SoundInv /\ PauseInv /\ [Next]_vars => PauseInv'
  BY PauseStep
<1>2. ASSUME SoundInv, PauseInv PROVE ProviderRespected
  <2>1. ASSUME ProviderSerialised, mpc = "idle", transition, ~untold
        PROVE  ~device.running /\ state = "Paused"
    <3>1. mop # "shutdown"
      BY <2>1, <1>2 DEF PauseInv, Pauses, Closing, Stopping
    <3> QED
      BY <1>2, <2>1, <3>1 DEF PauseInv, Starts, Silent, InPause
  <2> QED
    BY <1>2, <2>1, AliveHolds DEF ProviderRespected, PausedIsSilent
<1> QED
  BY PauseInit, SoundInductive, <1>1, <1>2, PTL DEF Spec

-----------------------------------------------------------------------------
(* The engine implements the abstract pipe.                                *)

\* The provider takes frames of the command, if any.
LEMMA TakenFrames ==
  ASSUME device \in Device, NEW c \in Command, ProviderTakes(c)
  PROVE  DeviceFrames' \subseteq DeviceFrames \cup c.lo..c.hi
<1>1. CASE device' = device
  BY <1>1 DEF DeviceFrames
<1>2. CASE device' = DeviceSubmit(device, Frames(c))
  <2> DEFINE q == device.queue
             f == Frames(c)
             t == q \o f
  <2>1. /\ f \in Seq(Nat) /\ \A i \in DOMAIN f : f[i] \in c.lo..c.hi
        /\ q \in Seq(Nat)
    BY FramesRise DEF Device
  <2>2. device'.queue = t
    BY <1>2, <2>1, SubmitFields
  <2> HIDE DEF q, f
  <2>3. /\ Len(q) \in Nat /\ Len(f) \in Nat
        /\ DOMAIN q = 1..Len(q) /\ DOMAIN f = 1..Len(f)
        /\ DOMAIN t = 1..Len(q) + Len(f)
        /\ \A i \in 1..Len(q) + Len(f) :
             t[i] = IF i <= Len(q) THEN q[i] ELSE f[i - Len(q)]
    BY <2>1
  <2> HIDE DEF t
  <2>4. \A i \in DOMAIN t :
          \/ i \in DOMAIN q /\ t[i] = q[i]
          \/ i - Len(q) \in DOMAIN f /\ t[i] = f[i - Len(q)]
    BY <2>3
  <2>5. \A i \in DOMAIN t :
          t[i] \in DeviceFrames \/ t[i] \in c.lo..c.hi
    BY <2>1, <2>4 DEF DeviceFrames, q
  <2> QED
    BY <2>2, <2>5 DEF DeviceFrames
<1> QED
  BY <1>1, <1>2 DEF ProviderTakes

\* A frame of the chunk being submitted is staged.
LEMMA ChunkStaged ==
  ASSUME TypeOK, Chunking, staging >= chunk, NEW n \in Nat, offset + n <= chunk
  PROVE  (Oldest + offset)..(Oldest + offset + n - 1) \subseteq StagedFrames
<1>1. /\ staging \in Nat /\ produced \in Nat /\ offset \in Nat /\ chunk \in Nat
      /\ staging <= produced
  BY DEF TypeOK, Chunking
<1>2. Oldest = produced - staging + 1
  BY <1>1 DEF Oldest
<1> QED
  BY <1>1, <1>2 DEF StagedFrames, Unsubmitted

\* Every step is one of the pipe's.
LEMMA PipeStep ==
  ASSUME IndInv, SoundInv, ~rebuilt, ~rebuilt', FlushBarrier', [Next]_vars
  PROVE  Pipe!Next \/ UNCHANGED Pipe!vars
<1>0. /\ TypeOK /\ Chunking /\ Loads /\ Protocol /\ Barrier
      /\ Life /\ Chain /\ Callers
  BY DEF IndInv, SoundInv, Life
<1> DEFINE Onward == UNCHANGED <<produced, heard, barrier>>
           Stage == StagedFrames' \subseteq LiveFrames
           Deque == QueuedFrames' \subseteq LiveFrames
           Hands == HeldFrames' \subseteq LiveFrames
           Provider == DeviceFrames' \subseteq LiveFrames
<1>1. ASSUME Onward, Stage, Deque, Hands, Provider PROVE Pipe!Next
  BY <1>1 DEF Pipe!Next, Pipe!Lose, LiveFrames
<1>2. /\ produced \in Nat /\ staging \in Nat /\ offset \in Nat /\ pn \in Nat
      /\ chunk \in Nat /\ Passed \in Int /\ barrier \in Nat /\ mark \in Nat
  BY <1>0 DEF TypeOK, Passed, Unsubmitted
<1>3. /\ QueuedFrames = FramesOf(commands)
      /\ QueuedFrames' = FramesOf(commands')
  BY DEF QueuedFrames, DataCommands, FramesOf
<1>4. ASSUME produced' = produced, Passed' \in Int, Passed <= Passed'
      PROVE  Stage
  <2>1. StagedFrames' \subseteq StagedFrames
    BY <1>2, <1>4 DEF StagedFrames, Passed
  <2> QED
    BY <2>1 DEF LiveFrames
<1>5. ASSUME UNCHANGED <<produced, staging, offset>> PROVE Stage
  BY <1>5 DEF StagedFrames, Unsubmitted, LiveFrames
<1>6. ASSUME commands' = commands \/ commands' = << >> PROVE Deque
  BY <1>3, <1>6, NoFrames DEF LiveFrames
<1>7. ASSUME UNCHANGED <<wpc, wcmd>> \/ wpc' # "submit" PROVE Hands
  BY <1>7 DEF HeldFrames, LiveFrames
<1>8. ASSUME device'.queue = device.queue \/ device'.queue = << >>
      PROVE  Provider
  BY <1>8 DEF DeviceFrames, LiveFrames
<1> HIDE DEF Stage, Deque, Hands, Provider
<1>9. ASSUME UNCHANGED <<produced, staging, offset, commands, wpc, wcmd,
                         device,
                         heard, barrier>>
      PROVE  Pipe!Next
  BY <1>1, <1>5, <1>6, <1>7, <1>8, <1>9
<1>10. CASE CallbackStage
  <2>1. /\ produced' = produced + pn /\ staging' = staging + pn
        /\ UNCHANGED <<offset, commands, wpc, wcmd, device, heard, barrier>>
    BY <1>10 DEF CallbackStage
  <2>2. /\ QueuedFrames' = QueuedFrames /\ HeldFrames' = HeldFrames
        /\ DeviceFrames' = DeviceFrames
    BY <1>3, <2>1 DEF HeldFrames, DeviceFrames
  <2>3. StagedFrames' = StagedFrames \cup (produced + 1)..produced'
    <3>1. StagedFrames = (Passed + 1)..produced
      BY DEF StagedFrames, Passed
    <3>2. StagedFrames' = (Passed + 1)..produced'
      BY <1>2, <2>1 DEF StagedFrames, Passed, Unsubmitted
    <3>3. Passed <= produced
      BY <1>0, <1>2, <1>10
         DEF CallbackStage, Passed, Unsubmitted, Chunking
    <3> QED
      BY <1>2, <2>1, <3>1, <3>2, <3>3
  <2>4. LiveFrames' = LiveFrames \cup (produced + 1)..produced'
    BY <2>2, <2>3 DEF LiveFrames
  <2>5. CASE pn = 0
    <3>1. (produced + 1)..produced' = {} /\ produced' = produced
      BY <1>2, <2>1, <2>5
    <3> QED
      BY <2>1, <2>4, <3>1 DEF Pipe!vars
  <2>6. CASE pn > 0
    <3>1. produced' > produced
      BY <1>2, <2>1, <2>6
    <3> QED
      BY <2>1, <2>4, <3>1 DEF Pipe!Next, Pipe!Produce
  <2> QED
    BY <1>2, <2>5, <2>6
<1>11. CASE SubmitNowhere
  BY <1>0, <1>11
     DEF SubmitNowhere, Life, Provided, Callers, InCallback, Closed
<1>12. CASE SubmitPush
  <2> DEFINE c == Data(Oldest + offset, Oldest + offset + Part - 1)
  <2>1. /\ staging >= chunk /\ Part \in Nat \ {0} /\ offset + Part <= chunk
    BY <1>0, <1>2, <1>12, EngineAssumption
       DEF SubmitPush, Chunking, Part, Callers
  <2>2. c.lo..c.hi \subseteq StagedFrames
    BY <1>0, <2>1, ChunkStaged DEF Data
  <2>3. c \in Command
    <3>1. /\ Oldest + offset \in Nat /\ Oldest + offset + Part - 1 \in Nat
          /\ Oldest + offset <= Oldest + offset + Part - 1
      BY <1>2, <2>1 DEF Oldest
    <3> QED
      BY <3>1, DataIsCommand
  <2>4. /\ commands' = Append(commands, c)
        /\ \/ /\ staging' = Unstaged(chunk) /\ offset' = 0
              /\ offset + Part = chunk
           \/ staging' = staging /\ offset' = offset + Part
        /\ UNCHANGED <<produced, wpc, wcmd, device, heard, barrier>>
    BY <1>12 DEF SubmitPush
  <2> HIDE DEF c
  <2>5. FramesOf(commands') \subseteq FramesOf(commands) \cup c.lo..c.hi
    <3>1. commands \in Seq(Command)
      BY <1>0 DEF TypeOK
    <3> QED
      BY <2>3, <2>4, <3>1, AppendFrames
  <2>6. Deque
    BY <1>3, <2>2, <2>5 DEF LiveFrames, Deque
  <2>7. Passed' \in Int /\ Passed <= Passed'
    BY <1>2, <2>1, <2>4 DEF Passed, Unsubmitted, Unstaged
  <2> QED
    BY <1>1, <1>4, <1>7, <1>8, <2>4, <2>6, <2>7
<1>13. CASE SubmitRefused
  <2>1. /\ staging >= chunk /\ offset < chunk
        /\ staging' = Unstaged(chunk) /\ offset' = 0
        /\ UNCHANGED <<produced, commands, wpc, wcmd, device, heard, barrier>>
    BY <1>0, <1>13 DEF SubmitRefused, Callers, Chunking
  <2>2. Passed' \in Int /\ Passed <= Passed'
    BY <1>2, <2>1 DEF Passed, Unsubmitted, Unstaged
  <2> QED
    BY <1>1, <1>4, <1>6, <1>7, <1>8, <2>1, <2>2
<1>14. CASE SubmitDirect
  <2> DEFINE c == Data(Oldest, Oldest + chunk - 1)
  <2>1. /\ staging >= chunk /\ staging' = Unstaged(chunk) /\ offset = 0
        /\ ProviderTakes(c)
        /\ UNCHANGED <<produced, offset, commands, wpc, wcmd, heard, barrier>>
    BY <1>0, <1>14 DEF SubmitDirect, Callers, Chunking
  <2>2. c.lo..c.hi \subseteq StagedFrames
    <3>1. Oldest + 0 = Oldest
      BY <1>2 DEF Oldest
    <3>2. (Oldest + 0)..(Oldest + 0 + chunk - 1) \subseteq StagedFrames
      BY <1>0, <1>2, <2>1, ChunkStaged
    <3> QED
      BY <3>1, <3>2 DEF Data
  <2>3. c \in Command /\ device \in Device
    BY <1>0, ChunkIsCommand DEF TypeOK
  <2> HIDE DEF c
  <2>4. DeviceFrames' \subseteq DeviceFrames \cup c.lo..c.hi
    BY <2>1, <2>3, TakenFrames
  <2>5. Provider
    BY <2>2, <2>4 DEF LiveFrames, Provider
  <2>6. Passed' \in Int /\ Passed <= Passed'
    BY <1>2, <2>1 DEF Passed, Unsubmitted, Unstaged
  <2> QED
    BY <1>1, <1>4, <1>6, <1>7, <2>1, <2>5, <2>6
<1>15. CASE WorkerPop
  <2>1. /\ commands # << >> /\ commands \in Seq(Command)
        /\ commands' = Tail(commands)
        /\ UNCHANGED <<produced, staging, offset, device, heard, barrier>>
    BY <1>0, <1>15 DEF WorkerPop, TypeOK
  <2>2. Head(commands) = commands[1]
    BY <2>1
  <2>3. FramesOf(commands) = FramesOf(commands') \cup
          (IF IsData(commands[1]) THEN commands[1].lo..commands[1].hi ELSE {})
    BY <2>1, TailFrames
  <2>4. HeldFrames' =
          IF IsData(commands[1]) THEN commands[1].lo..commands[1].hi ELSE {}
    BY <1>15, <2>2 DEF WorkerPop, HeldFrames
  <2>5. Deque /\ Hands
    BY <1>3, <2>3, <2>4 DEF LiveFrames, Deque, Hands
  <2> QED
    BY <1>1, <1>5, <1>8, <2>1, <2>5
<1>16. CASE WorkerSubmit
  <2>1. /\ wpc = "submit" /\ wpc' = "submitted" /\ ProviderTakes(wcmd)
        /\ UNCHANGED <<produced, staging, offset, commands, heard, barrier>>
    BY <1>16 DEF WorkerSubmit
  <2>2. DeviceFrames' \subseteq DeviceFrames \cup wcmd.lo..wcmd.hi
    BY <1>0, <2>1, TakenFrames DEF TypeOK
  <2>3. Provider
    BY <2>1, <2>2 DEF LiveFrames, HeldFrames, Provider
  <2> QED
    BY <1>1, <1>5, <1>6, <1>7, <2>1, <2>3
<1>17. CASE WorkerSettle \/ SubmitStart
  <2>1. device'.queue = device.queue
    BY <1>0, <1>17, StartFields DEF WorkerSettle, SubmitStart, TypeOK
  <2>2. /\ UNCHANGED <<wpc, wcmd>> \/ wpc' # "submit"
        /\ UNCHANGED <<produced, staging, offset, commands, heard, barrier>>
    BY <1>17 DEF WorkerSettle, SubmitStart
  <2> QED
    BY <1>1, <1>5, <1>6, <1>7, <1>8, <2>1, <2>2
<1>18. CASE WorkerExecute
  <2>1. wcmd.type \in ControlTypes
    BY <1>0, <1>18 DEF WorkerExecute, Protocol, Executing, Awaited, TypeOK
  <2>2. device'.queue = device.queue \/ device'.queue = << >>
    BY <1>0, <1>18, <2>1, ExecutedQueue DEF WorkerExecute, TypeOK
  <2>3. /\ wpc' # "submit"
        /\ UNCHANGED <<produced, staging, offset, commands, heard, barrier>>
    BY <1>18 DEF WorkerExecute
  <2> QED
    BY <1>1, <1>5, <1>6, <1>7, <1>8, <2>2, <2>3
<1>19. CASE WorkerPublish \/ WorkerAck
  <2>1. /\ wpc' # "submit"
        /\ UNCHANGED <<produced, staging, offset, commands, device, heard,
                       barrier>>
    BY <1>19 DEF WorkerPublish, WorkerAck
  <2> QED
    BY <1>1, <1>5, <1>6, <1>7, <1>8, <2>1
<1>20. CASE FlushStaging \/ CloseStaging
  <2>1. /\ staging' = 0
        /\ UNCHANGED <<produced, offset, commands, wpc, wcmd, device, heard,
                       barrier>>
    BY <1>20 DEF FlushStaging, CloseStaging, ClearStaging
  <2>2. Passed' \in Int /\ Passed <= Passed'
    BY <1>2, <2>1 DEF Passed, Unsubmitted
  <2> QED
    BY <1>1, <1>4, <1>6, <1>7, <1>8, <2>1, <2>2
<1>21. CASE FlushErase
  <2>1. commands' = << >>
    BY <1>0, <1>21, NothingRemains DEF FlushErase, Protocol, Awaited, TypeOK
  <2>2. UNCHANGED <<produced, staging, offset, wpc, wcmd, device, heard,
                    barrier>>
    BY <1>21 DEF FlushErase
  <2> QED
    BY <1>1, <1>5, <1>6, <1>7, <1>8, <2>1, <2>2
<1>22. CASE SendControl
  <2> DEFINE c == Control(msend, nextId)
  <2>1. c \in Command /\ ~IsData(c) /\ commands \in Seq(Command)
    <3>1. msend \in ControlTypes /\ nextId \in Nat /\ commands \in Seq(Command)
      BY <1>0 DEF TypeOK
    <3> QED
      BY <3>1, ControlIsCommand
  <2>2. /\ commands' = <<c>> \o commands \/ commands' = Append(commands, c)
        /\ UNCHANGED <<produced, staging, offset, wpc, wcmd, device, heard,
                       barrier>>
    BY <1>22 DEF SendControl
  <2> HIDE DEF c
  <2>3. FramesOf(commands') = FramesOf(commands)
    BY <2>1, <2>2, ControlFrames, AppendFrames
  <2>4. Deque
    BY <1>3, <2>3 DEF Deque, LiveFrames
  <2> QED
    BY <1>1, <1>5, <1>7, <1>8, <2>2, <2>4
<1>23. ASSUME mark = barrier', UNCHANGED <<produced, heard>>,
              Stage, Deque, Hands, Provider
       PROVE  Pipe!Next
  <2>1. barrier' \in barrier..produced
    BY <1>0, <1>2, <1>23 DEF Barrier
  <2>2. LiveFrames' \subseteq LiveFrames
    BY <1>23 DEF LiveFrames, Stage, Deque, Hands, Provider
  <2>3. \A f \in LiveFrames' : f > barrier'
    BY DEF FlushBarrier
  <2> QED
    BY <1>23, <2>1, <2>2, <2>3 DEF Pipe!Next, Pipe!Flush
<1>24. CASE AwaitDone
  <2>1. /\ barrier' = mark \/ barrier' = barrier
        /\ UNCHANGED <<produced, staging, offset, commands, wpc, wcmd, device,
                       heard>>
    BY <1>24 DEF AwaitDone
  <2> QED
    BY <1>1, <1>5, <1>6, <1>7, <1>8, <1>23, <2>1
<1>25. CASE DirectControl
  <2>1. /\ barrier' = mark \/ barrier' = barrier
        /\ UNCHANGED <<produced, staging, offset, commands, wpc, wcmd, heard>>
    BY <1>25 DEF DirectControl
  <2>2. device'.queue = device.queue \/ device'.queue = << >>
    BY <1>0, <1>25, ExecutedQueue DEF DirectControl, TypeOK
  <2> QED
    BY <1>1, <1>5, <1>6, <1>7, <1>8, <1>23, <2>1, <2>2
<1>26. CASE CloseStop
  BY <1>1, <1>5, <1>6, <1>7, <1>8, <1>26 DEF CloseStop
<1>27. CASE CloseRelease
  <2>1. staging = 0
    BY <1>0, <1>27 DEF CloseRelease, Callers, Closed
  <2> QED
    BY <1>9, <1>27, <2>1 DEF CloseRelease
<1>28. CASE ResetEngine
  <2>1. staging = 0
    BY <1>0, <1>28 DEF ResetEngine, Callers, Closed
  <2>2. /\ commands' = << >> /\ wpc' # "submit"
        /\ staging' = 0
        /\ UNCHANGED <<produced, offset, device, heard, barrier>>
    BY <1>28 DEF ResetEngine
  <2> QED
    BY <1>1, <1>5, <1>6, <1>7, <1>8, <2>1, <2>2
<1>29. CASE CloseDestroy \/ CreateBackend \/ CloseCancel
  <2>1. device'.queue = device.queue \/ device'.queue = << >>
    <3>1. NoDevice.queue = << >> /\ DeviceCreate.queue = << >>
      BY DEF NoDevice, DeviceCreate
    <3>2. DeviceCancel(device).queue = device.queue
      BY <1>0 DEF DeviceCancel, TypeOK, Device
    <3> QED
      BY <1>29, <3>1, <3>2 DEF CloseDestroy, CreateBackend, CloseCancel
  <2>2. UNCHANGED <<produced, staging, offset, commands, wpc, wcmd, heard,
                    barrier>>
    BY <1>29 DEF CloseDestroy, CreateBackend, CloseCancel
  <2> QED
    BY <1>1, <1>5, <1>6, <1>7, <1>8, <2>1, <2>2
<1>30. CASE Play
  <2> DEFINE q == device.queue
             t == Tail(q)
  <2>1. /\ q \in Seq(Nat) /\ q # << >> /\ device'.queue = t /\ heard' = Head(q)
        /\ UNCHANGED <<produced, staging, offset, commands, wcmd, wpc,
                       barrier>>
    BY <1>0, <1>30 DEF Play, CanPlay, DevicePlay, TypeOK, Device
  <2>2. /\ Head(q) = q[1] /\ 1 \in DOMAIN q
        /\ \A i \in DOMAIN t : i + 1 \in DOMAIN q /\ i >= 1 /\ t[i] = q[i + 1]
    BY <2>1, TailAt
  <2>3. /\ \A i \in DOMAIN q : i = 1 \/ (i - 1 \in DOMAIN t /\ t[i - 1] = q[i])
        /\ \A i \in DOMAIN q : i \in Nat /\ i >= 1 /\ q[i] \in Nat
        /\ \A i \in DOMAIN t : i \in Nat
    BY <2>1
  <2>4. \A i \in DOMAIN q : i # 1 => q[1] < q[i]
    BY <1>0, <2>2, <2>3 DEF Chain, Rising
  <2> HIDE DEF t
  <2>5. DeviceFrames' = DeviceFrames \ {q[1]}
    <3>1. ASSUME NEW i \in DOMAIN t PROVE t[i] \in DeviceFrames /\ t[i] # q[1]
      <4>1. i + 1 \in DOMAIN q /\ i + 1 # 1 /\ t[i] = q[i + 1]
        BY <2>2, <2>3
      <4>2. q[1] < q[i + 1] /\ q[1] \in Nat /\ q[i + 1] \in Nat
        BY <2>2, <2>3, <2>4, <4>1
      <4> QED
        BY <4>1, <4>2 DEF DeviceFrames
    <3>2. ASSUME NEW i \in DOMAIN q, q[i] # q[1]
          PROVE  \E j \in DOMAIN t : t[j] = q[i]
      BY <2>3, <3>2
    <3> QED
      BY <2>1, <3>1, <3>2 DEF DeviceFrames
  <2>6. /\ StagedFrames' = StagedFrames /\ QueuedFrames' = QueuedFrames
        /\ HeldFrames' = HeldFrames
    BY <1>3, <2>1 DEF StagedFrames, Unsubmitted, HeldFrames
  <2>7. InOrder
    BY SoundIsIntact DEF SoundIntact
  <2>8. q[1] \in DeviceFrames
    BY <2>2 DEF DeviceFrames
  <2>9. /\ \A f \in StagedFrames \cup QueuedFrames \cup HeldFrames : q[1] < f
        /\ \A f \in DeviceFrames : f = q[1] \/ q[1] < f
    BY <2>4, <2>7, <2>8 DEF InOrder, DeviceFrames
  <2>10. /\ q[1] \in Nat
         /\ \A f \in LiveFrames : f \in Int
    <3>1. \A f \in QueuedFrames : f \in Int
      BY DEF QueuedFrames
    <3>2. \A f \in DeviceFrames : f \in Int
      BY <2>3 DEF DeviceFrames
    <3> QED
      BY <2>2, <2>3, <3>1, <3>2 DEF LiveFrames, StagedFrames, HeldFrames
  <2>11. \A f \in LiveFrames : q[1] <= f
    BY <2>9, <2>10 DEF LiveFrames
  <2>12. \A f \in StagedFrames \cup QueuedFrames \cup HeldFrames : f # q[1]
    BY <2>9, <2>10
  <2>13. LiveFrames' = LiveFrames \ {q[1]}
    BY <2>5, <2>6, <2>12 DEF LiveFrames
  <2>14. heard' = q[1] /\ q[1] \in LiveFrames
    BY <2>1, <2>2, <2>8 DEF LiveFrames
  <2> QED
    BY <2>1, <2>11, <2>13, <2>14 DEF Pipe!Next, Pipe!Hear
<1>31. ASSUME NEW n \in Batches, CallbackEnter(n) PROVE Pipe!Next
  BY <1>9, <1>31 DEF CallbackEnter
<1>32. CASE CallbackLock \/ CallbackNext \/ SubmitWait \/ WorkerSleep
  BY <1>9, <1>32 DEF CallbackLock, CallbackNext, SubmitWait, WorkerSleep
<1>33. ASSUME NEW op \in ControlNames, Begin(op) PROVE Pipe!Next
  BY <1>9, <1>33 DEF Begin
<1>34. CASE BeginShutdown \/ AwaitSleep \/ Retarget \/ Halted
  BY <1>9, <1>34 DEF BeginShutdown, AwaitSleep, Retarget, Halted, vars
<1>35. CASE UNCHANGED vars
  BY <1>9, <1>35 DEF vars
<1> QED
  BY <1>10, <1>11, <1>12, <1>13, <1>14, <1>15, <1>16, <1>17, <1>18, <1>19,
     <1>20, <1>21, <1>22, <1>24, <1>25, <1>26, <1>27, <1>28, <1>29, <1>30,
     <1>31, <1>32, <1>33, <1>34, <1>35
     DEF Next, Producer, Submit, Worker, Main

\* The engine implements the abstract pipe: what its threads, deque and
\* provider do to the frames is to produce, hear, lose and flush them, in the
\* order of their production and each at most once.
THEOREM PipeImplemented == Spec => ImplementsPipe
<1>1. Init => Pipe!Init
  <2> SUFFICES ASSUME Init PROVE Pipe!Init
    OBVIOUS
  <2>1. LiveFrames = {}
    BY DEF Init, LiveFrames, StagedFrames, Unsubmitted, QueuedFrames,
           DataCommands, HeldFrames, DeviceFrames, NoDevice
  <2> QED
    BY <2>1 DEF Init, Pipe!Init
<1>2. IndInv /\ SoundInv /\ FlushBarrier' /\ [Next]_vars
        => [Pipe!Next \/ rebuilt']_Pipe!vars
  <2> SUFFICES ASSUME IndInv, SoundInv, FlushBarrier', [Next]_vars, ~rebuilt'
               PROVE  Pipe!Next \/ UNCHANGED Pipe!vars
    OBVIOUS
  <2> QED
    BY PipeStep, ModesStay DEF Stay
<1> QED
  BY <1>1, <1>2, SoundInductive, FlushIsBarrier, PTL DEF Spec, ImplementsPipe

=============================================================================
