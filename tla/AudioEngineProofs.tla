------------------------- MODULE AudioEngineProofs -------------------------
(***************************************************************************)
(* Three invariants of the audio engine, proved for every value of the     *)
(* constants: its types, the capacity bound and the flush barrier.  The    *)
(* engine is the whole of AudioEngine's Next: with and without the worker, *)
(* with and without a core thread, sample rate changes included.           *)
(***************************************************************************)
EXTENDS AudioEngineProperties, FiniteSetTheorems, TLAPS

-----------------------------------------------------------------------------
(* The inductive invariant.                                                *)

\* Frames in a command.
Load(c) == IF IsData(c) THEN Size(c) ELSE 0

\* A Data command is not empty and fits the capacity.
GoodData(c) == IsData(c) => Size(c) \in 1..Capacity

\* The loads of the sequence s add up to total: sum[i] is the load of its
\* first i commands.
IsSum(sum, s, total) ==
  /\ sum[0] = 0 /\ sum[Len(s)] = total
  /\ \A i \in 1..Len(s) : sum[i] = sum[i - 1] + Load(s[i])
  /\ \A i, j \in 0..Len(s) : i <= j => sum[i] <= sum[j]

Carries(s, total) == \E sum \in [0..Len(s) -> 0..total] : IsSum(sum, s, total)

\* The chunk being submitted is not yet complete.
Chunking ==
  /\ staging <= produced
  /\ offset < chunk
  /\ ppc # "submit" => offset = 0
  /\ ~threaded => offset = 0
  /\ mpc \in {"create", "reset"} \/ buffer > 0

\* Loads: what the deque and the worker hold.
Loads ==
  /\ \A i \in DOMAIN commands : GoodData(commands[i])
  /\ Carries(commands, queued)
  /\ wpc = "submit" => IsData(wcmd) /\ GoodData(wcmd)
  /\ inFlight <= Capacity /\ queued + inFlight <= Capacity
  /\ wpc \notin {"submit", "submitted"} => inFlight = 0
  /\ ~threaded => commands = << >> /\ wpc = "none"

\* The control command main waits for is the only one, and until it is
\* acknowledged it is in the deque or in the worker's hands.
Executing == wpc \in {"execute", "publish", "ack"}

Awaited(c) ==
  mpc = "await" /\ c.id = mid /\ c.type = msend /\ ackedId < mid

Protocol ==
  /\ ackedId < nextId
  /\ mpc = "await" => mid < nextId
  /\ mpc \in {"erase", "stop", "send", "await"} => threaded
  /\ mpc = "direct" => ~threaded
  /\ \A i \in DOMAIN commands :
       IsControl(commands[i]) => Awaited(commands[i]) /\ ~Executing
  /\ \A i, j \in DOMAIN commands :
       IsControl(commands[i]) /\ IsControl(commands[j]) => i = j
  /\ Executing => Awaited(wcmd) /\ IsControl(wcmd)
  /\ wpc = "publish" => wcmd.type \in {"Pause", "Resume"}

\* Every frame on its way, place by place, is younger than frame m.
StagedAbove(m) == produced - staging + offset >= m
QueueAbove(m) ==
  \A i \in DOMAIN commands : IsData(commands[i]) => commands[i].lo > m
HeldAbove(m) == wpc = "submit" => wcmd.lo > m
DeviceAbove(m) == \A i \in DOMAIN device.queue : device.queue[i] > m

\* A flush empties the places in the order of the flow, so each stays empty
\* of old frames while the next is emptied: the staging, the deque, and with
\* the execution of the command the worker's hands and the provider.
Flushing == msend = "Flush"

Barrier ==
  /\ barrier <= mark /\ mark <= produced
  /\ StagedAbove(barrier) /\ QueueAbove(barrier)
  /\ HeldAbove(barrier) /\ DeviceAbove(barrier)
  /\ Flushing /\ mpc \in {"erase", "send", "await", "direct"} =>
       StagedAbove(mark)
  /\ Flushing /\ mpc \in {"send", "await"} => QueueAbove(mark)
  /\ Flushing /\ mpc = "await" /\ (wpc = "ack" \/ ackedId >= mid) =>
       HeldAbove(mark) /\ DeviceAbove(mark)

IndInv == TypeOK /\ Chunking /\ Loads /\ Protocol /\ Barrier

USE DEF modeVars, stageVars, dequeVars, idVars, lifeVars, opVars, mainVars,
        producerVars, workerVars, engineVars, countVars

-----------------------------------------------------------------------------
(* Lemmas about commands and the provider.                                 *)

\* A control command the engine builds is a command.
LEMMA ControlIsCommand ==
  ASSUME NEW type \in ControlTypes, NEW id \in Nat
  PROVE  /\ Control(type, id) \in Command
         /\ IsControl(Control(type, id)) /\ ~IsData(Control(type, id))
BY DEF Control, Command, ControlTypes, IsControl, IsData

\* The frames of a Data command are numbered from its lower to its upper end.
LEMMA DataIsCommand ==
  ASSUME NEW lo \in Nat, NEW hi \in Nat, lo <= hi
  PROVE  /\ Data(lo, hi) \in Command
         /\ IsData(Data(lo, hi)) /\ ~IsControl(Data(lo, hi))
         /\ Size(Data(lo, hi)) = hi - lo + 1
BY DEF Data, Command, ControlTypes, IsControl, IsData, Size

LEMMA FramesAreNumbers ==
  ASSUME NEW c \in Command
  PROVE  /\ Frames(c) \in Seq(Nat)
         /\ \A i \in DOMAIN Frames(c) : Frames(c)[i] >= c.lo
<1>1. c.lo \in Nat /\ c.hi \in Nat /\ Size(c) \in Int
  BY DEF Command, Size
<1>2. CASE Size(c) >= 0
  BY <1>1, <1>2 DEF Frames
<1>3. CASE Size(c) < 0
  BY <1>1, <1>3 DEF Frames
<1> QED
  BY <1>1, <1>2, <1>3

\* Every operation of the provider yields a device again.
LEMMA FreshDevice == NoDevice \in Device /\ DeviceCreate \in Device
<1>1. StartsAtOnce \in BOOLEAN /\ << >> \in Seq(Nat)
  BY DEF StartsAtOnce
<1>2. \A b \in BOOLEAN :
        [[open |-> FALSE, cancelled |-> FALSE, paused |-> FALSE,
          started |-> FALSE, starting |-> FALSE, running |-> FALSE,
          late |-> FALSE, queue |-> << >>]
           EXCEPT !.open = TRUE, !.started = b, !.running = b] \in Device
  BY <1>1 DEF Device
<1> QED
  BY <1>1, <1>2 DEF NoDevice, DeviceCreate, Device

LEMMA SubmittedDevice ==
  ASSUME NEW d \in Device, NEW frames \in Seq(Nat)
  PROVE  DeviceSubmit(d, frames) \in Device
<1>1. d.queue \o frames \in Seq(Nat)
  BY DEF Device
<1>2. \A start \in BOOLEAN :
        [d EXCEPT !.queue = d.queue \o frames, !.started = @ \/ start,
                  !.starting = start,
                  !.late = @ \/ (d.paused /\ ~d.started /\ ~start)] \in Device
  BY <1>1 DEF Device
<1> QED
  BY <1>2 DEF DeviceSubmit

LEMMA StartedDevice ==
  ASSUME NEW d \in Device
  PROVE  DeviceStart(d) \in Device /\ DeviceStart(d).queue = d.queue
BY DEF DeviceStart, Device

LEMMA ControlledDevice ==
  ASSUME NEW d \in Device
  PROVE  /\ DeviceFlush(d) \in Device /\ DeviceCancel(d) \in Device
         /\ DevicePause(d, TRUE) \in Device
         /\ DevicePause(d, FALSE) \in Device
<1>1. StartsAtOnce \in BOOLEAN /\ << >> \in Seq(Nat)
  BY DEF StartsAtOnce
<1>2. \A b \in BOOLEAN :
        [d EXCEPT !.queue = << >>, !.started = b, !.running = @ /\ b,
                  !.late = FALSE] \in Device
  BY <1>1 DEF Device
<1>3. DeviceFlush(d) \in Device
  BY <1>1, <1>2 DEF DeviceFlush
<1>4. DeviceCancel(d) \in Device
  BY DEF DeviceCancel, Device
<1>5. \A b \in BOOLEAN : DevicePause(d, b) \in Device
  BY DEF DevicePause, Device
<1> QED
  BY <1>3, <1>4, <1>5

LEMMA PlayedDevice ==
  ASSUME NEW d \in Device, d.queue # << >>
  PROVE  DevicePlay(d) \in Device /\ Head(d.queue) \in Nat
<1>1. Tail(d.queue) \in Seq(Nat) /\ Head(d.queue) \in Nat
  BY DEF Device
<1> QED
  BY <1>1 DEF DevicePlay, Device

LEMMA ExecutedIsDevice ==
  ASSUME device \in Device, NEW type \in ControlTypes
  PROVE  Executed(type) \in Device
<1>1. CASE type = "Flush"
  BY <1>1, ControlledDevice DEF Executed
<1>2. CASE type = "Pause"
  BY <1>2, ControlledDevice DEF Executed
<1>3. CASE type = "Resume"
  BY <1>3, ControlledDevice DEF Executed
<1>4. CASE type = "Stop"
  BY <1>4 DEF Executed
<1> QED
  BY <1>1, <1>2, <1>3, <1>4 DEF ControlTypes

\* The stages an operation starts with, and those that follow a command.
LEMMA StageIsStage ==
  ASSUME NEW op \in ControlNames \cup {"shutdown"}, NEW type \in ControlTypes
  PROVE  /\ FirstStage(op) \in {"send", "direct", "close", "unstage"}
         /\ FirstStage(op) = "send" => threaded /\ op = "resume"
         /\ FirstStage(op) = "direct" => ~threaded /\ op = "resume"
         /\ NextStage(type) \in {"send", "retarget", "destroy", "idle"}
         /\ NextStage(type) = "send" => type = "Flush" /\ mop = "pause"
<1>1. /\ FirstStage(op) \in {"send", "direct", "close", "unstage"}
      /\ FirstStage(op) = "send" => threaded /\ op = "resume"
      /\ FirstStage(op) = "direct" => ~threaded /\ op = "resume"
  BY DEF FirstStage, ControlNames
<1>2. /\ NextStage(type) \in {"send", "retarget", "destroy", "idle"}
      /\ NextStage(type) = "send" => type = "Flush" /\ mop = "pause"
  BY DEF NextStage, ControlTypes
<1> QED
  BY <1>1, <1>2

\* The front command's load is part of queued_frames: the pop's subtraction
\* of size_t values cannot wrap around.
LEMMA HeadIsCounted ==
  ASSUME TypeOK, Loads, commands # << >>, IsData(Head(commands))
  PROVE  Size(Head(commands)) \in 0..queued
<1>1. PICK sum \in [0..Len(commands) -> 0..queued] :
        IsSum(sum, commands, queued)
  BY DEF Loads, Carries
<1>2. Len(commands) \in Nat \ {0} /\ Head(commands) = commands[1]
  BY DEF TypeOK
<1>3. Size(Head(commands)) \in 1..Capacity
  BY <1>2 DEF Loads, GoodData, TypeOK
<1>4. sum[1] = sum[0] + Load(commands[1]) /\ sum[0] = 0
  BY <1>1, <1>2 DEF IsSum
<1>5. sum[1] \in 0..queued
  BY <1>1, <1>2
<1> QED
  BY <1>2, <1>3, <1>4, <1>5, EngineAssumption DEF Load

\* A flush finds no control command in the deque: it empties it.
LEMMA NothingRemains ==
  ASSUME NEW s \in Seq(Command), \A i \in DOMAIN s : ~IsControl(s[i])
  PROVE  Remaining(s) = << >>
<1>1. {i \in DOMAIN s : IsControl(s[i])} = {}
  OBVIOUS
<1>2. Cardinality({}) = 0
  BY FS_EmptySet
<1>3. Remaining(s) = [n \in 1..Cardinality({}) |-> Remaining(s)[n]]
  BY <1>1 DEF Remaining
<1> QED
  BY <1>2, <1>3

-----------------------------------------------------------------------------
(* Every step keeps the types. *)

LEMMA TypeStep ==
  ASSUME IndInv, [Next]_vars
  PROVE  TypeOK'
<1> USE DEF TypeOK, MainStages
<1>0. TypeOK /\ Chunking /\ Loads /\ Protocol
  BY DEF IndInv
<1>1. ASSUME NEW n \in Batches, CallbackEnter(n) PROVE TypeOK'
  BY <1>1, <1>0, EngineAssumption DEF CallbackEnter
<1>2. ASSUME NEW op \in ControlNames, Begin(op) PROVE TypeOK'
  <2>1. mpc' \in MainStages /\ mop' = op /\ msend' \in ControlTypes
    BY <1>2, <1>0, StageIsStage DEF Begin, ControlTypes
  <2>2. controls' \in Nat
    BY <1>2, <1>0 DEF Begin
  <2>3. /\ transition' \in BOOLEAN /\ ffwd' \in BOOLEAN
        /\ rebuilt' \in BOOLEAN /\ untold' \in BOOLEAN
    BY <1>2, <1>0, Zenon DEF Begin
  <2>4. wanted' \in Nat
    BY <1>2, <1>0, EngineAssumption DEF Begin
  <2> QED
    BY <1>2, <1>0, <2>1, <2>2, <2>3, <2>4 DEF Begin
<1>3. CASE CallbackLock
  BY <1>3, <1>0 DEF CallbackLock, Wake
<1>4. CASE CallbackStage
  BY <1>4, <1>0 DEF CallbackStage, Wake
<1>5. CASE CallbackNext
  BY <1>5, <1>0 DEF CallbackNext, Wake
<1>6. CASE SubmitPush
  <2>1. /\ Part \in Nat \ {0} /\ Part <= chunk - offset
        /\ Oldest \in Nat /\ Unstaged(chunk) \in Nat
    BY <1>6, <1>0, EngineAssumption
       DEF SubmitPush, Part, Oldest, Unstaged, Chunking
  <2> DEFINE lo == Oldest + offset
             hi == Oldest + offset + Part - 1
  <2>2. Data(lo, hi) \in Command
    <3>1. lo \in Nat /\ hi \in Nat /\ lo <= hi
      BY <2>1, <1>0
    <3> HIDE DEF lo, hi
    <3> QED
      BY <3>1, DataIsCommand
  <2>3. commands' \in Seq(Command)
    BY <1>6, <2>2, <1>0 DEF SubmitPush
  <2> QED
    BY <1>6, <1>0, <2>1, <2>3 DEF SubmitPush, Wake
<1>7. CASE SubmitWait
  BY <1>7, <1>0 DEF SubmitWait, Wake
<1>8. CASE SubmitRefused
  <2>1. Unstaged(chunk) \in Nat /\ chunk - offset \in Nat
    BY <1>8, <1>0 DEF SubmitRefused, Unstaged, Chunking
  <2> QED
    BY <1>8, <1>0, <2>1 DEF SubmitRefused
<1>9. CASE SubmitDirect
  <2> DEFINE c == Data(Oldest, Oldest + chunk - 1)
  <2>1. Oldest \in Nat /\ Unstaged(chunk) \in Nat
    BY <1>9, <1>0 DEF Oldest, Unstaged
  <2>2. c \in Command /\ Size(c) \in Nat
    <3> DEFINE hi == Oldest + chunk - 1
    <3>1. hi \in Nat /\ Oldest <= hi /\ hi - Oldest + 1 \in Nat
      BY <2>1, <1>0
    <3> HIDE DEF hi
    <3>2. Data(Oldest, hi) \in Command /\ Size(Data(Oldest, hi)) \in Nat
      BY <2>1, <3>1, DataIsCommand
    <3> QED
      BY <3>2 DEF hi
  <2> HIDE DEF c
  <2>3. DeviceSubmit(device, Frames(c)) \in Device
    BY <1>0, <2>2, FramesAreNumbers, SubmittedDevice
  <2>4. settled' \in Nat /\ dropped' \in Nat /\ device' \in Device
    BY <1>9, <1>0, <2>2, <2>3 DEF SubmitDirect, ProviderTakes, c
  <2> QED
    BY <1>9, <1>0, <2>1, <2>4 DEF SubmitDirect
<1>10. CASE WorkerSleep
  BY <1>10, <1>0 DEF WorkerSleep, Wake
<1>11. CASE WorkerPop
  <2>1. Head(commands) \in Command /\ Tail(commands) \in Seq(Command)
    BY <1>11, <1>0 DEF WorkerPop
  <2>2. ASSUME IsData(Head(commands))
        PROVE  Size(Head(commands)) \in 0..queued
    BY <1>11, <2>2, <1>0, HeadIsCounted DEF WorkerPop
  <2>3. queued' \in Nat /\ inFlight' \in Nat
    BY <1>11, <1>0, <2>2 DEF WorkerPop
  <2> QED
    BY <1>11, <1>0, <2>1, <2>3 DEF WorkerPop, Wake
<1>12. CASE WorkerSubmit
  <2>1. Size(wcmd) \in Nat
    BY <1>12, <1>0 DEF WorkerSubmit, Loads, GoodData
  <2>2. DeviceSubmit(device, Frames(wcmd)) \in Device
    BY <1>0, FramesAreNumbers, SubmittedDevice
  <2>3. settled' \in Nat /\ dropped' \in Nat /\ device' \in Device
    BY <1>12, <1>0, <2>1, <2>2 DEF WorkerSubmit, ProviderTakes
  <2> QED
    BY <1>12, <1>0, <2>3 DEF WorkerSubmit
<1>13. CASE WorkerSettle
  <2>1. device' \in Device
    BY <1>13, <1>0, StartedDevice DEF WorkerSettle
  <2> QED
    BY <1>13, <1>0, <2>1 DEF WorkerSettle, Wake
<1>14. CASE WorkerExecute
  <2>1. wcmd.type \in ControlTypes
    BY <1>14, <1>0 DEF WorkerExecute, Protocol, Executing, Awaited
  <2>2. device' \in Device
    BY <1>14, <1>0, <2>1, ExecutedIsDevice DEF WorkerExecute
  <2> QED
    BY <1>14, <1>0, <2>2 DEF WorkerExecute
<1>15. CASE WorkerPublish
  BY <1>15, <1>0 DEF WorkerPublish, Wake
<1>16. CASE WorkerAck
  <2>1. ackedId' \in Nat
    BY <1>16, <1>0 DEF WorkerAck, Command
  <2> QED
    BY <1>16, <1>0, <2>1 DEF WorkerAck, Wake
<1>17. CASE BeginShutdown
  <2>1. mpc' \in MainStages /\ mop' = "shutdown"
    BY <1>17, StageIsStage DEF BeginShutdown, ControlTypes
  <2>2. callbacks' \in BOOLEAN
    BY <1>17, Zenon DEF BeginShutdown
  <2> QED
    BY <1>17, <1>0, <2>1, <2>2 DEF BeginShutdown
<1>18. CASE FlushStaging
  BY <1>18, <1>0 DEF FlushStaging, ClearStaging, Wake
<1>19. CASE FlushErase
  <2>1. commands' = << >>
    BY <1>19, <1>0, NothingRemains DEF FlushErase, Protocol, Awaited
  <2> QED
    BY <1>19, <1>0, <2>1 DEF FlushErase, Wake
<1>20. CASE SendControl
  <2> DEFINE c == Control(msend, nextId)
  <2>1. c \in Command
    BY <1>0, ControlIsCommand
  <2>2. /\ Append(commands, c) \in Seq(Command)
        /\ <<c>> \o commands \in Seq(Command)
    BY <1>0, <2>1
  <2>3. commands' \in Seq(Command)
    BY <1>20, <2>2 DEF SendControl
  <2> QED
    BY <1>20, <1>0, <2>3 DEF SendControl, Wake
<1>21. CASE AwaitSleep
  BY <1>21, <1>0 DEF AwaitSleep, Wake
<1>22. CASE AwaitDone
  <2>1. mpc' \in MainStages /\ msend' \in ControlTypes
    BY <1>22, <1>0, StageIsStage DEF AwaitDone, ControlTypes
  <2> QED
    BY <1>22, <1>0, <2>1 DEF AwaitDone
<1>23. CASE DirectControl
  <2>1. device' \in Device
    BY <1>23, <1>0, ExecutedIsDevice DEF DirectControl
  <2>2. mpc' \in MainStages /\ msend' \in ControlTypes
    BY <1>23, <1>0, StageIsStage DEF DirectControl, ControlTypes
  <2>3. state' \in {"Stopped", "Running", "Paused", "Stopping"}
    BY <1>23, <1>0 DEF DirectControl
  <2> QED
    BY <1>23, <1>0, <2>1, <2>2, <2>3 DEF DirectControl
<1>24. CASE Retarget
  <2>1. Targets \subseteq Nat \ {0} /\ buffer \in Nat
    BY <1>0, EngineAssumption
  <2>2. /\ mpc' \in {"rebuffer", "idle"}
        /\ (target' \in Targets \/ target' = buffer)
    BY <1>24 DEF Retarget
  <2>3. buffer \in Nat \ {0}
    <3>1. mpc \notin {"create", "reset"}
      BY <1>24 DEF Retarget
    <3> QED
      BY <3>1, <2>1, <1>0 DEF Chunking
  <2>4. target' \in Nat \ {0}
    BY <2>1, <2>2, <2>3
  <2> QED
    BY <1>24, <1>0, <2>2, <2>4 DEF Retarget
<1>25. CASE CloseStaging
  BY <1>25, <1>0 DEF CloseStaging, ClearStaging, Wake
<1>26. CASE CloseCancel
  <2>1. device' \in Device
    BY <1>26, <1>0, ControlledDevice DEF CloseCancel
  <2> QED
    BY <1>26, <1>0, <2>1 DEF CloseCancel
<1>27. CASE CloseStop
  <2>1. commands' \in Seq(Command)
    BY <1>27 DEF CloseStop
  <2> QED
    BY <1>27, <1>0, <2>1 DEF CloseStop, Wake, ControlTypes
<1>28. CASE CloseDestroy
  <2>1. device' \in Device
    BY <1>28, FreshDevice DEF CloseDestroy
  <2> QED
    BY <1>28, <1>0, <2>1 DEF CloseDestroy
<1>29. CASE CloseRelease
  <2>1. mpc' \in MainStages
    BY <1>29 DEF CloseRelease
  <2>2. staging' \in Nat /\ backend' \in BOOLEAN
    BY <1>29 DEF CloseRelease
  <2> QED
    BY <1>29, <1>0, <2>1, <2>2 DEF CloseRelease
<1>30. CASE CreateBackend
  <2>1. device' \in Device
    BY <1>30, FreshDevice DEF CreateBackend
  <2> QED
    BY <1>30, <1>0, <2>1 DEF CreateBackend
<1>31. CASE ResetEngine
  <2>1. target' \in Nat \ {0} /\ buffer' \in Nat
    BY <1>31, <1>0, EngineAssumption DEF ResetEngine
  <2>2. commands' \in Seq(Command)
    BY <1>31 DEF ResetEngine
  <2> QED
    BY <1>31, <1>0, <2>1, <2>2 DEF ResetEngine
<1>32. CASE Play
  <2>1. device' \in Device /\ heard' \in Nat
    BY <1>32, <1>0, PlayedDevice DEF Play, CanPlay
  <2> QED
    BY <1>32, <1>0, <2>1 DEF Play
<1>33. CASE Halted
  BY <1>33, <1>0 DEF Halted, vars
<1>34. CASE UNCHANGED vars
  BY <1>34, <1>0 DEF vars, Wake
<1>35. CASE SubmitNowhere
  BY <1>35, <1>0 DEF SubmitNowhere, Unstaged
<1>36. CASE SubmitStart
  <2>1. device' \in Device
    BY <1>36, <1>0, StartedDevice DEF SubmitStart
  <2> QED
    BY <1>36, <1>0, <2>1 DEF SubmitStart
<1> QED
  BY <1>1, <1>2, <1>3, <1>4, <1>5, <1>6, <1>7, <1>8, <1>9, <1>10, <1>11,
     <1>12, <1>13, <1>14, <1>15, <1>16, <1>17, <1>18, <1>19, <1>20, <1>21,
     <1>22, <1>23, <1>24, <1>25, <1>26, <1>27, <1>28, <1>29, <1>30, <1>31,
     <1>32, <1>33, <1>34, <1>35, <1>36 DEF Next, Producer, Submit, Worker, Main

-----------------------------------------------------------------------------
(* Every step keeps the bookkeeping of the staging. *)

LEMMA ChunkingStep ==
  ASSUME IndInv, [Next]_vars
  PROVE  Chunking'
<1> USE DEF Chunking
<1>0. TypeOK /\ TypeOK' /\ Chunking
  BY TypeStep DEF IndInv
<1>1. CASE SubmitWait \/ WorkerSleep \/ WorkerPop \/ WorkerSubmit \/
   WorkerSettle \/ WorkerExecute \/ WorkerPublish \/ WorkerAck \/ AwaitSleep \/
   Play \/ Halted \/ UNCHANGED vars
  BY <1>1, <1>0 DEF SubmitWait, WorkerSleep, WorkerPop, WorkerSubmit,
     WorkerSettle, WorkerExecute, WorkerPublish, WorkerAck, AwaitSleep, Play,
     Halted, vars, TypeOK
<1>2. ASSUME NEW n \in Batches, CallbackEnter(n) PROVE Chunking'
  BY <1>2, <1>0 DEF CallbackEnter, TypeOK
<1>3. ASSUME NEW op \in ControlNames, Begin(op) PROVE Chunking'
  <2>1. mpc' \notin {"create", "reset"}
    BY <1>3, StageIsStage DEF Begin, ControlTypes
  <2>2. mpc \notin {"create", "reset"}
    BY <1>3 DEF Begin, MainIdle
  <2> QED
    BY <1>3, <1>0, <2>1, <2>2 DEF Begin, TypeOK
<1>4. CASE CallbackLock
  BY <1>4, <1>0 DEF CallbackLock, TypeOK
<1>5. CASE CallbackStage
  BY <1>5, <1>0 DEF CallbackStage, TypeOK
<1>6. CASE CallbackNext
  BY <1>6, <1>0 DEF CallbackNext, TypeOK
<1>7. CASE SubmitPush
  <2>1. /\ Part \in Nat \ {0} /\ Part <= chunk - offset
        /\ Unstaged(chunk) \in Nat /\ Unstaged(chunk) <= staging
    BY <1>7, <1>0, EngineAssumption DEF SubmitPush, Part, Unstaged, TypeOK
  <2> QED
    BY <1>7, <1>0, <2>1 DEF SubmitPush, TypeOK
<1>8. CASE SubmitRefused
  BY <1>8, <1>0 DEF SubmitRefused, Unstaged, TypeOK
<1>9. CASE SubmitDirect
  BY <1>9, <1>0 DEF SubmitDirect, Unstaged, TypeOK
<1>10. CASE BeginShutdown
  <2>1. mpc' \notin {"create", "reset"} /\ mpc \notin {"create", "reset"}
    BY <1>10, StageIsStage DEF BeginShutdown, MainIdle, ControlTypes
  <2> QED
    BY <1>10, <1>0, <2>1 DEF BeginShutdown, TypeOK
<1>11. CASE FlushStaging
  BY <1>11, <1>0 DEF FlushStaging, ClearStaging, TypeOK
<1>12. CASE FlushErase
  BY <1>12, <1>0 DEF FlushErase, TypeOK
<1>13. CASE SendControl
  BY <1>13, <1>0 DEF SendControl, TypeOK
<1>14. CASE AwaitDone
  BY <1>14, <1>0 DEF AwaitDone, TypeOK
<1>15. CASE DirectControl
  BY <1>15, <1>0 DEF DirectControl, TypeOK
<1>16. CASE Retarget
  BY <1>16, <1>0 DEF Retarget, TypeOK
<1>17. CASE CloseStaging
  BY <1>17, <1>0 DEF CloseStaging, ClearStaging, TypeOK
<1>18. CASE CloseCancel
  BY <1>18, <1>0 DEF CloseCancel, TypeOK
<1>19. CASE CloseStop
  BY <1>19, <1>0 DEF CloseStop, TypeOK
<1>20. CASE CloseDestroy
  BY <1>20, <1>0 DEF CloseDestroy, TypeOK
<1>21. CASE CloseRelease
  BY <1>21, <1>0 DEF CloseRelease, TypeOK
<1>22. CASE CreateBackend
  BY <1>22, <1>0 DEF CreateBackend, TypeOK
<1>23. CASE ResetEngine
  BY <1>23, <1>0 DEF ResetEngine, TypeOK
<1>24. CASE SubmitNowhere
  BY <1>24, <1>0 DEF SubmitNowhere, Unstaged, TypeOK
<1>25. CASE SubmitStart
  BY <1>25, <1>0 DEF SubmitStart, TypeOK
<1> QED
  BY <1>1, <1>2, <1>3, <1>4, <1>5, <1>6, <1>7, <1>8, <1>9, <1>10, <1>11, <1>12,
     <1>13, <1>14, <1>15, <1>16, <1>17, <1>18, <1>19, <1>20, <1>21, <1>22,
     <1>23, <1>24, <1>25 DEF Next, Producer, Submit, Worker, Main

-----------------------------------------------------------------------------
(* The sum of the loads, under the operations on the deque. *)

\* What the two ends of the deque add.
LEMMA AppendAt ==
  ASSUME NEW s \in Seq(Command), NEW c \in Command
  PROVE  \A i \in DOMAIN Append(s, c) :
           \/ i = Len(s) + 1 /\ Append(s, c)[i] = c
           \/ i \in DOMAIN s /\ Append(s, c)[i] = s[i]
<1> DEFINE t == Append(s, c)
<1>1. /\ Len(s) \in Nat /\ DOMAIN s = 1..Len(s)
      /\ DOMAIN t = 1..Len(s) + 1
      /\ t[Len(s) + 1] = c /\ \A i \in 1..Len(s) : t[i] = s[i]
  OBVIOUS
<1> HIDE DEF t
<1>2. \A i \in DOMAIN t : i = Len(s) + 1 \/ i \in 1..Len(s)
  BY <1>1
<1>3. \A i \in DOMAIN t :
        \/ i = Len(s) + 1 /\ t[i] = c
        \/ i \in DOMAIN s /\ t[i] = s[i]
  BY <1>1, <1>2
<1> QED
  BY <1>3 DEF t

LEMMA ConsAt ==
  ASSUME NEW s \in Seq(Command), NEW c \in Command
  PROVE  \A i \in DOMAIN (<<c>> \o s) :
           \/ i = 1 /\ (<<c>> \o s)[i] = c
           \/ i - 1 \in DOMAIN s /\ (<<c>> \o s)[i] = s[i - 1]
<1> DEFINE t == <<c>> \o s
<1>1. /\ Len(s) \in Nat /\ DOMAIN s = 1..Len(s)
      /\ DOMAIN t = 1..Len(s) + 1
      /\ t[1] = c /\ \A i \in 2..Len(s) + 1 : t[i] = s[i - 1]
  OBVIOUS
<1> HIDE DEF t
<1>2. \A i \in DOMAIN t : i = 1 \/ (i \in 2..Len(s) + 1 /\ i - 1 \in 1..Len(s))
  BY <1>1
<1>3. \A i \in DOMAIN t :
        \/ i = 1 /\ t[i] = c
        \/ i - 1 \in DOMAIN s /\ t[i] = s[i - 1]
  BY <1>1, <1>2
<1> QED
  BY <1>3 DEF t

LEMMA LoadIsInt ==
  ASSUME NEW c \in Command
  PROVE  Load(c) \in Int
BY DEF Load, Size, Command

LEMMA EmptyCarries == Carries(<< >>, 0)
<1> DEFINE sum == [i \in 0..0 |-> 0]
<1>1. sum \in [0..Len(<< >>) -> 0..0]
  OBVIOUS
<1>2. IsSum(sum, << >>, 0)
  BY DEF IsSum
<1> QED
  BY <1>1, <1>2 DEF Carries

LEMMA PushCarries ==
  ASSUME NEW s \in Seq(Command), NEW total \in Nat, Carries(s, total),
         NEW c \in Command, Load(c) \in Nat
  PROVE  Carries(Append(s, c), total + Load(c))
<1>1. PICK sum \in [0..Len(s) -> 0..total] : IsSum(sum, s, total)
  BY DEF Carries
<1> DEFINE n == Len(s)
           t == Append(s, c)
           new == [i \in 0..n + 1 |-> IF i <= n THEN sum[i]
                                              ELSE total + Load(c)]
<1>2. n \in Nat /\ t \in Seq(Command) /\ Len(t) = n + 1
      /\ t[n + 1] = c /\ \A i \in 1..n : t[i] = s[i]
  OBVIOUS
<1>3. \A i \in 0..n : sum[i] \in 0..total
  BY <1>2
<1> HIDE DEF n, t
<1>4. new \in [0..n + 1 -> 0..total + Load(c)]
  BY <1>2, <1>3
<1>5. new[0] = 0 /\ new[n + 1] = total + Load(c)
  BY <1>1, <1>2 DEF IsSum
<1>6. \A i \in 1..n + 1 : new[i] = new[i - 1] + Load(t[i])
  <2>1. ASSUME NEW i \in 1..n PROVE new[i] = new[i - 1] + Load(t[i])
    <3>1. i \in 0..n + 1 /\ i - 1 \in 0..n + 1 /\ i <= n /\ i - 1 <= n
      BY <1>2
    <3>2. new[i] = sum[i] /\ new[i - 1] = sum[i - 1]
      BY <3>1
    <3> QED
      BY <3>2, <1>1, <1>2 DEF IsSum, n
  <2>2. new[n + 1] = new[n] + Load(t[n + 1])
    BY <1>1, <1>2, <1>3 DEF IsSum, n
  <2>3. (n + 1) - 1 = n
    BY <1>2
  <2> HIDE DEF new
  <2> SUFFICES ASSUME NEW i \in 1..n + 1
               PROVE  new[i] = new[i - 1] + Load(t[i])
    OBVIOUS
  <2>4. CASE i \in 1..n
    BY <2>1, <2>4
  <2>5. CASE i = n + 1
    BY <2>2, <2>3, <2>5
  <2>6. i \in 1..n \/ i = n + 1
    BY <1>2
  <2> QED
    BY <2>4, <2>5, <2>6
<1>7. \A i, j \in 0..n + 1 : i <= j => new[i] <= new[j]
  BY <1>1, <1>2, <1>3 DEF IsSum, n
<1> QED
  BY <1>2, <1>4, <1>5, <1>6, <1>7 DEF Carries, IsSum, t

LEMMA PopCarries ==
  ASSUME NEW s \in Seq(Command), NEW total \in Nat, Carries(s, total),
         s # << >>
  PROVE  Carries(Tail(s), total - Load(Head(s)))
<1>1. PICK sum \in [0..Len(s) -> 0..total] : IsSum(sum, s, total)
  BY DEF Carries
<1> DEFINE n == Len(s)
           t == Tail(s)
           new == [i \in 0..n - 1 |-> sum[i + 1] - sum[1]]
<1>2. n \in Nat \ {0} /\ Len(t) = n - 1 /\ \A i \in 1..n - 1 : t[i] = s[i + 1]
  OBVIOUS
<1>3. \A i \in 0..n : sum[i] \in 0..total
  BY <1>2
<1>4. sum[1] = Load(Head(s))
  <2>1. sum[1] = sum[1 - 1] + Load(s[1]) /\ sum[0] = 0
    BY <1>1, <1>2 DEF IsSum
  <2>2. Head(s) = s[1] /\ s[1] \in Command
    BY <1>2
  <2> QED
    BY <2>1, <2>2, LoadIsInt
<1> HIDE DEF n, t
<1>5. \A i, j \in 0..n : i <= j => sum[i] <= sum[j]
  BY <1>1 DEF IsSum, n
<1>6. new \in [0..n - 1 -> 0..total - sum[1]]
  BY <1>2, <1>3, <1>5
<1>7. new[0] = 0 /\ new[n - 1] = total - sum[1]
  BY <1>1, <1>2, <1>3 DEF IsSum, n
<1>8. \A i \in 1..n - 1 : new[i] = new[i - 1] + Load(t[i])
  <2>1. ASSUME NEW i \in 1..n - 1 PROVE new[i] = new[i - 1] + Load(t[i])
    <3>1. i + 1 \in 1..n /\ i \in 0..n /\ i - 1 \in 0..n - 1
      BY <1>2
    <3>2. sum[i + 1] = sum[(i + 1) - 1] + Load(s[i + 1])
      BY <1>1, <3>1 DEF IsSum, n
    <3>3. sum[i + 1] \in Int /\ sum[i] \in Int /\ sum[1] \in Int
      BY <1>2, <1>3, <3>1
    <3>4. t[i] = s[i + 1] /\ Load(t[i]) \in Int
      BY <1>2, <3>1, LoadIsInt DEF n
    <3>5. sum[i + 1] - sum[1] = (sum[i] - sum[1]) + Load(t[i])
      BY <3>1, <3>2, <3>3, <3>4
    <3>6. new[i] = sum[i + 1] - sum[1] /\ new[i - 1] = sum[i] - sum[1]
      BY <3>1
    <3> QED
      BY <3>5, <3>6
  <2> QED
    BY <2>1
<1>9. \A i, j \in 0..n - 1 : i <= j => new[i] <= new[j]
  <2>1. ASSUME NEW i \in 0..n - 1, NEW j \in 0..n - 1, i <= j
        PROVE  new[i] <= new[j]
    <3>1. i + 1 \in 0..n /\ j + 1 \in 0..n /\ i + 1 <= j + 1 /\ 1 \in 0..n
      BY <1>2, <2>1
    <3>2. /\ sum[i + 1] \in Int /\ sum[j + 1] \in Int /\ sum[1] \in Int
          /\ sum[i + 1] <= sum[j + 1]
      BY <1>3, <1>5, <3>1
    <3>3. new[i] = sum[i + 1] - sum[1] /\ new[j] = sum[j + 1] - sum[1]
      OBVIOUS
    <3> QED
      BY <3>2, <3>3
  <2> QED
    BY <2>1
<1> QED
  BY <1>2, <1>4, <1>6, <1>7, <1>8, <1>9 DEF Carries, IsSum, t

LEMMA ConsCarries ==
  ASSUME NEW s \in Seq(Command), NEW total \in Nat, Carries(s, total),
         NEW c \in Command, Load(c) = 0
  PROVE  Carries(<<c>> \o s, total)
<1>1. PICK sum \in [0..Len(s) -> 0..total] : IsSum(sum, s, total)
  BY DEF Carries
<1> DEFINE n == Len(s)
           t == <<c>> \o s
           new == [i \in 0..n + 1 |-> IF i = 0 THEN 0 ELSE sum[i - 1]]
<1>2. n \in Nat /\ Len(t) = n + 1 /\ t[1] = c
      /\ \A i \in 2..n + 1 : t[i] = s[i - 1]
  OBVIOUS
<1>3. \A i \in 0..n : sum[i] \in 0..total
  BY <1>2
<1> HIDE DEF n, t
<1>4. new \in [0..n + 1 -> 0..total]
  BY <1>2, <1>3
<1>5. new[0] = 0 /\ new[n + 1] = total /\ new[1] = 0
  BY <1>1, <1>2 DEF IsSum, n
<1>6. \A i \in 1..n + 1 : new[i] = new[i - 1] + Load(t[i])
  <2>1. ASSUME NEW i \in 2..n + 1 PROVE new[i] = new[i - 1] + Load(t[i])
    <3>1. i - 1 \in 1..n /\ i - 2 \in 0..n
      BY <1>2
    <3>2. sum[i - 1] = sum[(i - 1) - 1] + Load(s[i - 1])
      BY <1>1, <3>1 DEF IsSum, n
    <3> QED
      BY <1>2, <3>1, <3>2
  <2>2. new[1] = new[0] + Load(t[1])
    BY <1>2, <1>5
  <2>3. \A i \in 1..n + 1 : i \in 2..n + 1 \/ i = 1
    BY <1>2
  <2> DEFINE Adds(i) == new[i] = new[i - 1] + Load(t[i])
  <2>4. \A i \in 2..n + 1 : Adds(i)
    BY <2>1
  <2>5. Adds(1)
    BY <2>2
  <2> HIDE DEF Adds
  <2>6. \A i \in 1..n + 1 : Adds(i)
    BY <2>3, <2>4, <2>5
  <2> QED
    BY <2>6 DEF Adds
<1>7. \A i, j \in 0..n + 1 : i <= j => new[i] <= new[j]
  BY <1>1, <1>2, <1>3 DEF IsSum, n
<1>8. IsSum(new, t, total)
  <2> HIDE DEF new
  <2> QED
    BY <1>2, <1>5, <1>6, <1>7 DEF IsSum
<1>9. new \in [0..Len(t) -> 0..total]
  BY <1>2, <1>4
<1> QED
  BY <1>8, <1>9, Zenon DEF Carries, t

-----------------------------------------------------------------------------
(* Every step keeps the accounts of the deque and of the frames in flight. *)

LEMMA LoadsStep ==
  ASSUME IndInv, [Next]_vars
  PROVE  Loads'
<1> USE DEF Loads
<1>0. TypeOK /\ TypeOK' /\ Chunking /\ Loads /\ Protocol
  BY TypeStep DEF IndInv
<1>1. CASE CallbackLock \/ CallbackStage \/ CallbackNext \/ SubmitNowhere \/
   SubmitWait \/ SubmitRefused \/ SubmitDirect \/ SubmitStart \/
   WorkerSleep \/ BeginShutdown \/
   FlushStaging \/ AwaitSleep \/ AwaitDone \/ DirectControl \/ Retarget \/
   CloseStaging \/ CloseCancel \/ CloseDestroy \/ CloseRelease \/ CreateBackend
   \/ Play \/ Halted \/ UNCHANGED vars
  BY <1>1, <1>0 DEF CallbackLock, CallbackStage, CallbackNext,
     SubmitNowhere, SubmitWait, SubmitRefused, SubmitDirect, SubmitStart,
     WorkerSleep, BeginShutdown, FlushStaging,
     ClearStaging, AwaitSleep, AwaitDone, DirectControl, Retarget,
     CloseStaging, CloseCancel, CloseDestroy, CloseRelease, CreateBackend,
     Play, Halted, vars
<1>2. ASSUME NEW n \in Batches, CallbackEnter(n) PROVE Loads'
  BY <1>2, <1>0 DEF CallbackEnter
<1>3. ASSUME NEW op \in ControlNames, Begin(op) PROVE Loads'
  BY <1>3, <1>0 DEF Begin
<1>4. CASE SubmitPush
  <2> DEFINE lo == Oldest + offset
             hi == Oldest + offset + Part - 1
             c == Data(lo, hi)
  <2>1. /\ Part \in Nat \ {0} /\ Part <= Capacity /\ Oldest \in Nat
        /\ queued + inFlight + Part <= Capacity
    BY <1>4, <1>0, EngineAssumption
       DEF SubmitPush, Fits, Part, Oldest, TypeOK, Chunking
  <2>2. lo \in Nat /\ hi \in Nat /\ lo <= hi /\ hi - lo + 1 = Part
    BY <2>1, <1>0 DEF TypeOK
  <2>3. c \in Command /\ IsData(c) /\ Size(c) = Part
    <3> HIDE DEF lo, hi
    <3> QED
      BY <2>2, DataIsCommand
  <2>4. commands' = Append(commands, c) /\ queued' = queued + Load(c)
    BY <1>4, <2>3 DEF SubmitPush, Load
  <2> HIDE DEF c
  <2>5. Carries(commands', queued')
    BY <1>0, <2>1, <2>3, <2>4, PushCarries DEF TypeOK, Load
  <2>6. \A i \in DOMAIN commands' : GoodData(commands'[i])
    <3>1. commands \in Seq(Command) /\ Capacity \in Nat
      BY <1>0, EngineAssumption DEF TypeOK
    <3>2. \A i \in DOMAIN commands' :
            \/ commands'[i] = c
            \/ \E j \in DOMAIN commands : commands'[i] = commands[j]
      BY <2>3, <2>4, <3>1, AppendAt
    <3>3. GoodData(c)
      BY <2>1, <2>3, <3>1 DEF GoodData
    <3> QED
      BY <1>0, <3>2, <3>3
  <2>7. queued' + inFlight' <= Capacity
    BY <1>4, <1>0, <2>1, <2>3, <2>4 DEF SubmitPush, TypeOK, Load
  <2> QED
    BY <1>4, <1>0, <2>5, <2>6, <2>7 DEF SubmitPush
<1>5. CASE WorkerPop
  <2>1. commands # << >> /\ commands \in Seq(Command) /\ wpc = "wait"
    BY <1>5, <1>0 DEF WorkerPop, TypeOK
  <2>2. /\ Head(commands) \in Command /\ Head(commands) = commands[1]
        /\ 1 \in DOMAIN commands
        /\ \A i \in DOMAIN Tail(commands) :
             i + 1 \in DOMAIN commands /\ Tail(commands)[i] = commands[i + 1]
    BY <2>1
  <2>3. \A i \in DOMAIN commands' : GoodData(commands'[i])
    BY <1>5, <1>0, <2>2 DEF WorkerPop
  <2>4. queued' = queued - Load(Head(commands))
    BY <1>5, <1>0 DEF WorkerPop, Load, TypeOK
  <2>5. Carries(commands', queued')
    BY <1>5, <1>0, <2>1, <2>4, PopCarries DEF WorkerPop, TypeOK
  <2>6. CASE IsData(Head(commands))
    <3>1. Size(Head(commands)) \in 1..Capacity
      BY <1>0, <2>2, <2>6 DEF GoodData
    <3>2. queued + inFlight <= Capacity /\ inFlight = 0
      BY <1>0, <2>1
    <3>3. queued' = queued - Size(Head(commands))
          /\ inFlight' = Size(Head(commands)) /\ wpc' = "submit"
          /\ wcmd' = Head(commands) /\ threaded' = threaded
      BY <1>5, <2>6 DEF WorkerPop
    <3>4. inFlight' <= Capacity /\ queued' + inFlight' <= Capacity
      <4>1. queued \in Nat /\ Capacity \in Nat
        BY <1>0, EngineAssumption DEF TypeOK
      <4> QED
        BY <4>1, <3>1, <3>2, <3>3
    <3> QED
      BY <1>0, <2>1, <2>3, <2>5, <2>6, <3>1, <3>3, <3>4 DEF GoodData
  <2>7. CASE ~IsData(Head(commands))
    BY <1>5, <1>0, <2>1, <2>3, <2>5, <2>7 DEF WorkerPop
  <2> QED
    BY <2>6, <2>7
<1>6. CASE WorkerSubmit
  BY <1>6, <1>0 DEF WorkerSubmit
<1>7. CASE WorkerSettle
  <2>1. queued \in Nat /\ inFlight \in Nat /\ Capacity \in Nat
    BY <1>0, EngineAssumption DEF TypeOK
  <2> QED
    BY <1>7, <1>0, <2>1 DEF WorkerSettle
<1>8. CASE WorkerExecute
  BY <1>8, <1>0 DEF WorkerExecute
<1>9. CASE WorkerPublish
  BY <1>9, <1>0 DEF WorkerPublish
<1>10. CASE WorkerAck
  BY <1>10, <1>0 DEF WorkerAck
<1>11. CASE FlushErase
  <2>1. commands' = << >>
    BY <1>11, <1>0, NothingRemains DEF FlushErase, Protocol, Awaited, TypeOK
  <2>2. Carries(commands', queued')
    BY <1>11, <2>1, EmptyCarries DEF FlushErase
  <2> QED
    BY <1>11, <1>0, <2>1, <2>2 DEF FlushErase, TypeOK
<1>12. CASE SendControl
  <2> DEFINE c == Control(msend, nextId)
  <2>1. c \in Command /\ ~IsData(c) /\ Load(c) = 0
    BY <1>0, ControlIsCommand DEF TypeOK, Load
  <2> HIDE DEF c
  <2>2. commands \in Seq(Command) /\ queued \in Nat
    BY <1>0 DEF TypeOK
  <2>3. /\ Carries(Append(commands, c), queued + Load(c))
        /\ queued + Load(c) = queued
    BY <1>0, <2>1, <2>2, PushCarries
  <2>4. Carries(<<c>> \o commands, queued)
    BY <1>0, <2>1, <2>2, ConsCarries
  <2>5. /\ commands' = <<c>> \o commands \/ commands' = Append(commands, c)
        /\ queued' = queued
    BY <1>12 DEF SendControl, c
  <2>6. Carries(commands', queued')
    BY <2>3, <2>4, <2>5
  <2>7. \A i \in DOMAIN commands' :
          \/ commands'[i] = c
          \/ \E j \in DOMAIN commands : commands'[i] = commands[j]
    <3>1. CASE commands' = <<c>> \o commands
      BY <2>1, <2>2, <3>1, ConsAt
    <3>2. CASE commands' = Append(commands, c)
      BY <2>1, <2>2, <3>2, AppendAt
    <3> QED
      BY <2>5, <3>1, <3>2
  <2>8. \A i \in DOMAIN commands' : GoodData(commands'[i])
    BY <1>0, <2>1, <2>7 DEF GoodData
  <2> QED
    BY <1>12, <1>0, <2>6, <2>8 DEF SendControl, Protocol
<1>13. CASE CloseStop
  <2>1. Carries(commands', queued') /\ commands' = << >>
    BY <1>13, EmptyCarries DEF CloseStop
  <2> QED
    BY <1>13, <1>0, <2>1 DEF CloseStop, TypeOK
<1>14. CASE ResetEngine
  <2>1. Carries(commands', queued') /\ commands' = << >>
    BY <1>14, EmptyCarries DEF ResetEngine
  <2> QED
    BY <1>14, <1>0, <2>1, EngineAssumption DEF ResetEngine, TypeOK
<1> QED
  BY <1>1, <1>2, <1>3, <1>4, <1>5, <1>6, <1>7, <1>8, <1>9, <1>10, <1>11, <1>12,
     <1>13, <1>14 DEF Next, Producer, Submit, Worker, Main

-----------------------------------------------------------------------------
(* Every step keeps the protocol between main and the worker. *)

LEMMA ProtocolStep ==
  ASSUME IndInv, [Next]_vars
  PROVE  Protocol'
<1> USE DEF Protocol, Awaited, Executing
<1>0. TypeOK /\ Loads /\ Protocol
  BY DEF IndInv
<1>1. CASE CallbackLock \/ CallbackStage \/ CallbackNext \/ SubmitNowhere \/
   SubmitWait \/ SubmitRefused \/ SubmitDirect \/ SubmitStart \/
   WorkerSleep \/ WorkerSubmit \/ WorkerSettle
   \/ WorkerExecute \/ WorkerPublish \/ AwaitSleep \/ Play \/ Halted \/
   UNCHANGED vars
  BY <1>1, <1>0 DEF CallbackLock, CallbackStage, CallbackNext,
     SubmitNowhere, SubmitWait, SubmitRefused, SubmitDirect, SubmitStart,
     WorkerSleep, WorkerSubmit, WorkerSettle,
     WorkerExecute, WorkerPublish, AwaitSleep, Play, Halted, vars
<1>2. CASE FlushStaging \/ Retarget \/ CloseStaging \/ CloseCancel \/
   CloseDestroy \/ CloseRelease \/ CreateBackend
  BY <1>2, <1>0 DEF FlushStaging, ClearStaging, Retarget, CloseStaging,
     CloseCancel, CloseDestroy, CloseRelease, CreateBackend
<1>3. ASSUME NEW n \in Batches, CallbackEnter(n) PROVE Protocol'
  BY <1>3, <1>0 DEF CallbackEnter
<1>4. ASSUME NEW op \in ControlNames, Begin(op) PROVE Protocol'
  <2>1. /\ mpc' \in {"idle", "send", "direct", "close", "unstage"}
        /\ mpc' = "send" => threaded
        /\ mpc' = "direct" => ~threaded
    BY <1>4, StageIsStage DEF Begin, ControlTypes
  <2>2. mpc = "idle"
    BY <1>4 DEF Begin, MainIdle
  <2> QED
    BY <1>4, <1>0, <2>1, <2>2 DEF Begin
<1>5. CASE SubmitPush
  <2> DEFINE lo == Oldest + offset
             hi == Oldest + offset + Part - 1
             c == Data(lo, hi)
  <2>1. c.type = "Data" /\ ~IsControl(c)
    BY DEF Data, IsControl
  <2>2. commands' = Append(commands, c)
    BY <1>5 DEF SubmitPush
  <2> HIDE DEF c
  <2>3. \A i \in DOMAIN commands' :
          IsControl(commands'[i]) =>
            i \in DOMAIN commands /\ commands'[i] = commands[i]
    <3>1. commands \in Seq(Command) /\ DOMAIN commands' = 1..Len(commands) + 1
          /\ commands'[Len(commands) + 1] = c
          /\ Len(commands) \in Nat /\ DOMAIN commands = 1..Len(commands)
          /\ \A i \in 1..Len(commands) : commands'[i] = commands[i]
      BY <1>0, <2>2 DEF TypeOK
    <3> QED
      BY <2>1, <3>1
  <2>4. UNCHANGED <<ackedId, nextId, mpc, mid, msend, threaded, wpc, wcmd>>
    BY <1>5 DEF SubmitPush
  <2> QED
    BY <1>0, <2>3, <2>4
<1>6. CASE WorkerPop
  <2>1. commands # << >> /\ commands \in Seq(Command) /\ wpc = "wait"
    BY <1>6, <1>0 DEF WorkerPop, TypeOK
  <2>2. /\ Head(commands) = commands[1] /\ 1 \in DOMAIN commands
        /\ \A i \in DOMAIN Tail(commands) :
             /\ i + 1 \in DOMAIN commands /\ i + 1 # 1 /\ i \in Int
             /\ Tail(commands)[i] = commands[i + 1]
    BY <2>1
  <2>3. /\ commands' = Tail(commands) /\ wcmd' = commands[1]
        /\ UNCHANGED <<ackedId, nextId, mpc, mid, msend, threaded>>
    BY <1>6, <2>2 DEF WorkerPop
  <2>4. CASE IsControl(commands[1])
    <3>1. \A i \in DOMAIN commands' : ~IsControl(commands'[i])
      BY <1>0, <2>2, <2>3, <2>4
    <3>2. wpc' = "execute"
      BY <1>6, <2>2, <2>4 DEF WorkerPop, IsControl, IsData
    <3> QED
      BY <1>0, <2>2, <2>3, <2>4, <3>1, <3>2
  <2>5. CASE ~IsControl(commands[1])
    <3>1. ~Executing /\ ~Executing'
      BY <1>6, <2>1, <2>2, <2>5 DEF WorkerPop, IsControl, IsData
    <3>2. \A i \in DOMAIN commands' :
            IsControl(commands'[i]) => Awaited(commands[i + 1])
      BY <1>0, <2>2, <2>3
    <3>3. \A i, j \in DOMAIN commands' :
            IsControl(commands'[i]) /\ IsControl(commands'[j]) => i = j
      <4>1. ASSUME NEW i \in DOMAIN commands', NEW j \in DOMAIN commands',
                   IsControl(commands'[i]), IsControl(commands'[j])
            PROVE  i = j
        <5>1. i + 1 = j + 1
          BY <1>0, <2>2, <2>3, <4>1
        <5> QED
          BY <2>2, <2>3, <5>1
      <4> QED
        BY <4>1
    <3> QED
      BY <1>0, <2>2, <2>3, <3>1, <3>2, <3>3
  <2> QED
    BY <2>4, <2>5
<1>7. CASE WorkerAck
  <2>1. Executing /\ ~Executing' /\ wcmd.id = mid /\ mid \in Nat
    BY <1>7, <1>0 DEF WorkerAck, TypeOK
  <2>2. \A i \in DOMAIN commands : ~IsControl(commands[i])
    BY <1>0, <2>1
  <2>3. ackedId' < nextId'
    BY <1>7, <1>0, <2>1 DEF WorkerAck, TypeOK
  <2>4. UNCHANGED <<commands, nextId, mpc, mid, msend, threaded>>
    BY <1>7 DEF WorkerAck
  <2> QED
    BY <1>0, <2>1, <2>2, <2>3, <2>4
<1>8. CASE BeginShutdown
  <2>1. /\ mpc' \in {"direct", "close", "unstage", "send"} /\ mpc = "idle"
        /\ mpc' = "send" => threaded
        /\ mpc' = "direct" => ~threaded
    BY <1>8, StageIsStage DEF BeginShutdown, MainIdle, ControlTypes
  <2> QED
    BY <1>8, <1>0, <2>1 DEF BeginShutdown
<1>9. CASE FlushErase
  <2>1. commands' = << >> /\ mpc = "erase"
    BY <1>9, <1>0, NothingRemains DEF FlushErase, TypeOK
  <2> QED
    BY <1>9, <1>0, <2>1 DEF FlushErase
<1>10. CASE SendControl
  <2> DEFINE c == Control(msend, nextId)
  <2>1. /\ c \in Command /\ IsControl(c) /\ commands \in Seq(Command)
        /\ nextId \in Nat /\ c.id = nextId /\ c.type = msend
    BY <1>0, ControlIsCommand DEF TypeOK, Control
  <2>2. /\ mpc = "send" /\ (\A i \in DOMAIN commands : ~IsControl(commands[i]))
        /\ ~Executing
    BY <1>10, <1>0 DEF SendControl
  <2>3. /\ commands' = <<c>> \o commands \/ commands' = Append(commands, c)
        /\ mid' = nextId /\ nextId' = nextId + 1 /\ mpc' = "await"
        /\ UNCHANGED <<ackedId, msend, threaded, wpc, wcmd>>
    BY <1>10 DEF SendControl
  <2> HIDE DEF c
  <2>4. \E k : \A i \in DOMAIN commands' :
          IsControl(commands'[i]) => i = k /\ commands'[i] = c
    <3>1. CASE commands' = <<c>> \o commands
      <4>1. \A i \in DOMAIN commands' :
              IsControl(commands'[i]) => i = 1 /\ commands'[i] = c
        BY <2>1, <2>2, <3>1, ConsAt
      <4> QED
        BY <4>1
    <3>2. CASE commands' = Append(commands, c)
      <4>1. \A i \in DOMAIN commands' :
              IsControl(commands'[i]) =>
                i = Len(commands) + 1 /\ commands'[i] = c
        BY <2>1, <2>2, <3>2, AppendAt
      <4> QED
        BY <4>1
    <3> QED
      BY <2>3, <3>1, <3>2
  <2>5. /\ mpc' = "await" /\ c.id = mid' /\ c.type = msend'
        /\ ackedId' < mid' /\ mid' < nextId' /\ ackedId' < nextId'
        /\ ~Executing'
    BY <1>0, <2>1, <2>2, <2>3 DEF TypeOK
  <2>6. threaded'
    BY <1>0, <2>2, <2>3
  <2> QED
    BY <2>4, <2>5, <2>6
<1>11. CASE AwaitDone
  <2>1. mpc' \in {"send", "retarget", "destroy", "idle"} /\ mpc = "await"
    BY <1>11, <1>0, StageIsStage DEF AwaitDone, TypeOK
  <2>2. ~(ackedId < mid)
    BY <1>11, <1>0 DEF AwaitDone, Acknowledged, TypeOK
  <2> QED
    BY <1>11, <1>0, <2>1, <2>2 DEF AwaitDone
<1>12. CASE DirectControl
  <2>1. mpc' \in {"direct", "retarget", "destroy", "idle"} /\ mpc = "direct"
    BY <1>12, <1>0, StageIsStage DEF DirectControl, TypeOK
  <2> QED
    BY <1>12, <1>0, <2>1 DEF DirectControl
<1>13. CASE CloseStop
  <2>1. commands' = << >> /\ mpc = "stop" /\ mpc' = "send"
    BY <1>13 DEF CloseStop
  <2> QED
    BY <1>13, <1>0, <2>1 DEF CloseStop
<1>14. CASE ResetEngine
  <2>1. commands' = << >> /\ mpc = "reset" /\ mpc' = "idle" /\ ~Executing'
    BY <1>14 DEF ResetEngine
  <2> QED
    BY <1>14, <1>0, <2>1 DEF ResetEngine
<1> QED
  BY <1>1, <1>2, <1>3, <1>4, <1>5, <1>6, <1>7, <1>8, <1>9, <1>10, <1>11, <1>12,
     <1>13, <1>14 DEF Next, Producer, Submit, Worker, Main

-----------------------------------------------------------------------------
(* Every step keeps the flush barrier. *)

\* Erasing the submitted chunk leaves younger frames staged.
LEMMA UnstagingAbove ==
  ASSUME TypeOK, Chunking, NEW m \in Nat, StagedAbove(m), m <= produced,
         staging' = Unstaged(chunk), offset' = 0, produced' = produced
  PROVE  produced' - staging' + offset' >= m
BY DEF Unstaged, TypeOK, Chunking, StagedAbove

\* What the provider appends is no older than the command's lower end.
LEMMA SubmitAbove ==
  ASSUME NEW d \in Device, NEW c \in Command, NEW m \in Nat, c.lo > m,
         \A i \in DOMAIN d.queue : d.queue[i] > m
  PROVE  LET queue == DeviceSubmit(d, Frames(c)).queue
         IN  \A i \in DOMAIN queue : queue[i] > m
<1> DEFINE q == d.queue
           f == Frames(c)
           t == q \o f
<1>1. q \in Seq(Nat) /\ f \in Seq(Nat) /\ \A i \in DOMAIN f : f[i] > m
  <2>1. c.lo \in Nat
    BY DEF Command
  <2> QED
    BY <2>1, FramesAreNumbers DEF Device
<1>2. DeviceSubmit(d, f).queue = t
  BY DEF DeviceSubmit, Device
<1> HIDE DEF q, f
<1>3. \A i \in DOMAIN t :
        \/ i \in DOMAIN q /\ t[i] = q[i]
        \/ i - Len(q) \in DOMAIN f /\ t[i] = f[i - Len(q)]
  BY <1>1
<1>4. \A i \in DOMAIN t : t[i] > m
  BY <1>1, <1>3 DEF q
<1> QED
  BY <1>2, <1>4 DEF f

\* A control command leaves the provider's queue alone or empties it.
LEMMA ExecutedQueue ==
  ASSUME device \in Device, NEW type \in ControlTypes
  PROVE  LET queue == Executed(type).queue
         IN  /\ queue = device.queue \/ queue = << >>
             /\ type = "Flush" => queue = << >>
<1>1. CASE type = "Flush"
  BY <1>1 DEF Executed, DeviceFlush, Device
<1>2. CASE type = "Pause"
  BY <1>2 DEF Executed, DevicePause, Device
<1>3. CASE type = "Resume"
  BY <1>3 DEF Executed, DevicePause, Device
<1>4. CASE type = "Stop"
  BY <1>4 DEF Executed
<1> QED
  BY <1>1, <1>2, <1>3, <1>4 DEF ControlTypes

LEMMA BarrierStep ==
  ASSUME IndInv, [Next]_vars
  PROVE  Barrier'
<1> USE DEF Barrier, StagedAbove, QueueAbove, HeldAbove, DeviceAbove, Flushing
<1>0. TypeOK /\ Chunking /\ Loads /\ Protocol /\ Barrier
  BY DEF IndInv
<1>1. CASE CallbackLock \/ CallbackNext \/ SubmitWait \/ WorkerSleep \/
   AwaitSleep \/ Halted \/ UNCHANGED vars
  BY <1>1, <1>0 DEF CallbackLock, CallbackNext, SubmitWait, WorkerSleep,
     AwaitSleep, Halted, vars
<1>2. CASE Retarget
  BY <1>2, <1>0 DEF Retarget
<1>3. ASSUME NEW n \in Batches, CallbackEnter(n) PROVE Barrier'
  BY <1>3, <1>0 DEF CallbackEnter
<1>4. ASSUME NEW op \in ControlNames, Begin(op) PROVE Barrier'
  <2>1. mpc' \in {"send", "direct"} => msend' = "Resume"
    BY <1>4, StageIsStage DEF Begin, ControlTypes
  <2>2. mpc' \in {"idle", "send", "direct", "close", "unstage"}
    BY <1>4, StageIsStage DEF Begin, ControlTypes
  <2> QED
    BY <1>4, <1>0, <2>1, <2>2 DEF Begin
<1>5. CASE CallbackStage
  <2>1. /\ staging' = staging + pn /\ produced' = produced + pn
        /\ UNCHANGED <<barrier, mark, offset, commands, wpc, wcmd, device,
                       msend, mpc, ackedId, mid>>
    BY <1>5 DEF CallbackStage
  <2>2. /\ staging \in Nat /\ produced \in Nat /\ pn \in Nat
        /\ offset \in Nat /\ mark \in Nat /\ barrier \in Nat
    BY <1>0 DEF TypeOK
  <2>3. \A m \in Nat : StagedAbove(m) => StagedAbove(m)'
    BY <2>1, <2>2
  <2> QED
    BY <1>0, <2>1, <2>2, <2>3
<1>6. CASE SubmitPush
  <2> DEFINE lo == Oldest + offset
             hi == Oldest + offset + Part - 1
             c == Data(lo, hi)
  <2>1. /\ Part \in Nat \ {0} /\ Oldest = produced - staging + 1
    BY <1>6, <1>0, EngineAssumption
       DEF SubmitPush, Part, Oldest, TypeOK, Chunking
  <2>2. /\ lo \in Nat /\ hi \in Nat /\ lo <= hi
        /\ lo = produced - staging + offset + 1
    <3>1. /\ produced \in Nat /\ staging \in Nat /\ offset \in Nat
          /\ staging <= produced
      BY <1>0 DEF TypeOK, Chunking
    <3> QED
      BY <2>1, <3>1
  <2>3. c \in Command /\ c.lo = lo
    <3> HIDE DEF lo, hi
    <3> QED
      BY <2>2, DataIsCommand DEF Data
  <2>4. /\ commands' = Append(commands, c) /\ commands \in Seq(Command)
        /\ UNCHANGED <<barrier, mark, produced, wpc, wcmd, device, msend, mpc,
                       ackedId, mid>>
    BY <1>6, <1>0 DEF SubmitPush, TypeOK
  <2> HIDE DEF c
  <2>5. ASSUME NEW m \in Nat, StagedAbove(m), m <= produced
        PROVE  StagedAbove(m)' /\ lo > m
    <3>1. ASSUME offset + Part = chunk PROVE StagedAbove(m)'
      BY <1>6, <1>0, <2>4, <2>5, <3>1, UnstagingAbove DEF SubmitPush
    <3>2. ASSUME offset + Part # chunk PROVE StagedAbove(m)'
      <4>1. /\ staging' = staging /\ offset' = offset + Part
            /\ produced' = produced
        BY <1>6, <2>4, <3>2 DEF SubmitPush
      <4>2. produced \in Nat /\ staging \in Nat /\ offset \in Nat
        BY <1>0 DEF TypeOK
      <4> QED
        BY <2>1, <2>5, <4>1, <4>2
    <3>3. lo > m
      BY <1>0, <2>2, <2>5 DEF TypeOK
    <3> QED
      BY <3>1, <3>2, <3>3
  <2>6. ASSUME NEW m \in Nat, lo > m, QueueAbove(m) PROVE QueueAbove(m)'
    <3>1. \A i \in DOMAIN commands' :
            \/ commands'[i] = c
            \/ \E k \in DOMAIN commands : commands'[i] = commands[k]
      BY <2>3, <2>4, AppendAt
    <3> QED
      BY <2>3, <2>6, <3>1
  <2>7. /\ mark \in Nat /\ barrier \in Nat /\ barrier <= produced
        /\ mark <= produced
    BY <1>0 DEF TypeOK
  <2>8. StagedAbove(barrier)' /\ QueueAbove(barrier)'
    BY <1>0, <2>4, <2>5, <2>6, <2>7
  <2>9. StagedAbove(mark) => StagedAbove(mark)'
    BY <2>4, <2>5, <2>7
  <2>10. StagedAbove(mark) /\ QueueAbove(mark) => QueueAbove(mark)'
    BY <2>4, <2>5, <2>6, <2>7
  <2> QED
    BY <1>0, <2>4, <2>8, <2>9, <2>10
<1>7. CASE SubmitRefused
  <2>1. /\ staging' = Unstaged(chunk) /\ offset' = 0
        /\ UNCHANGED <<barrier, mark, produced, commands, wpc, wcmd, device,
                       msend, mpc, ackedId, mid>>
    BY <1>7 DEF SubmitRefused
  <2>2. /\ mark \in Nat /\ barrier \in Nat /\ barrier <= produced
        /\ mark <= produced
    BY <1>0 DEF TypeOK
  <2>3. StagedAbove(barrier)' /\ (StagedAbove(mark) => StagedAbove(mark)')
    BY <1>0, <2>1, <2>2, UnstagingAbove
  <2> QED
    BY <1>0, <2>1, <2>3
<1>8. CASE SubmitDirect
  <2> DEFINE hi == Oldest + chunk - 1
             c == Data(Oldest, hi)
  <2>1. /\ staging' = Unstaged(chunk) /\ offset' = 0 /\ ~threaded
        /\ offset = 0
        /\ UNCHANGED <<barrier, mark, produced, commands, wpc, wcmd,
                       msend, mpc, ackedId, mid>>
        /\ device' = DeviceSubmit(device, Frames(c)) \/ device' = device
    BY <1>8, <1>0 DEF SubmitDirect, ProviderTakes, Chunking
  <2>2. /\ mark \in Nat /\ barrier \in Nat /\ barrier <= produced
        /\ mark <= produced
    BY <1>0 DEF TypeOK
  <2>3. StagedAbove(barrier)' /\ (StagedAbove(mark) => StagedAbove(mark)')
    BY <1>0, <2>1, <2>2, UnstagingAbove
  <2>4. /\ Oldest = produced - staging + 1 /\ Oldest \in Nat
        /\ hi \in Nat /\ Oldest <= hi
    <3>1. produced \in Nat /\ staging \in Nat /\ staging <= produced
          /\ chunk \in Nat \ {0}
      BY <1>0 DEF TypeOK, Chunking
    <3>2. Oldest = produced - staging + 1
      BY <3>1 DEF Oldest
    <3> QED
      BY <3>1, <3>2
  <2>5. c \in Command /\ c.lo = Oldest /\ Oldest > barrier
    <3>1. Oldest > barrier
      <4>1. produced - staging + offset >= barrier
        BY <1>0
      <4>2. produced \in Nat /\ staging \in Nat
        BY <1>0 DEF TypeOK
      <4> QED
        BY <2>1, <2>2, <2>4, <4>1, <4>2
    <3> HIDE DEF hi
    <3> QED
      BY <2>4, <3>1, DataIsCommand DEF Data
  <2> HIDE DEF c
  <2>6. DeviceAbove(barrier)'
    BY <1>0, <2>1, <2>2, <2>5, SubmitAbove DEF TypeOK
  <2>7. mpc # "await"
    BY <1>0, <2>1 DEF Protocol
  <2> QED
    BY <1>0, <2>1, <2>3, <2>6, <2>7
<1>9. CASE WorkerPop
  <2>1. /\ commands # << >> /\ commands \in Seq(Command) /\ wpc = "wait"
        /\ commands' = Tail(commands) /\ wcmd' = Head(commands)
        /\ wpc' \in {"submit", "execute"}
        /\ wpc' = "submit" => IsData(Head(commands))
        /\ UNCHANGED <<barrier, mark, produced, staging, offset, device,
                       msend, mpc, ackedId, mid>>
    BY <1>9, <1>0 DEF WorkerPop, TypeOK
  <2>2. /\ Head(commands) = commands[1] /\ 1 \in DOMAIN commands
        /\ \A i \in DOMAIN Tail(commands) :
             i + 1 \in DOMAIN commands /\ Tail(commands)[i] = commands[i + 1]
    BY <2>1
  <2>3. ASSUME NEW m, QueueAbove(m) PROVE QueueAbove(m)' /\ HeldAbove(m)'
    BY <2>1, <2>2, <2>3
  <2>4. QueueAbove(barrier)' /\ HeldAbove(barrier)'
    BY <1>0, <2>1, <2>3
  <2>5. QueueAbove(mark) => QueueAbove(mark)' /\ HeldAbove(mark)'
    BY <2>1, <2>3
  <2> QED
    BY <1>0, <2>1, <2>4, <2>5
<1>10. CASE WorkerSubmit
  <2>1. /\ wpc = "submit" /\ wpc' = "submitted" /\ wcmd \in Command
        /\ UNCHANGED <<barrier, mark, produced, commands, staging, offset,
                       msend, mpc, ackedId, mid>>
        /\ device' = DeviceSubmit(device, Frames(wcmd)) \/ device' = device
    BY <1>10, <1>0 DEF WorkerSubmit, ProviderTakes, TypeOK
  <2>2. mark \in Nat /\ barrier \in Nat
    BY <1>0 DEF TypeOK
  <2>3. ASSUME NEW m \in Nat, HeldAbove(m), DeviceAbove(m)
        PROVE  \A i \in DOMAIN device'.queue : device'.queue[i] > m
    BY <1>0, <2>1, <2>3, SubmitAbove DEF TypeOK
  <2>4. DeviceAbove(barrier)'
    BY <1>0, <2>1, <2>2, <2>3
  <2>5. HeldAbove(mark) /\ DeviceAbove(mark) => DeviceAbove(mark)'
    BY <2>1, <2>2, <2>3
  <2> QED
    BY <1>0, <2>1, <2>4, <2>5
<1>11. CASE WorkerExecute
  <2>1. /\ wpc = "execute" /\ wpc' \in {"publish", "ack"}
        /\ mpc = "await" /\ wcmd.type = msend /\ msend \in ControlTypes
        /\ UNCHANGED <<barrier, mark, produced, commands, staging, offset,
                       msend, mpc, ackedId, mid, wcmd>>
        /\ device' = Executed(wcmd.type) /\ ackedId < mid
        /\ ackedId \in Nat /\ mid \in Nat
    BY <1>11, <1>0 DEF WorkerExecute, TypeOK, Protocol, Executing, Awaited
  <2>2. /\ device'.queue = device.queue \/ device'.queue = << >>
        /\ msend = "Flush" => device'.queue = << >>
    BY <1>0, <2>1, ExecutedQueue DEF TypeOK
  <2> QED
    BY <1>0, <2>1, <2>2
<1>12. CASE WorkerPublish
  <2>1. msend # "Flush"
    BY <1>12, <1>0 DEF WorkerPublish, Protocol, Executing, Awaited
  <2> QED
    BY <1>12, <1>0, <2>1 DEF WorkerPublish
<1>13. CASE WorkerAck
  BY <1>13, <1>0 DEF WorkerAck
<1>14. CASE BeginShutdown
  <2>1. mpc' \in {"close", "unstage"}
    BY <1>14, StageIsStage DEF BeginShutdown, ControlTypes
  <2> QED
    BY <1>14, <1>0, <2>1 DEF BeginShutdown
<1>15. CASE FlushStaging
  <2>1. /\ staging' = 0 /\ mark' = produced /\ mpc' \in {"erase", "direct"}
        /\ UNCHANGED <<barrier, produced, commands, wpc, wcmd, device, offset>>
    BY <1>15 DEF FlushStaging, ClearStaging
  <2> QED
    BY <1>0, <2>1 DEF TypeOK
<1>16. CASE FlushErase
  <2>1. commands' = << >>
    BY <1>16, <1>0, NothingRemains DEF FlushErase, Protocol, Awaited, TypeOK
  <2> QED
    BY <1>16, <1>0, <2>1 DEF FlushErase
<1>17. CASE SendControl
  <2> DEFINE c == Control(msend, nextId)
  <2>1. c \in Command /\ ~IsData(c) /\ commands \in Seq(Command)
    BY <1>0, ControlIsCommand DEF TypeOK
  <2>2. /\ commands' = <<c>> \o commands \/ commands' = Append(commands, c)
        /\ mpc = "send" /\ mpc' = "await" /\ mid' = nextId
        /\ UNCHANGED <<barrier, mark, produced, staging, offset, wpc, wcmd,
                       device, msend, ackedId>>
    BY <1>17 DEF SendControl
  <2>3. wpc # "ack" /\ ~(ackedId >= nextId)
    <3>1. ackedId < nextId /\ (Executing => Awaited(wcmd))
      BY <1>0 DEF Protocol
    <3>2. ackedId \in Nat /\ nextId \in Nat
      BY <1>0 DEF TypeOK
    <3> QED
      BY <2>2, <3>1, <3>2 DEF Executing, Awaited
  <2> HIDE DEF c
  <2>4. \A i \in DOMAIN commands' :
          \/ commands'[i] = c
          \/ \E k \in DOMAIN commands : commands'[i] = commands[k]
    <3>1. CASE commands' = <<c>> \o commands
      BY <2>1, <3>1, ConsAt
    <3>2. CASE commands' = Append(commands, c)
      BY <2>1, <3>2, AppendAt
    <3> QED
      BY <2>2, <3>1, <3>2
  <2>5. /\ QueueAbove(barrier)'
        /\ QueueAbove(mark) => QueueAbove(mark)'
    BY <1>0, <2>1, <2>2, <2>4
  <2> QED
    BY <1>0, <2>2, <2>3, <2>5
<1>18. CASE AwaitDone
  <2>1. /\ mpc = "await" /\ mpc' = NextStage(msend) /\ ackedId >= mid
        /\ mpc' \in {"send", "retarget", "destroy", "idle"}
        /\ mpc' = "send" => msend' = "Pause"
        /\ UNCHANGED <<mark, produced, staging, offset, commands, wpc, wcmd,
                       device>>
    BY <1>18, <1>0, StageIsStage DEF AwaitDone, Acknowledged, TypeOK
  <2>2. CASE msend = "Flush"
    <3>1. barrier' = mark
      BY <1>18, <2>2 DEF AwaitDone
    <3> QED
      BY <1>0, <2>1, <2>2, <3>1 DEF TypeOK
  <2>3. CASE msend # "Flush"
    <3>1. barrier' = barrier
      BY <1>18, <2>3 DEF AwaitDone
    <3> QED
      BY <1>0, <2>1, <2>3, <3>1
  <2> QED
    BY <2>2, <2>3
<1>19. CASE DirectControl
  <2>1. /\ mpc = "direct" /\ ~threaded /\ msend \in ControlTypes
        /\ mpc' \in {"direct", "retarget", "destroy", "idle"}
        /\ mpc' = "direct" => msend' = "Pause"
        /\ device' = Executed(msend)
        /\ UNCHANGED <<mark, produced, staging, offset, commands, wpc, wcmd>>
    BY <1>19, <1>0, StageIsStage DEF DirectControl, Protocol, TypeOK
  <2>2. commands = << >> /\ wpc = "none"
    BY <1>0, <2>1 DEF Loads
  <2>3. /\ device'.queue = device.queue \/ device'.queue = << >>
        /\ msend = "Flush" => device'.queue = << >>
    BY <1>0, <2>1, ExecutedQueue DEF TypeOK
  <2>4. CASE msend = "Flush"
    <3>1. barrier' = mark
      BY <1>19, <2>4 DEF DirectControl
    <3> QED
      BY <1>0, <2>1, <2>2, <2>3, <2>4, <3>1 DEF TypeOK
  <2>5. CASE msend # "Flush"
    <3>1. barrier' = barrier
      BY <1>19, <2>5 DEF DirectControl
    <3> QED
      BY <1>0, <2>1, <2>2, <2>3, <2>5, <3>1
  <2> QED
    BY <2>4, <2>5
<1>20. CASE CloseStaging
  <2>1. /\ staging' = 0 /\ mark' = produced /\ mpc' = "cancel"
        /\ UNCHANGED <<barrier, produced, commands, wpc, wcmd, device, offset>>
    BY <1>20 DEF CloseStaging, ClearStaging
  <2> QED
    BY <1>0, <2>1 DEF TypeOK
<1>21. CASE CloseCancel
  <2>1. device'.queue = device.queue /\ mpc' \in {"stop", "destroy"}
    BY <1>21, <1>0 DEF CloseCancel, DeviceCancel, Device, TypeOK
  <2> QED
    BY <1>21, <1>0, <2>1 DEF CloseCancel
<1>22. CASE CloseStop
  BY <1>22, <1>0 DEF CloseStop
<1>23. CASE CloseDestroy
  <2>1. device'.queue = << >>
    BY <1>23 DEF CloseDestroy, NoDevice
  <2> QED
    BY <1>23, <1>0, <2>1 DEF CloseDestroy
<1>24. CASE CloseRelease
  <2>1. /\ staging' = 0 /\ mpc' \in {"halted", "create"}
        /\ UNCHANGED <<barrier, mark, produced, commands, wpc, wcmd, device,
                       offset>>
    BY <1>24 DEF CloseRelease
  <2> QED
    BY <1>0, <2>1 DEF TypeOK
<1>25. CASE CreateBackend
  <2>1. device'.queue = << >>
    BY <1>25 DEF CreateBackend, DeviceCreate, NoDevice
  <2> QED
    BY <1>25, <1>0, <2>1 DEF CreateBackend
<1>26. CASE ResetEngine
  <2>1. /\ staging' = 0 /\ commands' = << >> /\ mpc' = "idle"
        /\ wpc' \in {"wait", "none"}
        /\ UNCHANGED <<barrier, mark, produced, device, offset>>
    BY <1>26 DEF ResetEngine
  <2> QED
    BY <1>0, <2>1 DEF TypeOK
<1>27. CASE Play
  <2>1. /\ device.queue # << >> /\ device.queue \in Seq(Nat)
        /\ device'.queue = Tail(device.queue)
    BY <1>27, <1>0 DEF Play, CanPlay, DevicePlay, Device, TypeOK
  <2>2. \A i \in DOMAIN device'.queue :
          /\ i + 1 \in DOMAIN device.queue
          /\ device'.queue[i] = device.queue[i + 1]
    BY <2>1
  <2>3. UNCHANGED <<barrier, mark, produced, staging, offset, commands, wpc,
                    wcmd, msend, mpc, ackedId, mid>>
    BY <1>27 DEF Play
  <2> QED
    BY <1>0, <2>2, <2>3
<1>28. CASE SubmitNowhere
  <2>1. /\ staging' = Unstaged(chunk) /\ offset' = 0
        /\ UNCHANGED <<barrier, mark, produced, commands, wpc, wcmd, device,
                       msend, mpc, ackedId, mid>>
    BY <1>28, <1>0 DEF SubmitNowhere, Chunking
  <2>2. /\ mark \in Nat /\ barrier \in Nat /\ barrier <= produced
        /\ mark <= produced
    BY <1>0 DEF TypeOK
  <2>3. StagedAbove(barrier)' /\ (StagedAbove(mark) => StagedAbove(mark)')
    BY <1>0, <2>1, <2>2, UnstagingAbove
  <2> QED
    BY <1>0, <2>1, <2>3
<1>29. CASE WorkerSettle \/ SubmitStart
  <2>1. /\ UNCHANGED <<barrier, mark, produced, staging, offset, commands,
                       wcmd, msend, mpc, ackedId, mid>>
        /\ device'.queue = device.queue
        /\ wpc' = wpc \/ (wpc = "submitted" /\ wpc' = "wait")
    BY <1>29, <1>0, StartedDevice DEF WorkerSettle, SubmitStart, TypeOK
  <2> QED
    BY <1>0, <2>1
<1> QED
  BY <1>1, <1>2, <1>3, <1>4, <1>5, <1>6, <1>7, <1>8, <1>9, <1>10, <1>11, <1>12,
     <1>13, <1>14, <1>15, <1>16, <1>17, <1>18, <1>19, <1>20, <1>21, <1>22,
     <1>23, <1>24, <1>25, <1>26, <1>27, <1>28, <1>29
     DEF Next, Producer, Submit, Worker, Main

-----------------------------------------------------------------------------
(* The theorems. *)

LEMMA InitIndInv == Init => IndInv
<1> SUFFICES ASSUME Init PROVE IndInv
  OBVIOUS
<1> USE DEF Init
<1>1. TypeOK
  <2>1. commands \in Seq(Command) /\ wcmd \in Command /\ device \in Device
    BY FreshDevice, ControlIsCommand DEF NoCommand, ControlTypes
  <2>2. threaded \in BOOLEAN /\ coreThread \in BOOLEAN /\ buffer \in Nat
    BY EngineAssumption
  <2>3. /\ backend \in BOOLEAN /\ callbacks \in BOOLEAN /\ ffwd \in BOOLEAN
        /\ transition \in BOOLEAN /\ rebuilt \in BOOLEAN /\ untold \in BOOLEAN
    BY Zenon
  <2>4. mpc \in MainStages /\ msend \in ControlTypes
    BY DEF MainStages, ControlTypes
  <2>5. /\ mop \in ControlNames \cup {"boot", "none", "shutdown"}
        /\ asleep \subseteq {"main", "producer", "worker"}
    OBVIOUS
  <2> QED
    BY <2>1, <2>2, <2>3, <2>4, <2>5 DEF TypeOK
<1>2. Chunking
  BY DEF Chunking
<1>3. Loads
  BY EmptyCarries, EngineAssumption DEF Loads
<1>4. Protocol
  BY DEF Protocol, Executing
<1>5. Barrier
  BY DEF Barrier, StagedAbove, QueueAbove, HeldAbove, DeviceAbove, NoDevice
<1> QED
  BY <1>1, <1>2, <1>3, <1>4, <1>5 DEF IndInv

LEMMA Inductive == Spec => []IndInv
<1>1. IndInv /\ [Next]_vars => IndInv'
  BY TypeStep, ChunkingStep, LoadsStep, ProtocolStep, BarrierStep DEF IndInv
<1> QED
  BY InitIndInv, <1>1, PTL DEF Spec

\* Every variable keeps its type; above all queued_frames never goes below
\* zero, whatever the worker, main and a core thread do to the deque.
THEOREM TypeCorrect == Spec => []TypeOK
<1>1. IndInv => TypeOK
  BY DEF IndInv
<1> QED
  BY <1>1, Inductive, PTL

\* Back-pressure bounds the frames queued and in flight by the capacity, for
\* every capacity, buffer size and batch size (submit_chunk).
THEOREM CapacityRespected == Spec => []CapacityBound
<1>1. IndInv => CapacityBound
  BY DEF IndInv, Loads, CapacityBound
<1> QED
  BY <1>1, Inductive, PTL

\* A flush that has returned has let no older frame survive: neither in the
\* staging nor in the deque, the worker's hands or the provider
\* (audio_flush).
THEOREM FlushIsBarrier == Spec => []FlushBarrier
<1>1. ASSUME IndInv PROVE FlushBarrier
  <2>1. TypeOK /\ Barrier
    BY <1>1 DEF IndInv
  <2>2. \A f \in StagedFrames : f > barrier
    BY <2>1 DEF StagedFrames, Unsubmitted, Barrier, StagedAbove, TypeOK
  <2>3. \A f \in QueuedFrames : f > barrier
    <3>1. ASSUME NEW i \in DataCommands,
                 NEW f \in commands[i].lo..commands[i].hi
          PROVE  f > barrier
      <4>1. commands[i] \in Command /\ commands[i].lo > barrier
        BY <2>1 DEF DataCommands, Barrier, QueueAbove, TypeOK
      <4>2. commands[i].lo \in Nat /\ barrier \in Nat
        BY <2>1, <4>1 DEF Command, TypeOK
      <4> QED
        BY <3>1, <4>1, <4>2
    <3> QED
      BY <3>1 DEF QueuedFrames
  <2>4. \A f \in HeldFrames : f > barrier
    <3>1. wcmd.lo \in Nat /\ barrier \in Nat
      BY <2>1 DEF TypeOK, Command
    <3> QED
      BY <2>1, <3>1 DEF HeldFrames, Barrier, HeldAbove
  <2>5. \A f \in DeviceFrames : f > barrier
    BY <2>1 DEF DeviceFrames, Barrier, DeviceAbove
  <2> QED
    BY <2>2, <2>3, <2>4, <2>5 DEF FlushBarrier, LiveFrames
<1> QED
  BY <1>1, Inductive, PTL

=============================================================================
