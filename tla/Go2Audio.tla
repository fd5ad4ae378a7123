------------------------------ MODULE Go2Audio ------------------------------
(***************************************************************************)
(* The OpenAL provider of go2/audio.cpp: a few buffers that circulate      *)
(* between a queue of the source and a free list, the reserve collected    *)
(* before the source starts, and the recovery after it has run dry.        *)
(* OpenAL is external: a source that has stopped reports everything queued *)
(* on it as processed, one that never started nothing, and a stopped one   *)
(* that is started again plays its queue from the front.                   *)
(***************************************************************************)
EXTENDS Integers, Sequences

Fs == INSTANCE FiniteSetsExt

CONSTANTS BufferCount, \* buffer_count: 4, or 6 if stable
          Sizes,       \* frames of a batch, as it is or stretched
          Target,      \* playback_target_frames
          CoreThreads, \* a thread of the core submits while main pauses
          MaxBatches,  \* bound: batches
          MaxControls  \* bound: flushes and pauses

ASSUME Go2AudioAssumption ==
  /\ BufferCount \in Nat /\ BufferCount >= 2 /\ Sizes \subseteq Nat \ {0}
  /\ Target \in Nat /\ CoreThreads \subseteq BOOLEAN
  /\ MaxBatches \in Nat /\ MaxControls \in Nat

VARIABLES
  source,     \* AL_SOURCE_STATE
  queued,     \* queue_order, with the frames of each buffer
  played,     \* the buffers at its front that are processed, while it plays
  submitted, prebuffering, soundPaused, cancelled, \* the flags of go2_audio_t
  submitPc,   \* playAudio, in which myMutex is held: "out", "wait", "start"
  controlPc,  \* main: "out", or "pause" between the flush and the pause of
              \* audio_pause
  coreThread, produced,
  heard,      \* history: the last batch played
  dry,        \* history: when the source last stopped
  audioControls  \* bound

sourceVars == <<source, queued, played>>
flagVars == <<submitted, prebuffering, soundPaused, cancelled>>
go2Vars == <<sourceVars, flagVars, submitPc, controlPc, coreThread, produced,
             heard, dry, audioControls>>

Go2Init ==
  /\ source = "initial" /\ queued = << >> /\ played = 0
  /\ submitted = FALSE /\ prebuffering = TRUE /\ soundPaused = FALSE
  /\ cancelled = FALSE /\ submitPc = "out" /\ controlPc = "out"
  /\ coreThread \in CoreThreads /\ produced = 0 /\ heard = 0
  /\ dry = "flush" /\ audioControls = 0

-----------------------------------------------------------------------------
(* The source.                                                             *)

Processed == CASE source = "initial" -> 0
               [] source = "stopped" -> Len(queued)
               [] OTHER -> played

\* reclaim_processed_buffers.
Reclaimed == SubSeq(queued, Processed + 1, Len(queued))

\* queued_audio_frames, which is never told of processed buffers.
Frames(q) == Fs!MapThenSumSet(LAMBDA i : q[i].frames, DOMAIN q)

\* alSourcePlay.
Started == source' = "playing"
             /\ played' = IF source = "paused" THEN played ELSE 0

\* A buffer comes to its end; after the last one the source stops.
PlayBuffer ==
  /\ source = "playing" /\ played < Len(queued)
  /\ played' = played + 1
  /\ source' = IF played' = Len(queued) THEN "stopped" ELSE source
  /\ heard' = queued[played'].batch
  /\ dry' = IF source' = source THEN dry
            ELSE IF submitPc = "out" /\ controlPc = "out" THEN "idle"
            ELSE "busy"
  /\ UNCHANGED <<queued, flagVars, submitPc, controlPc, coreThread, produced,
                 audioControls>>

-----------------------------------------------------------------------------
(* playAudio.                                                              *)

Submits == UNCHANGED <<soundPaused, cancelled, controlPc, coreThread, heard,
                       dry, audioControls>>

\* A source found standing is an underrun: what it holds is taken back, and a
\* new reserve collected.  Mutant: what has been played stays queued.
KeptQueue == queued
Recovered == Reclaimed

SubmitBegin ==
  /\ submitPc = "out" /\ produced < MaxBatches /\ produced' = produced + 1
  /\ coreThread \/ (controlPc = "out" /\ ~soundPaused)
  /\ IF submitted /\ source # "playing" /\ ~soundPaused /\ ~prebuffering
     THEN prebuffering' = TRUE /\ queued' = Recovered /\ played' = 0
     ELSE UNCHANGED <<prebuffering, queued, played>>
  /\ submitPc' = "wait" /\ UNCHANGED <<source, submitted>> /\ Submits

\* While no buffer is free: what is processed is taken back, also of a source
\* that stands; after two seconds, or when cancelled, the batch is given up.
SubmitWait ==
  /\ submitPc = "wait" /\ Len(queued) = BufferCount /\ ~cancelled
  /\ queued' = Reclaimed /\ played' = 0 /\ queued' # queued
  /\ UNCHANGED <<source, submitted, prebuffering, submitPc, produced>>
  /\ Submits

SubmitFails ==
  /\ submitPc = "wait" /\ submitPc' = "out"
  /\ cancelled \/ Len(queued) = BufferCount
  /\ UNCHANGED <<sourceVars, submitted, prebuffering, produced>> /\ Submits

SubmitQueue ==
  /\ submitPc = "wait" /\ ~cancelled /\ Len(queued) < BufferCount
  /\ \E n \in Sizes :
       queued' = Append(IF prebuffering THEN queued ELSE Reclaimed,
                        [batch |-> produced, frames |-> n])
  /\ played' = IF prebuffering THEN played ELSE 0
  /\ submitted' = TRUE /\ submitPc' = "start"
  /\ UNCHANGED <<source, prebuffering, produced>> /\ Submits

\* The reserve is there.
Enough == Len(queued) >= 2 /\ Frames(queued) >= Target

SubmitStart ==
  /\ submitPc = "start" /\ submitPc' = "out"
  /\ IF source # "playing" /\ ~soundPaused /\ Enough
     THEN Started /\ prebuffering' = FALSE
     ELSE UNCHANGED <<source, played, prebuffering>>
  /\ UNCHANGED <<queued, submitted, produced>> /\ Submits

Submit == SubmitBegin \/ SubmitWait \/ SubmitQueue \/ SubmitStart

-----------------------------------------------------------------------------
(* The controls.  They take myMutex, for which a submission may let them   *)
(* wait for two seconds; only the cancellation does not.                   *)

Control == /\ submitPc = "out"
           /\ UNCHANGED <<cancelled, submitPc, coreThread, produced, heard,
                          dry>>
Counted == audioControls < MaxControls /\ audioControls' = audioControls + 1

\* go2_audio_flush: the queue is detached and every buffer free.
Emptied ==
  /\ source' = IF source = "initial" THEN "initial" ELSE "stopped"
  /\ queued' = << >> /\ played' = 0
  /\ submitted' = FALSE /\ prebuffering' = TRUE

\* audio_flush; and audio_pause, which flushes first.
Flush ==
  /\ controlPc = "out" /\ Control /\ Counted /\ Emptied
  /\ controlPc' \in IF soundPaused THEN {"out"} ELSE {"out", "pause"}
  /\ UNCHANGED soundPaused

Pause ==
  /\ controlPc = "pause" /\ controlPc' = "out" /\ Control
  /\ soundPaused' = TRUE
  /\ source' = IF source = "playing" THEN "paused" ELSE source
  /\ UNCHANGED <<queued, played, submitted, prebuffering, audioControls>>

\* go2_audio_pause(false) starts without a reserve.
Unpause ==
  /\ controlPc = "out" /\ soundPaused /\ soundPaused' = FALSE /\ Control
  /\ IF ~cancelled /\ Len(queued) >= 2
     THEN Started /\ prebuffering' = FALSE
     ELSE prebuffering' = TRUE /\ UNCHANGED <<source, played>>
  /\ UNCHANGED <<queued, submitted, controlPc, audioControls>>

Cancel ==
  /\ ~cancelled /\ cancelled' = TRUE
  /\ UNCHANGED <<sourceVars, submitted, prebuffering, soundPaused, submitPc,
                 controlPc, coreThread, produced, heard, dry,
                 audioControls>>

Go2Next == \/ PlayBuffer \/ Submit \/ SubmitFails
           \/ Flush \/ Pause \/ Unpause \/ Cancel
Go2Spec == Go2Init /\ [][Go2Next]_go2Vars

-----------------------------------------------------------------------------
(* Properties.                                                             *)

\* The comment in playAudio: "Leaving old processed buffers queued before
\* alSourcePlay() can replay them after an underrun."  A source that ran dry
\* while nobody submitted or paused is never started again with a batch that
\* was heard, whatever is flushed, paused and submitted in between.
NothingReplayed ==
  [][source = "stopped" /\ source' = "playing" /\ dry = "idle"
       => queued[1].batch > heard]_go2Vars

\* If the reserve fits into the buffers at all, a queue whose buffers are all
\* taken is being played, or was until a moment ago: the next submission does
\* not wait for a source that stands, nor throws away what it never played.
ReserveFits == \A n \in Sizes : BufferCount * n >= Target
FullQueuePlays ==
  ReserveFits /\ Len(queued) = BufferCount /\ submitPc = "out" /\ ~soundPaused
    /\ ~cancelled => source = "playing" \/ ~prebuffering

\* The sound goes on after an underrun.
SoundRecovers == NothingReplayed /\ []FullQueuePlays
=============================================================================
