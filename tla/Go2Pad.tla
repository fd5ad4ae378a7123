------------------------------- MODULE Go2Pad -------------------------------
(***************************************************************************)
(* The gamepad of the GO2 platform (go2/input.cpp): a thread collects the  *)
(* events of a report in pending_state and publishes them at its end, main *)
(* copies what is published without a lock, two more threads sample the    *)
(* battery and the brightness, and go2_input_destroy stops all three.      *)
(* The axes are collected and published like the buttons.                  *)
(***************************************************************************)
EXTENDS Integers, Sequences, FiniteSets

CONSTANTS Buttons,     \* of the gamepad
          MaxReports,  \* bound: reports of the gamepad
          MaxWaiting   \* events the kernel keeps for a reader

ASSUME PadAssumption ==
  /\ IsFiniteSet(Buttons) /\ MaxReports \in Nat /\ MaxWaiting \in Nat
  /\ MaxWaiting >= Cardinality(Buttons) + 2  \* the largest report, overrun

VARIABLES
  holding,   \* buttons that are held down
  first,     \* those that were when the device was opened
  reports,   \* reports so far
  kernel,    \* events that wait in the device
  queue,     \* events libevdev has read
  task,      \* input_task: "none", "fill", "events", "publish", "ended"
  toCopy,    \* buttons input_task has still to fill in or to publish
  current,   \* current_state: the buttons pressed
  collected, \* pending_state
  reading,   \* main is in go2_input_state_read
  toRead,    \* buttons it has still to copy
  seen,      \* gamepadState
  whole,     \* history: nothing was written since main began to copy
  samplers,  \* of the battery and the brightness, those that run
  missing,   \* threads the system did not create
  ending,    \* "no", "cancelled" (terminating is set), "freed", "crashed"
  stale      \* history: buttons whose last change was not told

deviceVars == <<holding, first, reports, kernel>>
taskVars == <<queue, task, toCopy, current, collected>>
seenVars == <<reading, toRead, seen, whole>>
endVars == <<samplers, missing, ending>>
go2PadVars == <<deviceVars, taskVars, seenVars, endVars, stale>>

Samplers == {"battery", "brightness"}

\* go2_input_create.  pthread_create reports a failure by a positive number,
\* which the comparison with zero passes over: the gamepad is created with
\* whatever threads there are.
Go2PadInit ==
  /\ holding \in SUBSET Buttons /\ first = holding /\ stale = holding
  /\ reports = 0 /\ kernel = <<>> /\ queue = <<>>
  /\ missing \in SUBSET (Samplers \cup {"input"})
  /\ samplers = Samplers \ missing
  /\ task = IF "input" \in missing THEN "none" ELSE "fill"
  /\ toCopy = Buttons /\ current = {} /\ collected = {}
  /\ reading = FALSE /\ toRead = {} /\ seen = {} /\ whole = FALSE
  /\ ending = "no"

-----------------------------------------------------------------------------
(* The gamepad and its device.                                             *)

Key(b, down) == [what |-> "key", of |-> b, down |-> down]
Syn == [what |-> "syn", of |-> "", down |-> FALSE]
Overrun == [what |-> "overrun", of |-> "", down |-> FALSE]

Told(es) ==
  {e.of : e \in {es[i] : i \in {j \in DOMAIN es : es[j].what = "key"}}}

\* The events of a report, whose changes may be told in any order.
Tellings(changes) ==
  {Append([i \in DOMAIN f |-> Key(f[i], f[i] \notin holding)], Syn) :
     f \in {g \in [1 .. Cardinality(changes) -> changes] :
              \A b \in changes : \E i \in DOMAIN g : g[i] = b}}

\* Some buttons change.  What does not fit drops all that waits in the device
\* and what of the report came before.
Report ==
  /\ ending # "freed" /\ reports < MaxReports /\ reports' = reports + 1
  /\ \E changes \in (SUBSET Buttons) \ {{}} :
     \E t \in Tellings(changes) :
       LET fits == MaxWaiting - Len(kernel)
           kept == SubSeq(t, fits + 1, Len(t))
           lost == (Told(kernel) \cup changes) \ Told(kept)
       IN /\ holding' = (holding \ changes) \cup (changes \ holding)
          /\ IF Len(t) <= fits
             THEN kernel' = kernel \o t /\ stale' = stale \ changes
             ELSE /\ kernel' = <<Overrun>> \o kept
                  /\ stale' = (stale \ Told(kept)) \cup lost
  /\ UNCHANGED <<first, taskVars, seenVars, endVars>>

-----------------------------------------------------------------------------
(* input_task.                                                             *)

\* The buttons held when libevdev opened the device, one after the other;
\* pending_state is left empty.
Fill ==
  /\ task = "fill" /\ toCopy # {}
  /\ \E b \in toCopy :
       /\ toCopy' = toCopy \ {b}
       /\ current' = (current \ {b}) \cup ({b} \cap first)
  /\ whole' = FALSE
  /\ UNCHANGED <<deviceVars, queue, task, collected, reading, toRead, seen,
                 endVars, stale>>

FillDone ==
  /\ task = "fill" /\ toCopy = {} /\ task' = "events"
  /\ UNCHANGED <<deviceVars, queue, toCopy, current, collected, seenVars,
                 endVars, stale>>

\* libevdev_next_event with nothing in its queue reads all there is.
ReadEvents ==
  /\ task = "events" /\ queue = <<>> /\ kernel # <<>>
  /\ queue' = kernel /\ kernel' = <<>>
  /\ UNCHANGED <<holding, first, reports, task, toCopy, current, collected,
                 seenVars, endVars, stale>>

EventsGoOn == task = "events" /\ queue # <<>> /\ ending = "no"

ButtonEvent ==
  /\ EventsGoOn /\ Head(queue).what = "key" /\ queue' = Tail(queue)
  /\ LET b == Head(queue).of
     IN collected' = IF Head(queue).down THEN collected \cup {b}
                   ELSE collected \ {b}
  /\ UNCHANGED <<deviceVars, task, toCopy, current, seenVars, endVars, stale>>

\* A result other than 0 is passed over, and the changes since the overrun are
\* not asked for (libevdev then drops what it has read with it, or tells it).
OverrunEvent ==
  /\ EventsGoOn /\ Head(queue).what = "overrun"
  /\ \/ queue' = Tail(queue) /\ UNCHANGED stale
     \/ queue' = <<>> /\ stale' = stale \cup Told(queue)
  /\ UNCHANGED <<deviceVars, task, toCopy, current, collected, seenVars,
                 endVars>>

\* EV_SYN: pending_state is copied, under a mutex main does not take.
SynEvent ==
  /\ EventsGoOn /\ Head(queue).what = "syn" /\ queue' = Tail(queue)
  /\ task' = "publish" /\ toCopy' = Buttons
  /\ UNCHANGED <<deviceVars, current, collected, seenVars, endVars, stale>>

\* Mutant: what is pressed is added to what was.
PressesOnly(b) == current \cup ({b} \cap collected)
Published(b) == (current \ {b}) \cup ({b} \cap collected)

PublishButton ==
  /\ task = "publish" /\ toCopy # {}
  /\ \E b \in toCopy :
       /\ toCopy' = toCopy \ {b} /\ current' = Published(b)
  /\ whole' = FALSE
  /\ UNCHANGED <<deviceVars, queue, task, collected, reading, toRead, seen,
                 endVars, stale>>

PublishDone ==
  /\ task = "publish" /\ toCopy = {} /\ task' = "events"
  /\ UNCHANGED <<deviceVars, queue, toCopy, current, collected, seenVars,
                 endVars, stale>>

\* The loop ends, or the thread is cancelled where it reads the device.
TaskEnds ==
  /\ task = "events" /\ ending = "cancelled" /\ task' = "ended"
  /\ UNCHANGED <<deviceVars, queue, toCopy, current, collected, seenVars,
                 endVars, stale>>

\* battery_task and brightness_task look once a second.
SamplerEnds ==
  /\ ending = "cancelled"
  /\ \E s \in samplers : samplers' = samplers \ {s}
  /\ UNCHANGED <<deviceVars, taskVars, seenVars, missing, ending, stale>>

-----------------------------------------------------------------------------
(* Main.                                                                   *)

StateRead ==
  /\ ending = "no" /\ ~reading /\ reading' = TRUE /\ toRead' = Buttons
  /\ whole' = TRUE
  /\ UNCHANGED <<deviceVars, taskVars, seen, endVars, stale>>

CopyButton ==
  /\ reading /\ toRead # {}
  /\ \E b \in toRead :
       /\ toRead' = toRead \ {b}
       /\ seen' = (seen \ {b}) \cup ({b} \cap current)
  /\ UNCHANGED <<deviceVars, taskVars, reading, whole, endVars, stale>>

StateReadDone ==
  /\ reading /\ toRead = {} /\ reading' = FALSE
  /\ UNCHANGED <<deviceVars, taskVars, toRead, seen, whole, endVars, stale>>

\* go2_input_destroy: cancelling or joining a thread that was not created is
\* undefined.
Destroy ==
  /\ ending = "no" /\ ~reading
  /\ ending' = IF missing = {} THEN "cancelled" ELSE "crashed"
  /\ UNCHANGED <<deviceVars, taskVars, seenVars, samplers, missing, stale>>

JoinAll ==
  /\ ending = "cancelled" /\ task = "ended" /\ samplers = {}
  /\ ending' = "freed"
  /\ UNCHANGED <<deviceVars, taskVars, seenVars, samplers, missing, stale>>

Go2PadNext ==
  \/ Report
  \/ /\ ending # "crashed"
     /\ \/ Fill \/ FillDone \/ ReadEvents \/ ButtonEvent \/ OverrunEvent
        \/ SynEvent \/ PublishButton \/ PublishDone \/ TaskEnds \/ SamplerEnds
        \/ StateRead \/ CopyButton \/ StateReadDone \/ Destroy \/ JoinAll

Go2PadSpec == Go2PadInit /\ [][Go2PadNext]_go2PadVars

-----------------------------------------------------------------------------
(* Properties.                                                             *)

\* Once all reports have been read, what is published is what is held, and
\* so is what main has copied from it, but for buttons that were held from the
\* start or whose change was dropped, and for a copy made in the middle of a
\* publication.
Settled ==
  task = "events" /\ kernel = <<>> /\ queue = <<>> =>
    \A b \in Buttons \ stale :
      /\ b \in current <=> b \in holding
      /\ whole /\ ~reading => (b \in seen <=> b \in holding)

\* Nothing uses the gamepad that is freed.
NothingAfterFree ==
  ending = "freed" => task = "ended" /\ samplers = {} /\ ~reading

\* With any chords, an overrun of the device at any time and an end at any
\* time: no button sticks that was told, and the gamepad outlives its threads.
Go2PadFollows == Settled /\ NothingAfterFree
=============================================================================
