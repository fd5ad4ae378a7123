----------------------------- MODULE SaveStates -----------------------------
(***************************************************************************)
(* Save states and battery memory: core/savestate.cpp with the files of    *)
(* core/state_file.h and core/state_identity.h, and the parts of main.cpp  *)
(* and menu_setup.cpp that save and load.  Main (savePc) writes a slot in  *)
(* steps between which the process may die; a load is read and verified by *)
(* a thread of its own (loadPc) and applied by main.                       *)
(***************************************************************************)
EXTENDS Integers, FiniteSets

CONSTANTS Slots,      \* the manual slots
          Latest,     \* the automatic state: latestPath
          NoPath,
          MaxContent, \* bound: states of the game reached
          MaxCrashes, \* bound: crashes
          MaxRequests \* bound: presses of save and of load, and menu choices

ASSUME SaveAssumption ==
  /\ Latest \notin Slots /\ NoPath \notin Slots \cup {Latest}
  /\ MaxContent \in Nat /\ MaxCrashes \in Nat /\ MaxRequests \in Nat

Paths == Slots \cup {Latest}
NoFile == 0       \* a file that does not exist, and a buffer without data

VARIABLES
  state, sidecar, preview,  \* the files of each path: the content saved
  savePc,                   \* main: where it is in the loop or in a save
  gameState, reached,       \* the game as it is, and the contents so far
  session,                  \* options of the session: arguments, settings
  saving,                   \* SaveState: the path, the buffer
  menuOpen, showing,        \* input_info_requested; the image of a request
  loadRequested, saveRequested, \* input_slot_memory_load/save_requested
  recentSave,               \* a save within this second (lastSaveTime)
  loadPc, loadJob,              \* the loading thread and what it works on
  joinable,                 \* asyncLoadThread.joinable()
  busy, readyFlag, ready,   \* asyncLoadBusy, ReadyFlag, asyncLoadReady
  taken,                    \* PumpLoadStateAsync: what it has moved out
  requests, crashes         \* bounds

fileVars == <<state, sidecar, preview>>
requestVars == <<menuOpen, showing, loadRequested, saveRequested,
                 requests>>
gameVars == <<gameState, reached>>
loadVars == <<loadPc, loadJob, joinable, busy, readyFlag, ready, taken>>
saveVars == <<fileVars, savePc, gameVars, session, saving, requestVars,
              recentSave, loadVars, crashes>>

NoLoad == [path |-> NoPath, auto |-> FALSE, data |-> NoFile]
NoSession == [verifiable |-> FALSE, autoSave |-> FALSE]
NoSave == [path |-> NoPath, data |-> NoFile, then |-> "loop"]

SaveInit ==
  /\ state = [p \in Paths |-> NoFile] /\ sidecar = [p \in Paths |-> NoFile]
  /\ preview = [p \in Paths |-> NoFile]
  /\ savePc = "off" /\ gameState = NoFile /\ reached = 0
  /\ session = NoSession /\ saving = NoSave
  /\ menuOpen = FALSE /\ showing = FALSE
  /\ loadRequested = FALSE /\ saveRequested = FALSE
  /\ recentSave = FALSE
  /\ loadPc = "none" /\ loadJob = NoLoad /\ joinable = FALSE
  /\ busy = FALSE /\ readyFlag = FALSE /\ ready = NoLoad /\ taken = NoLoad
  /\ requests = 0 /\ crashes = 0

-----------------------------------------------------------------------------
(* Starting a load: StartLoadStateAsync.                                   *)

LoadBusy == busy \/ readyFlag

\* A second load is refused while one is under way.  Mutant: without the flag
\* that its result waits.
LoadBusyOnly == busy
LoadRefused == LoadBusy

ThreadStart(p, auto) ==
  /\ busy' = TRUE /\ joinable' = TRUE /\ loadPc' = "read"
  /\ loadJob' = [path |-> p, auto |-> auto, data |-> NoFile]
  /\ UNCHANGED <<readyFlag, ready, taken>>

\* Joins the thread of the last load.  A missing file is an answer at once.
LoadStart(p) ==
  \/ LoadRefused /\ UNCHANGED <<loadVars, loadRequested>>
  \/ /\ ~LoadRefused /\ (joinable => loadPc = "ended")
     /\ state[p] = NoFile
     /\ loadRequested' = FALSE /\ joinable' = FALSE /\ loadPc' = "none"
     /\ UNCHANGED <<loadJob, busy, readyFlag, ready, taken>>
  \/ /\ ~LoadRefused /\ (joinable => loadPc = "ended")
     /\ state[p] # NoFile
     /\ ThreadStart(p, FALSE) /\ UNCHANGED loadRequested

-----------------------------------------------------------------------------
(* The loading thread.                                                     *)

Work(next) == loadPc' = next /\ UNCHANGED <<fileVars, savePc, gameVars,
  session, saving, requestVars, recentSave, joinable, taken, crashes>>

\* The whole file as it was opened: a rename does not touch an open file.
\* The file may be gone, unreadable or too large for the memory.
ReadState ==
  /\ loadPc = "read"
  /\ \E read \in {state[loadJob.path], NoFile} :
       /\ loadJob' = [loadJob EXCEPT !.data = read]
       /\ Work(IF read = NoFile THEN "publish" ELSE "verify")
  /\ UNCHANGED <<busy, readyFlag, ready>>

\* state_context::canLoad.  A sidecar of another content refuses the state,
\* a missing one (or a game whose identity cannot be computed) only an
\* automatic load.
CanLoad(p, data, auto) ==
  /\ sidecar[p] # NoFile => sidecar[p] = data
  /\ auto => sidecar[p] # NoFile /\ session.verifiable

VerifyState ==
  /\ loadPc = "verify"
  /\ loadJob' = IF CanLoad(loadJob.path, loadJob.data, loadJob.auto)
                THEN loadJob ELSE [loadJob EXCEPT !.data = NoFile]
  /\ Work("publish") /\ UNCHANGED <<busy, readyFlag, ready>>

Publish ==
  /\ loadPc = "publish"
  /\ ready' = loadJob /\ loadJob' = NoLoad
  /\ Work("flag") /\ UNCHANGED <<busy, readyFlag>>

RaiseFlag ==
  /\ loadPc = "flag"
  /\ readyFlag' = TRUE
  /\ Work("rest") /\ UNCHANGED <<loadJob, busy, ready>>

\* Mutant: the flag stays.
BusyKept == busy
BusyAfter == FALSE

ThreadEnd ==
  /\ loadPc = "rest"
  /\ busy' = BusyAfter
  /\ Work("ended") /\ UNCHANGED <<loadJob, readyFlag, ready>>

LoadThread == ReadState \/ VerifyState \/ Publish \/ RaiseFlag \/ ThreadEnd

-----------------------------------------------------------------------------
(* Main: starting a session, and the loop.                                 *)

\* retrorun_main up to the loop.  A slot asked for must exist; without one
\* the automatic state is loaded if the settings say so; --restart and
\* --start-new load nothing.  The game starts from a content of its own.
Boot(slot, restart, autoSave, autoLoad, verifiable) ==
  LET path == IF slot = NoPath THEN Latest ELSE slot
      load == /\ ~restart /\ (slot # NoPath \/ autoLoad)
              /\ state[path] # NoFile
  IN
  /\ savePc = "off" /\ reached < MaxContent
  /\ slot # NoPath => ~restart /\ state[slot] # NoFile
  /\ session' = [verifiable |-> verifiable, autoSave |-> autoSave]
  /\ savePc' = "loop" /\ reached' = reached + 1 /\ gameState' = reached + 1
  /\ showing' = load /\ loadRequested' = load
  /\ IF load THEN ThreadStart(path, slot = NoPath) ELSE UNCHANGED loadVars
  /\ UNCHANGED <<fileVars, saving, menuOpen, saveRequested, requests,
                 recentSave, crashes>>

\* retro_run: the game goes on.
Play ==
  /\ savePc = "loop" /\ ~menuOpen /\ reached < MaxContent
  /\ reached' = reached + 1 /\ gameState' = reached + 1
  /\ UNCHANGED <<fileVars, savePc, session, saving, requestVars, recentSave,
                 loadVars, crashes>>

\* The hotkeys, polled in retro_run; the menu polls them, too.
Press ==
  /\ savePc = "loop" /\ requests < MaxRequests /\ requests' = requests + 1
  /\ showing' = TRUE
  /\ \/ loadRequested' = TRUE /\ UNCHANGED saveRequested
     \/ saveRequested' = TRUE /\ UNCHANGED loadRequested
  /\ UNCHANGED <<fileVars, savePc, gameVars, session, saving, menuOpen,
                 recentSave, loadVars, crashes>>

ToggleMenu ==
  /\ savePc = "loop" /\ menuOpen' = ~menuOpen
  /\ menuOpen \/ requests < MaxRequests
  /\ requests' = IF menuOpen THEN requests ELSE requests + 1
  /\ UNCHANGED <<fileVars, savePc, gameVars, session, saving, showing,
                 loadRequested, saveRequested, recentSave, loadVars,
                 crashes>>

\* Time: the image of a request is shown for two seconds, and a save is
\* refused within the second of the last one.
Elapse ==
  /\ showing \/ recentSave
  /\ showing' \in {showing, FALSE} /\ recentSave' = FALSE
  /\ UNCHANGED <<fileVars, savePc, gameVars, session, saving, menuOpen,
                 loadRequested, saveRequested, requests, loadVars,
                 crashes>>

-----------------------------------------------------------------------------
(* PumpLoadStateAsync: called by the loop after retro_run, not while the   *)
(* menu is open.                                                           *)

PumpReady ==
  /\ savePc = "loop" /\ ~menuOpen /\ readyFlag
  /\ taken' = ready /\ ready' = NoLoad /\ readyFlag' = FALSE
  /\ savePc' = "apply"
  /\ UNCHANGED <<fileVars, gameVars, session, saving, requestVars, recentSave,
                 loadPc, loadJob, joinable, busy, crashes>>

\* After the join.  The core may refuse what it is given; the buffer is freed.
PumpApply ==
  /\ savePc = "apply" /\ loadPc = "ended"
  /\ joinable' = FALSE /\ loadPc' = "none"
  /\ gameState' \in IF taken.data = NoFile THEN {gameState}
                   ELSE {gameState, taken.data}
  /\ taken' = NoLoad /\ loadRequested' = FALSE /\ savePc' = "loop"
  /\ UNCHANGED <<fileVars, reached, session, saving, menuOpen, showing,
                 saveRequested, requests, recentSave, loadJob, busy,
                 readyFlag, ready, crashes>>

-----------------------------------------------------------------------------
(* SaveState.                                                              *)

\* Too soon after the last one, the call returns with nothing done.
SaveBegin(p, then) ==
  IF recentSave THEN savePc' = then /\ UNCHANGED <<saving, recentSave>>
  ELSE /\ recentSave' = TRUE /\ savePc' = "serialize"
       /\ saving' = [path |-> p, data |-> NoFile, then |-> then]

SaveStep == UNCHANGED <<gameVars, session, requestVars, recentSave, loadVars,
                        crashes>>
SaveEnd == savePc' = saving.then /\ saving' = NoSave

\* The core's buffer, and the temporary file: nothing of the slot changes.
Serialize ==
  /\ savePc = "serialize"
  /\ \/ saving' = [saving EXCEPT !.data = gameState] /\ savePc' = "invalidate"
     \/ SaveEnd
  /\ SaveStep /\ UNCHANGED <<state, sidecar, preview>>

\* state_file::write takes the old preview away before the new state comes.
\* Mutant: the preview stays until the next one replaces it.
StalePreview == preview[saving.path]
Invalidated == NoFile

Invalidate ==
  /\ savePc = "invalidate"
  /\ \/ /\ preview' = [preview EXCEPT ![saving.path] = Invalidated]
        /\ savePc' = "rename" /\ UNCHANGED saving
     \/ SaveEnd /\ UNCHANGED preview
  /\ SaveStep /\ UNCHANGED <<state, sidecar>>

Rename ==
  /\ savePc = "rename"
  /\ \/ /\ state' = [state EXCEPT ![saving.path] = saving.data]
        /\ savePc' = "identify" /\ UNCHANGED saving
     \/ SaveEnd /\ UNCHANGED state
  /\ SaveStep /\ UNCHANGED <<sidecar, preview>>

\* state_context::record: the sidecar is replaced, or removed when that
\* fails.
FailedSidecar == NoFile

Record ==
  /\ savePc = "identify" /\ savePc' = "capture"
  /\ \E side \in {saving.data, FailedSidecar} :
       sidecar' = [sidecar EXCEPT ![saving.path] = side]
  /\ SaveStep /\ UNCHANGED <<state, preview, saving>>

\* state_file::preview: a failed capture leaves none.
Capture ==
  /\ savePc = "capture" /\ SaveEnd
  /\ \E image \in {saving.data, preview[saving.path]} :
       preview' = [preview EXCEPT ![saving.path] = image]
  /\ SaveStep /\ UNCHANGED <<state, sidecar>>

SaveState == Serialize \/ Invalidate \/ Rename \/ Record \/ Capture

-----------------------------------------------------------------------------
(* What the loop and the menu do with the requests.                        *)

\* The slot is currentSlot, which the hotkeys may have changed at any time.
\* A load that did not start takes a request to save with it.
LoopLoad(p) ==
  /\ savePc = "loop" /\ ~menuOpen
  /\ loadRequested /\ ~LoadBusy /\ ~showing
  /\ LoadStart(p) /\ saveRequested' = (saveRequested /\ busy')
  /\ UNCHANGED <<fileVars, savePc, gameVars, session, saving, menuOpen,
                 showing, requests, recentSave, crashes>>

\* Not only when no load is busy.  The request is taken back at the end of
\* the iteration unless one is.
LoopSave(p) ==
  /\ savePc = "loop" /\ ~menuOpen
  /\ saveRequested /\ ~showing /\ ~(loadRequested /\ ~LoadBusy)
  /\ SaveBegin(p, "loop") /\ saveRequested' = LoadBusy
  /\ UNCHANGED <<fileVars, gameVars, session, menuOpen, showing,
                 loadRequested, requests, loadVars, crashes>>

\* loadSaveSlotWrapper from the menu, which it closes.
MenuChoice(p) ==
  /\ savePc = "loop" /\ menuOpen /\ menuOpen' = FALSE
  /\ \/ /\ LoadStart(p)
        /\ UNCHANGED <<savePc, saving, recentSave>>
     \/ /\ SaveBegin(p, "loop") /\ UNCHANGED <<loadVars, loadRequested>>
  /\ UNCHANGED <<fileVars, gameVars, session, showing, saveRequested,
                 requests, crashes>>

\* The end of the loop, and the automatic state.
Exit ==
  /\ savePc = "loop"
  /\ IF session.autoSave THEN SaveBegin(Latest, "shutdown")
     ELSE savePc' = "shutdown" /\ UNCHANGED <<saving, recentSave>>
  /\ UNCHANGED <<fileVars, gameVars, session, requestVars, loadVars, crashes>>

\* ShutdownLoadStateAsync waits for the thread.
Joined == loadPc \in {"none", "ended"}

Reset ==
  /\ savePc' = "off" /\ session' = NoSession /\ saving' = NoSave
  /\ gameState' = NoFile /\ menuOpen' = FALSE /\ showing' = FALSE
  /\ loadRequested' = FALSE /\ saveRequested' = FALSE
  /\ recentSave' = FALSE /\ busy' = FALSE /\ readyFlag' = FALSE
  /\ ready' = NoLoad /\ taken' = NoLoad
  /\ UNCHANGED <<fileVars, reached, requests>>

ShutdownLoad ==
  /\ savePc = "shutdown" /\ Joined
  /\ Reset /\ joinable' = FALSE /\ UNCHANGED <<loadJob, crashes>>
  /\ loadPc' = IF loadPc = "ended" THEN "none" ELSE loadPc

\* The process dies, or is killed: what is on the disk remains.
Crash ==
  /\ savePc # "off" /\ crashes < MaxCrashes /\ crashes' = crashes + 1
  /\ Reset /\ joinable' = FALSE
  /\ loadPc' = "none" /\ loadJob' = NoLoad

PumpLoad == PumpReady \/ PumpApply
User == Play \/ Press \/ ToggleMenu \/ Exit
          \/ \E p \in Slots : MenuChoice(p)
Loop == \E p \in Slots : LoopLoad(p) \/ LoopSave(p)
SessionStart ==
  \E slot \in Paths \cup {NoPath}, restart, autoSave, autoLoad, verifiable
      \in BOOLEAN : Boot(slot, restart, autoSave, autoLoad, verifiable)

SaveNext == \/ SessionStart \/ User \/ Elapse \/ PumpLoad \/ SaveState \/ Loop
            \/ ShutdownLoad \/ LoadThread \/ Crash

SaveSpec == SaveInit /\ [][SaveNext]_saveVars

-----------------------------------------------------------------------------
(* Properties.                                                             *)

Contents == 0 .. MaxContent
Jobs == [path : Paths \cup {NoPath}, auto : BOOLEAN, data : Contents]
Saving == {"serialize", "invalidate", "rename", "identify", "capture"}

\* The types of the variables of savestate.cpp and of the files.
SaveTypeOK ==
  /\ state \in [Paths -> Contents] /\ sidecar \in [Paths -> Contents]
  /\ preview \in [Paths -> Contents]
  /\ savePc \in {"off", "loop", "apply", "shutdown"} \cup Saving
  /\ gameState \in Contents /\ reached \in Contents
  /\ session \in [verifiable : BOOLEAN, autoSave : BOOLEAN]
  /\ saving \in [path : Paths \cup {NoPath}, data : Contents,
                 then : {"loop", "shutdown"}]
  /\ {menuOpen, showing, loadRequested, saveRequested, recentSave, joinable,
      busy, readyFlag} \subseteq BOOLEAN
  /\ loadPc \in {"none", "read", "verify", "publish", "flag", "rest",
                 "ended"}
  /\ loadJob \in Jobs /\ ready \in Jobs /\ taken \in Jobs
  /\ requests \in 0 .. MaxRequests /\ crashes \in 0 .. MaxCrashes

\* A slot's image is one of what the slot holds, wherever a save failed or
\* the process died: state_file.h commits the state and then its preview, and
\* a failed capture must not leave the image of the old contents.
PreviewMatches ==
  \A p \in Paths : preview[p] # NoFile => preview[p] = state[p]

\* Whether a sidecar describes the state it stands beside, but for the moment
\* between the two renames of a save.
SidecarFits ==
  \A p \in Paths : (savePc = "identify" => saving.path # p)
                     => sidecar[p] \in {NoFile, state[p]}

\* A sidecar that does not fit its state makes canLoad refuse the slot.  While
\* no process died, no order of saves that fail half way leaves one.
SidecarDescribes == crashes = 0 => SidecarFits

\* Image and sidecar belong to the state they stand beside.
FilesMatch == PreviewMatches /\ SidecarDescribes

\* A state that was read has one owner and is never lost: the thread has it,
\* or the result slot waits with the flag raised or about to be, or main
\* applies it; a thread is only forgotten after its end, a second load never
\* starts over a first, and nothing is left when the session is over.
OneLoad ==
  /\ joinable \/ loadPc = "none"
  /\ loadPc \in {"read", "verify", "publish"} => ready = NoLoad /\ busy
  /\ ready # NoLoad => readyFlag \/ loadPc = "flag"
  /\ taken # NoLoad => savePc = "apply" /\ ready = NoLoad
  /\ savePc = "off" => loadPc = "none" /\ ready = NoLoad /\ taken = NoLoad

\* A load that began comes to its end: the session goes on without it, or the
\* user keeps the menu open (which does not pump), or the session ends.
LoadSettles == LoadBusy ~> (~LoadBusy \/ menuOpen)
=============================================================================
