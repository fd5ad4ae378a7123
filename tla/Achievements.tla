---------------------------- MODULE Achievements ----------------------------
(***************************************************************************)
(* services/achievements.cpp with the disk control of core/disk_control    *)
(* that changes the media: main, one thread that hashes a disc             *)
(* (achievement_disc.cpp) and one per request to the server.  The client   *)
(* of rcheevos is external: it sends requests and is called back; a game   *)
(* it loads replaces the one it is loading.                                *)
(***************************************************************************)
EXTENDS Integers, Sequences, FiniteSets

CONSTANTS Media,       \* the discs
          Original,    \* the content the program was started with
          NoMedia,
          MaxChanges,  \* bound: discs inserted
          MaxToggles   \* bound: achievements_init from the menu

ASSUME AchievementsAssumption ==
  /\ Original \in Media /\ NoMedia \notin Media
  /\ MaxChanges \in Nat /\ MaxToggles \in Nat

VARIABLES
  achPc,     \* main: free, or waiting in a join for what follows
  client,    \* rc_client_t exists
  login,     \* login_pending, then how it ended
  content,   \* the path to be identified at the end of the login
  game, loading,  \* rcheevos: the media of the game loaded, of one loading
  hashPc, hashJob,    \* the hashing thread
  hashCancel, completed,  \* hash_cancel, hash_completed
  inFlight, answered, \* requests of the threads, results to be pumped
  badge,     \* the badge_cache entry of the one badge
  tray, disc,     \* the core's drive
  told, asked,    \* history: the media announced last, the last one whose
                  \* hash reached the client or was given up
  changes, toggles    \* bounds

hashVars == <<hashPc, hashJob, hashCancel, completed>>
rcVars == <<client, login, content, game, loading>>
boundVars == <<changes, toggles>>
historyVars == <<told, asked>>
achVars == <<achPc, rcVars, hashVars, inFlight, answered, badge, tray, disc,
             historyVars, boundVars>>

NoHash == [path |-> NoMedia, change |-> FALSE]
Free == [at |-> "free", job |-> NoHash, ok |-> FALSE, init |-> FALSE]

\* Before achievements_init has run.
AchInit ==
  /\ achPc = [Free EXCEPT !.at = "end", !.init = TRUE]
  /\ client = FALSE /\ login = "none" /\ content = NoMedia
  /\ game = NoMedia /\ loading = NoMedia
  /\ hashPc = "none" /\ hashJob = NoHash /\ hashCancel = FALSE
  /\ completed = << >> /\ inFlight = {} /\ answered = {}
  /\ badge = "absent" /\ tray = "closed" /\ disc = Original
  /\ told = NoMedia /\ asked = NoMedia /\ changes = 0 /\ toggles = 0

Idle == achPc.at = "free"

-----------------------------------------------------------------------------
(* The threads.                                                            *)

ThreadFrame == UNCHANGED <<achPc, rcVars, badge, tray, disc, historyVars,
                           boundVars>>

\* hash_disc reads until it is done or sees the cancellation.
Hash ==
  /\ hashPc = "hashing" /\ hashPc' = "check"
  /\ ThreadFrame
  /\ UNCHANGED <<hashJob, hashCancel, completed, inFlight, answered>>

\* The flag is looked at before the lock is taken.
HashCheck ==
  /\ hashPc = "check"
  /\ hashPc' = IF hashCancel THEN "ended" ELSE "publish"
  /\ ThreadFrame
  /\ UNCHANGED <<hashJob, hashCancel, completed, inFlight, answered>>

HashPublish ==
  /\ hashPc = "publish" /\ hashPc' = "ended"
  /\ \E ok \in BOOLEAN :
       completed' = <<[path |-> hashJob.path, change |-> hashJob.change,
                      ok |-> ok]>>
  /\ ThreadFrame /\ UNCHANGED <<hashJob, hashCancel, inFlight, answered>>

\* A thread of server_call or request_badge: the answer, an error or the
\* timeout of 20 seconds.
Answer(r) ==
  /\ r \in inFlight /\ inFlight' = inFlight \ {r}
  /\ \E ok \in BOOLEAN :
       answered' = answered \cup {[request |-> r, ok |-> ok]}
  /\ ThreadFrame /\ UNCHANGED hashVars

Threads == Hash \/ HashCheck \/ HashPublish \/ \E r \in inFlight : Answer(r)

-----------------------------------------------------------------------------
(* Main: the hash.                                                         *)

Request(kind, path) == [kind |-> kind, path |-> path]

\* start_disc_hash cancels the thread before, and waits for it.
HashStart(path, change) ==
  /\ hashCancel' = TRUE
  /\ achPc' = [Free EXCEPT !.at = "hash",
                 !.job = [path |-> path, change |-> change]]
  /\ UNCHANGED <<hashPc, hashJob, completed>>

\* Mutant: what the thread before has published stays.
ResultKept == completed
ResultLeft == << >>
Cancelled == FALSE

HashJoin ==
  /\ achPc.at = "hash" /\ hashPc \in {"none", "ended"}
  /\ achPc' = Free /\ hashPc' = "hashing" /\ hashJob' = achPc.job
  /\ hashCancel' = Cancelled /\ completed' = ResultLeft
  /\ UNCHANGED <<rcVars, inFlight, answered, badge, tray, disc, historyVars,
                 boundVars>>

\* pump_background_hash, called every frame, takes the result out, then joins
\* the thread.  Without a hash a media change is announced as [NO HASH].
PumpTake ==
  /\ Idle /\ completed # << >> /\ completed' = << >>
  /\ achPc' = [at |-> "pump", ok |-> completed[1].ok, init |-> FALSE,
               job |-> [path |-> completed[1].path,
                        change |-> completed[1].change]]
  /\ UNCHANGED <<rcVars, hashPc, hashJob, hashCancel, inFlight, answered,
                 badge, tray, disc, historyVars, boundVars>>

PumpHash ==
  /\ achPc.at = "pump" /\ hashPc \in {"none", "ended"}
  /\ achPc' = Free /\ hashPc' = "none" /\ hashJob' = NoHash
  /\ LET r == achPc.job IN
     /\ asked' = IF client THEN r.path ELSE asked
     /\ inFlight' =
          IF client /\ (achPc.ok \/ r.change)
          THEN inFlight \cup {Request(IF r.change THEN "change" ELSE "load",
                                      IF achPc.ok THEN r.path ELSE NoMedia)}
          ELSE inFlight
     /\ loading' = IF client /\ achPc.ok /\ ~r.change THEN r.path ELSE loading
  /\ UNCHANGED <<client, login, content, game, hashCancel, completed,
                 answered, badge, tray, disc, told, boundVars>>

-----------------------------------------------------------------------------
(* Main: the results of the server.                                        *)

Pumped(r) == Idle /\ r \in answered /\ answered' = answered \ {r}
PumpFrame == UNCHANGED <<client, tray, disc, told, boundVars>>

\* identify_game: a CHD or CDI image is hashed by the thread.
Identify(inDisc) ==
  IF inDisc
  THEN /\ HashStart(content, FALSE)
       /\ UNCHANGED <<loading, inFlight, asked>>
  ELSE /\ loading' = content /\ asked' = content
       /\ inFlight' = inFlight \cup {Request("load", content)}
       /\ UNCHANGED <<achPc, hashVars>>

LoginComplete(r) ==
  /\ Pumped(r) /\ r.request.kind = "login"
  /\ IF r.ok THEN login' = "ok" /\ \E inDisc \in BOOLEAN : Identify(inDisc)
     ELSE login' = "failed"
          /\ UNCHANGED <<achPc, hashVars, loading, inFlight, asked>>
  /\ PumpFrame /\ UNCHANGED <<content, game, badge>>

\* game_loaded, for the load rcheevos still has under way.
GameLoaded(r) ==
  /\ Pumped(r) /\ r.request.kind = "load"
  /\ LET current == loading = r.request.path IN
     /\ game' = IF current /\ r.ok THEN r.request.path ELSE game
     /\ loading' = IF current THEN NoMedia ELSE loading
  /\ PumpFrame
  /\ UNCHANGED <<achPc, login, content, hashVars, inFlight, badge, asked>>

MediaChanged(r) ==
  /\ Pumped(r) /\ r.request.kind = "change"
  /\ game' \in {game, r.request.path}
  /\ PumpFrame
  /\ UNCHANGED <<achPc, login, content, loading, hashVars, inFlight, badge,
                 asked>>

\* pump_badges.
BadgeDone(r) ==
  /\ Pumped(r) /\ r.request.kind = "badge"
  /\ badge' = IF r.ok THEN "ready" ELSE "failed"
  /\ PumpFrame
  /\ UNCHANGED <<achPc, login, content, game, loading, hashVars, inFlight,
                 asked>>

\* request_badge, from a notification or from the view, frame by frame.  The
\* file in the cache directory may serve.
WantBadge ==
  /\ Idle /\ badge = "absent"
  /\ \/ badge' = "ready" /\ UNCHANGED inFlight
     \/ /\ badge' = "loading"
        /\ inFlight' = inFlight \cup {Request("badge", NoMedia)}
  /\ UNCHANGED <<achPc, rcVars, hashVars, answered, tray, disc, historyVars,
                 boundVars>>

-----------------------------------------------------------------------------
(* Main: the lifecycle.                                                    *)

\* achievements_shutdown waits for every thread, then forgets everything.
ShutdownBegin(init) ==
  /\ Idle /\ hashCancel' = TRUE
  /\ achPc' = [Free EXCEPT !.at = "end", !.init = init]
  /\ UNCHANGED <<rcVars, hashPc, hashJob, completed, inFlight, answered, badge,
                 tray, disc, historyVars>>

\* Mutant: badge_cache is not cleared.
BadgeKept == badge
BadgeLeft == "absent"

\* achievements_init: settings, credentials or a file that is missing end it
\* without a client.
ShutdownJoin ==
  /\ achPc.at = "end" /\ hashPc \in {"none", "ended"} /\ inFlight = {}
  /\ hashPc' = "none" /\ hashJob' = NoHash /\ completed' = << >>
  /\ answered' = {} /\ badge' = BadgeLeft
  /\ game' = NoMedia /\ loading' = NoMedia
  /\ asked' = NoMedia /\ achPc' = Free
  /\ \/ /\ client' = FALSE /\ login' = "none" /\ content' = NoMedia
        /\ told' = NoMedia /\ inFlight' = {}
     \/ /\ achPc.init /\ client' = TRUE /\ login' = "pending"
        /\ content' = Original /\ told' = Original
        /\ inFlight' = {Request("login", NoMedia)}
  /\ UNCHANGED <<hashCancel, tray, disc, boundVars>>

\* The menu: enabled or disabled, or other credentials.
Toggle ==
  /\ toggles < MaxToggles /\ toggles' = toggles + 1
  /\ \E init \in BOOLEAN : ShutdownBegin(init)
  /\ UNCHANGED changes

-----------------------------------------------------------------------------
(* Main: the disk control.                                                 *)

\* achievements_change_media.
ChangeMedia(path) ==
  IF ~client THEN UNCHANGED <<achPc, content, hashVars, told>>
  ELSE /\ told' = path
       /\ IF game # NoMedia THEN HashStart(path, TRUE) /\ UNCHANGED content
          ELSE /\ content' = path
               /\ IF login = "pending" THEN UNCHANGED <<achPc, hashVars>>
                  ELSE HashStart(path, FALSE)

\* rr_disk_control_add_and_select: eject, add, replace, select, insert; each
\* may be refused by the core.  Refused at the last step the tray is open,
\* and from then on it is taken for ejected by the user.
InsertDisc(path) ==
  /\ Idle /\ changes < MaxChanges /\ changes' = changes + 1
  /\ \/ /\ tray' \in IF tray = "open" THEN {"open"} ELSE {"closed", "open"}
        /\ UNCHANGED <<disc, achPc, content, hashVars, told>>
     \/ /\ tray = "closed" /\ tray' = "open" /\ disc' = path
        /\ UNCHANGED <<achPc, content, hashVars, told>>
     \/ /\ disc' = path /\ UNCHANGED tray
        /\ ChangeMedia(path)
  /\ UNCHANGED <<client, login, game, loading, inFlight, answered, badge,
                 asked, toggles>>

Pump == PumpTake \/ \E r \in answered :
          LoginComplete(r) \/ GameLoaded(r) \/ MediaChanged(r) \/ BadgeDone(r)
Joins == HashJoin \/ PumpHash \/ ShutdownJoin

AchNext == \/ Threads \/ Pump \/ Joins \/ WantBadge \/ Toggle
           \/ \E path \in Media : InsertDisc(path)
AchSpec == AchInit /\ [][AchNext]_achVars

-----------------------------------------------------------------------------
(* Properties.                                                             *)

\* The comment over start_disc_hash: "a completed hash cannot target a later
\* game".  Whatever reaches the client is of the media announced last, with
\* the changes, cancellations and restarts of the service in any order.
NoStaleHash == [][asked' # asked => asked' \in {told, NoMedia}]_asked

\* No announced media is forgotten: when the login is through, nobody hashes
\* and nothing waits to be pumped, the client was given the last one.
MediaFollows ==
  Idle /\ client /\ login = "ok" /\ hashPc \in {"none", "ended"}
       /\ completed = << >> => asked = told

\* A badge is loading exactly as long as one download of it is under way, so
\* that it never stays empty and is never asked for twice.
BadgeSettles ==
  (badge = "loading") =
    (Cardinality({r \in inFlight : r.kind = "badge"})
       + Cardinality({r \in answered : r.request.kind = "badge"}) = 1)

\* Neither a media nor a badge is lost between the threads.
NothingForgotten == MediaFollows /\ BadgeSettles
=============================================================================
