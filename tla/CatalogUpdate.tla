--------------------------- MODULE CatalogUpdate ---------------------------
(***************************************************************************)
(* Which game catalog a launch uses, and the process it may leave behind   *)
(* that looks for a newer one (config/flycast_game_catalog_update.cpp; the *)
(* choice is in applyFlycastGameCatalog, main.cpp).  Of a catalog only its *)
(* version is kept, or that it is not valid or not there.  The server may  *)
(* answer with any version, an older one too, with rubbish, or not at all. *)
(***************************************************************************)
EXTENDS Integers, FiniteSets

CONSTANTS MaxVersion,  \* bound: versions of the catalog
          MaxLaunches  \* bound: launches

ASSUME UpdateAssumption == MaxVersion \in Nat \ {0} /\ MaxLaunches \in Nat

VARIABLES
  builtin,   \* version of BuiltinCatalogText
  localFile, \* version of the file beside the executable
  cached,    \* version of the cached file
  stampFresh,\* the .last-check file is less than a day old
  workers,   \* processes that were forked, one record each
  usedNow,   \* catalog version of the last launch
  checks,    \* forked since the stamp last was too old
  launches   \* bound

updateVars == <<builtin, localFile, cached, stampFresh, workers, usedNow,
                checks, launches>>

NoCatalog == 0
NotValid == -1
Versions == 1 .. MaxVersion

\* considerCatalog: a valid candidate with a greater version.
considerCatalog(candidate, selected) ==
  IF candidate > selected THEN candidate ELSE selected

UpdateInit ==
  /\ builtin \in Versions /\ localFile \in Versions \cup {NoCatalog, NotValid}
  /\ cached \in {NoCatalog, NotValid} /\ stampFresh = FALSE /\ workers = {}
  /\ usedNow = NoCatalog /\ checks = 0 /\ launches = 0

\* A launch with automatic updates, or with them or the profiles disabled.
\* markCheckDue writes the stamp first, or fails and nothing is checked.
Launch(automatic) ==
  LET used == considerCatalog(cached, considerCatalog(localFile, builtin))
      due == automatic /\ ~stampFresh
  IN /\ launches < MaxLaunches /\ launches' = launches + 1
     /\ usedNow' = used
     /\ \/ ~due /\ UNCHANGED <<stampFresh, workers, checks>>
        \/ due /\ UNCHANGED <<stampFresh, workers, checks>>
        \/ /\ due /\ stampFresh' = TRUE /\ checks' = checks + 1
           /\ workers' = workers \cup
                {[id |-> launches, current |-> used, at |-> "download",
                  got |-> NoCatalog]}
     /\ UNCHANGED <<builtin, localFile, cached>>

\* Mutant: any valid catalog is installed.
AnyVersion(version, current) == version > NoCatalog

\* The download passed the checks of downloadAndInstall.
Newer(version, current) == version > current

Moved(w, v) == workers' = (workers \ {w}) \cup {v}

Download(w) ==
  /\ w.at = "download"
  /\ \E v \in Versions \cup {NotValid} :
       IF Newer(v, w.current)
       THEN Moved(w, [w EXCEPT !.at = "rename", !.got = v])
       ELSE workers' = workers \ {w}
  /\ UNCHANGED <<builtin, localFile, cached, stampFresh, usedNow, checks,
                 launches>>

\* The temporary file is complete; the rename replaces the cached file at once.
Replace(w) ==
  /\ w.at = "rename" /\ cached' = w.got /\ workers' = workers \ {w}
  /\ UNCHANGED <<builtin, localFile, stampFresh, usedNow, checks, launches>>

\* A worker fails at any step, or the machine is switched off.
Dies(w) ==
  /\ workers' = workers \ {w}
  /\ UNCHANGED <<builtin, localFile, cached, stampFresh, usedNow, checks,
                 launches>>

\* A transfer ends within its timeout, long before a stamp is a day old.
DayPasses ==
  /\ stampFresh /\ workers = {} /\ stampFresh' = FALSE /\ checks' = 0
  /\ UNCHANGED <<builtin, localFile, cached, workers, usedNow, launches>>

UpdateNext ==
  \/ \E automatic \in BOOLEAN : Launch(automatic)
  \/ \E w \in workers : Download(w) \/ Replace(w) \/ Dies(w)
  \/ DayPasses

UpdateSpec == UpdateInit /\ [][UpdateNext]_updateVars

-----------------------------------------------------------------------------
(* Properties.                                                             *)

\* A launch never uses an older catalog than the launch before it, although
\* the server may have gone back, a check may end at any step and what is
\* installed was compared with the catalog of the launch that checks; and a
\* day has one check at most (scheduleCatalogUpdate, downloadAndInstall).
CatalogAdvances ==
  [][/\ usedNow' >= usedNow /\ checks' <= 1
     /\ cached' # cached => cached' \in Versions]_updateVars
=============================================================================
