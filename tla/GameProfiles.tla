---------------------------- MODULE GameProfiles ----------------------------
(***************************************************************************)
(* The profile a Flycast game starts with: parseCatalog composes the       *)
(* records of the game, of its records for the chip and for the device     *)
(* (config/flycast_game_catalog.cpp), applyFlycastGameCatalog lays the     *)
(* selected one over the configuration unless the player set a value by    *)
(* hand (main.cpp, config/catalog_precedence.h), the core reads options    *)
(* when it starts and when it is told of a change (core/core_loader.cpp).  *)
(* A value is named by what wrote it, so that one product is enough.       *)
(***************************************************************************)
EXTENDS Naturals, Sequences

CONSTANTS Options,    \* settings a profile may give
          Sensitive,  \* those with a more accurate value in the safe defaults
          Variant,    \* retrorun_flycast_core_variant
          Catalogs    \* records by scope and mode

BestValidated == "best_validated"
BestPerformance == "best_performance"
Modes == {BestValidated, BestPerformance}
Scopes == {"game", "chip", "device"}
Records == [there : BOOLEAN, inherits : BOOLEAN, sets : SUBSET Options]

ASSUME ProfilesAssumption ==
  /\ Sensitive \subseteq Options /\ Variant \in Options \ Sensitive
  /\ Catalogs \subseteq [Scopes \X Modes -> Records]
  /\ \A c \in Catalogs : \A i \in DOMAIN c :
       ~c[i].there => ~c[i].inherits /\ c[i].sets = {}

VARIABLES
  catalog,    \* the records of the selected catalog
  mapped,     \* chipForDeviceName knows the name of the device
  written,    \* the configuration, as the player left it
  manual,     \* retrorun_flycast_manual_overrides
  wished,     \* the mode configured for cores of the loaded one's kind
  profPc,     \* where main is
  conf,       \* conf_map
  dirty,      \* coreVariablesUpdated
  coreHas,    \* the options as the core read them
  restart     \* RETRORUN_FLYCAST_VARIANT_RESTARTED

profVars == <<catalog, mapped, written, manual, wished, profPc, conf, dirty,
              coreHas, restart>>

-----------------------------------------------------------------------------
(* Who wrote a value.                                                      *)

Nobody == <<"nobody", "">>
Player == <<"player", "">>
LowEndDefault == <<"default", "low-end">>
SafeDefault == <<"default", "safe">>
Writers ==
  {Nobody, Player, LowEndDefault, SafeDefault} \cup (Scopes \X Modes)

-----------------------------------------------------------------------------
(* parseCatalog: profiles out of records.                                  *)

NoProfile == [found |-> FALSE, validated |-> FALSE, mode |-> BestValidated,
              settings |-> [s \in Options |-> Nobody]]

\* defaults and safeDefaults; no default asks for another core.
Foundation(safe) ==
  [s \in Options |->
     CASE s = Variant -> Nobody
       [] s \in Sensitive /\ safe -> SafeDefault
       [] OTHER -> LowEndDefault]

\* The settings of a record over those of what it starts from.
Layered(raw, i, base) ==
  [found |-> raw[i].there /\ base.found,
   validated |-> base.validated \/ raw[i].sets # {},
   mode |-> i[2],
   settings |-> [s \in Options |->
                   IF s \in raw[i].sets THEN i ELSE base.settings[s]]]

\* What a record of the game starts from: a title alone is no validation.
Ground(raw, mode) ==
  LET r == raw[<<"game", mode>>]
      titleOnlyBaseline == mode = BestValidated /\ r.sets = {} /\ ~r.inherits
  IN [found |-> TRUE, validated |-> ~titleOnlyBaseline, mode |-> mode,
      settings |-> Foundation(titleOnlyBaseline)]

\* The products of a scope from the base each mode starts from; only
\* best_performance may inherit, and only best_validated of its scope.
Products(raw, scope, base) ==
  LET validated == Layered(raw, <<scope, BestValidated>>,
                           base[BestValidated])
      inherited == raw[<<scope, BestPerformance>>].inherits
  IN [m \in Modes |->
        IF m = BestValidated THEN validated
        ELSE Layered(raw, <<scope, m>>,
                     IF inherited THEN validated ELSE base[m])]

resolveProfile(raw) == Products(raw, "game", [m \in Modes |-> Ground(raw, m)])

\* Mutant: a product without the mode gives its other one.
FindAnyBase(products, mode) ==
  IF products[mode].found THEN products[mode]
  ELSE products[CHOOSE m \in Modes : m # mode]

\* A product in a mode, or its best_validated.
findBase(products, mode) ==
  IF products[mode].found THEN products[mode] ELSE products[BestValidated]

resolveScopedProfile(raw, scope, preferred, global) ==
  Products(raw, scope,
           [m \in Modes |-> IF findBase(preferred, m).found
                            THEN findBase(preferred, m)
                            ELSE findBase(global, m)])

NoProducts == [m \in Modes |-> NoProfile]

\* The chip under a device's records is the one its name stands for.
parseCatalog(raw, known) ==
  LET game == resolveProfile(raw)
      chip == resolveScopedProfile(raw, "chip", NoProducts, game)
      device == resolveScopedProfile(
                  raw, "device", IF known THEN chip ELSE NoProducts, game)
  IN [sc \in Scopes |->
        CASE sc = "game" -> game [] sc = "chip" -> chip
          [] sc = "device" -> device]

\* A catalog with a record that cannot be resolved is rejected as a whole.
ValidCatalog(raw, known) ==
  /\ ~raw[<<"game", BestValidated>>].inherits
  /\ ~raw[<<"chip", BestValidated>>].inherits
  /\ ~raw[<<"device", BestValidated>>].inherits
  /\ \E m \in Modes : raw[<<"game", m>>].there
  /\ \A sc \in Scopes, m \in Modes :
       raw[<<sc, m>>].there => parseCatalog(raw, known)[sc][m].found

selectFromProducts(products, mode) ==
  LET p == findBase(products, mode)
  IN IF p.found /\ p.validated THEN p ELSE NoProfile

\* selectProfile: the device, then the chip, then the game.
selectProfile(profiles, mode) ==
  LET at(sc) == selectFromProducts(profiles[sc], mode)
  IN CASE mode \notin Modes -> NoProfile
       [] mode \in Modes /\ at("device").found -> at("device")
       [] mode \in Modes /\ ~at("device").found /\ at("chip").found ->
            at("chip")
       [] OTHER -> at("game")

-----------------------------------------------------------------------------
(* A start of RetroRun.                                                    *)

Unset == [s \in Options |-> Nobody]

ProfInit ==
  /\ catalog \in Catalogs /\ mapped \in BOOLEAN
  /\ ValidCatalog(catalog, mapped)
  /\ written \in [Options -> {Nobody, Player}]
  /\ manual \in {{}, {s \in Options : written[s] = Player}}
  /\ wished \in Modes \cup {"disabled"}
  /\ profPc = "configured" /\ conf = written /\ dirty = FALSE
  /\ coreHas = Unset /\ restart = FALSE

\* core_load: the core names its options and reads what is configured.
CoreLoads ==
  /\ profPc = "configured" /\ profPc' = "loaded" /\ coreHas' = conf
  /\ UNCHANGED <<catalog, mapped, written, manual, wished, conf, dirty,
                 restart>>

\* preserveManualCatalogSettings and applyTransientConfigOverrides.
Overridden(settings) ==
  [s \in Options |-> IF settings[s] = Nobody \/ s \in manual THEN conf[s]
                     ELSE settings[s]]

\* applyFlycastGameCatalog.  The core tells the product number or does not;
\* after a restart the number is kept in the environment.
ApplyFlycastGameCatalog ==
  /\ profPc = "loaded" /\ profPc' = "resolved"
  /\ \E probed \in BOOLEAN :
       LET profile == selectProfile(parseCatalog(catalog, mapped), wished)
           applies == (probed \/ restart) /\ profile.found
       IN conf' = IF applies THEN Overridden(profile.settings) ELSE conf
  /\ dirty' = (dirty \/ conf' # conf)
  /\ UNCHANGED <<catalog, mapped, written, manual, wished, coreHas, restart>>

\* flycastRequestedCoreVariant: what a profile asks for, not the player.
Requested == conf[Variant] \in Scopes \X Modes

\* maybeRestartWithFlycastCoreVariant: exec with the other core, which may be
\* of the kind that has a mode of its own configured.
RestartWithVariant ==
  /\ profPc = "resolved" /\ Requested /\ ~restart
  /\ profPc' = "configured" /\ restart' = TRUE
  /\ conf' = written /\ dirty' = FALSE /\ coreHas' = Unset
  /\ wished' \in Modes \cup {"disabled"}
  /\ UNCHANGED <<catalog, mapped, written, manual>>

\* No other core is asked for, it is the active one or it is missing; then
\* core_load_game, in which a core may read the options again.
CoreLoadsGame ==
  /\ profPc = "resolved" /\ profPc' = "running"
  /\ coreHas' \in {coreHas, conf}
  /\ UNCHANGED <<catalog, mapped, written, manual, wished, conf, dirty,
                 restart>>

\* retro_run: RETRO_ENVIRONMENT_GET_VARIABLE_UPDATE, and GET_VARIABLE of
\* every option when something changed (consumeCoreVariablesUpdated).
CoreRuns ==
  /\ profPc = "running" /\ profPc' = "played"
  /\ coreHas' = (IF dirty THEN conf ELSE coreHas) /\ dirty' = FALSE
  /\ UNCHANGED <<catalog, mapped, written, manual, wished, conf, restart>>

ProfNext ==
  \/ CoreLoads \/ ApplyFlycastGameCatalog \/ RestartWithVariant
  \/ CoreLoadsGame \/ CoreRuns

ProfSpec == ProfInit /\ [][ProfNext]_profVars

-----------------------------------------------------------------------------
(* Properties.                                                             *)

Declared(i) == catalog[i].there

\* The record of a scope that serves a mode.
Server(scope, mode) ==
  IF Declared(<<scope, mode>>) THEN <<scope, mode>>
  ELSE <<scope, BestValidated>>

\* The scopes beneath one, the closest first.
Under(scope) ==
  IF scope = "device" /\ mapped THEN <<"chip", "game">>
  ELSE IF scope # "game" THEN <<"game">> ELSE << >>

\* The record a record starts from, found by looking rather than composing:
\* << >> is the foundation.
Beneath(i) ==
  LET under == Under(i[1])
      has == {k \in DOMAIN under : Declared(Server(under[k], i[2]))}
  IN CASE catalog[i].inherits -> <<i[1], BestValidated>>
       [] ~catalog[i].inherits /\ has # {} ->
            Server(under[CHOOSE k \in has : \A l \in has : k <= l], i[2])
       [] OTHER -> << >>

\* A record and those beneath it; a chain has at most four.
Lineage(i) ==
  LET under(l) == IF l = << >> \/ Beneath(l[Len(l)]) = << >> THEN l
                  ELSE Append(l, Beneath(l[Len(l)]))
  IN under(under(under(<<i>>)))

\* The most specific record that declares a setting.
Author(i, s) ==
  LET line == Lineage(i)
      says == {k \in DOMAIN line : s \in catalog[line[k]].sets}
      ground == line[Len(line)]
      titleOnly == ground[2] = BestValidated /\ catalog[ground].sets = {}
  IN CASE says # {} -> line[CHOOSE k \in says : \A l \in says : k <= l]
       [] says = {} /\ s = Variant -> Nobody
       [] OTHER -> IF titleOnly /\ s \in Sensitive THEN SafeDefault
                   ELSE LowEndDefault

\* The record of a scope that serves the mode, and whether anything in it or
\* beneath it was tested; the fastest variant needs no setting for that.
Serving(sc) == Server(sc, wished)

Tested(i) ==
  LET line == Lineage(i)
  IN \/ \E k \in DOMAIN line : catalog[line[k]].sets # {}
     \/ line[Len(line)] = <<"game", BestPerformance>>

Serves(sc) == Declared(Serving(sc)) /\ Tested(Serving(sc))

\* What the player set by hand is never changed, whatever the catalog says.
ManualKept == \A s \in manual : conf[s] = written[s]

\* best_validated applies nothing that only best_performance declares, and
\* nothing at all applies when profiles are disabled.
ModeHonoured ==
  profPc \notin {"configured", "loaded"} =>
    /\ wished = BestValidated =>
         \A s \in Options : conf[s] \notin Scopes \X {BestPerformance}
    /\ wished = "disabled" => conf = written

\* A game whose records for this device are titles keeps the configuration,
\* unless a best_performance record of the game has neither a setting nor an
\* inheritance.
UntestedUntouched ==
  LET r == catalog[<<"game", BestPerformance>>]
  IN (\A i \in DOMAIN catalog : catalog[i].sets = {})
       /\ (wished = BestValidated \/ ~r.there \/ r.inherits)
       => conf = written

\* A configuration the catalog changed has the settings of the most specific
\* scope that serves the mode, each from the most specific record beneath it
\* that declares it.
LayersInOrder ==
  conf # written =>
    \E sc \in Scopes :
      /\ wished \in Modes /\ Serves(sc)
      /\ sc # "device" => ~Serves("device")
      /\ sc = "game" => ~Serves("chip")
      /\ \A s \in Options \ manual :
           conf[s] = IF Author(Serving(sc), s) = Nobody THEN written[s]
                     ELSE Author(Serving(sc), s)

\* What the core plays with is what is configured.
CoreUpToDate == profPc = "played" => coreHas = conf

\* The profile a game runs with: the parts above, together.
ProfileTrue ==
  /\ ManualKept /\ ModeHonoured /\ UntestedUntouched /\ LayersInOrder
  /\ CoreUpToDate
=============================================================================
