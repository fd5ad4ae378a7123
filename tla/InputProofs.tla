---------------------------- MODULE InputProofs ----------------------------
(***************************************************************************)
(* What the player moves in and holds, proved for every value of the       *)
(* constants: the gamepads of both platforms, the keys, the menus and the  *)
(* list of achievements, and the controls the core reads.                  *)
(***************************************************************************)
EXTENDS InputProperties, Controls, FiniteSetTheorems, SequenceTheorems,
        WellFoundedInduction, TLAPS

-----------------------------------------------------------------------------
(* Numbers.                                                                *)

\* A non-empty set of naturals has a least element.
LEMMA LeastOf ==
  ASSUME NEW s \in SUBSET Nat, s # {}
  PROVE  \E m \in s : \A k \in s : m <= k
<1> DEFINE R == OpToRel(<, Nat)
<1>1. IsWellFoundedOn(R, Nat)
  BY NatLessThanWellFounded
<1>2. \A k, m \in Nat : k < m => <<k, m>> \in R
  BY DEF OpToRel
<1> HIDE DEF R
<1>3. PICK m \in s : \A k \in s : ~(<<k, m>> \in R)
  BY <1>1, WFMin
<1>4. ASSUME NEW k \in s PROVE m <= k
  <2>1. k \in Nat /\ m \in Nat /\ ~(<<k, m>> \in R)
    BY <1>3
  <2>2. ~(k < m)
    BY <1>2, <2>1
  <2> QED
    BY <2>1, <2>2
<1> QED
  BY <1>4

-----------------------------------------------------------------------------
(* The gamepad of the GO2 platform.                                        *)

PadEvents == [what : {"key", "syn", "overrun"}, of : Buttons \cup {""},
              down : BOOLEAN]

\* A batch of events: an overrun can only be the first, and the last is the
\* end of a report.
EventBatches ==
  {s \in Seq(PadEvents) :
     /\ \A i \in 2 .. Len(s) : s[i].what # "overrun"
     /\ Len(s) > 0 => s[Len(s)].what = "syn"
     /\ \A i \in 1 .. Len(s) : s[i].what = "key" => s[i].of \in Buttons}

TellsOf(s, i, b) == s[i].what = "key" /\ s[i].of = b
TellsAny(s, b) == \E i \in 1 .. Len(s) : TellsOf(s, i, b)
\* The last event about b says that it is held, or that it is not.
LastTells(s, b, held) ==
  \E i \in 1 .. Len(s) :
    /\ TellsOf(s, i, b) /\ (s[i].down = TRUE <=> b \in held)
    /\ \A j \in i + 1 .. Len(s) : ~TellsOf(s, j, b)

PadTypes ==
  /\ kernel \in EventBatches /\ Len(kernel) <= MaxWaiting
  /\ queue \in EventBatches
  /\ task \in {"none", "fill", "events", "publish", "ended"}
  /\ holding \subseteq Buttons /\ first \subseteq Buttons
  /\ reading \in BOOLEAN /\ whole \in BOOLEAN
  /\ ending \in {"no", "cancelled", "freed", "crashed"}

\* What the events that wait, and then what was collected, say of a button is
\* what is held.
ToldTruth ==
  \A b \in Buttons \ stale :
    IF TellsAny(kernel, b) THEN LastTells(kernel, b, holding)
    ELSE IF TellsAny(queue, b) THEN LastTells(queue, b, holding)
    ELSE b \in collected <=> b \in holding

\* Before a batch is begun, what was collected has been published.
AtBatch == task = "events" /\ (Len(queue) = 0 \/ queue[1].what = "overrun")
Publication ==
  /\ task \in {"none", "fill"} =>
       /\ queue = << >> /\ collected = {}
       /\ \A b \in first \ stale : TellsAny(kernel, b)
  /\ task = "fill" =>
       \A b \in Buttons \ toCopy : b \in current <=> b \in first
  /\ task = "publish" =>
       /\ Len(queue) > 0 => queue[1].what # "overrun"
       /\ \A b \in Buttons \ toCopy : b \in current <=> b \in collected
  /\ AtBatch =>
       \A b \in Buttons \ stale :
         ~TellsAny(queue, b) /\ ~TellsAny(kernel, b) =>
           (b \in current <=> b \in collected)

Copies ==
  /\ reading = FALSE => toRead = {}
  /\ whole = TRUE => \A b \in Buttons \ toRead : b \in seen <=> b \in current
  /\ ending # "no" => reading = FALSE
  /\ ending = "freed" => task = "ended" /\ samplers = {}

PadInv == PadTypes /\ ToldTruth /\ Publication /\ Copies

-----------------------------------------------------------------------------
(* Batches of events.                                                      *)

\* Of the events about a button one is the last.
LEMMA SomeLast ==
  ASSUME NEW s \in Seq(PadEvents), NEW b, TellsAny(s, b)
  PROVE  \E i \in 1 .. Len(s) :
           TellsOf(s, i, b) /\ \A j \in i + 1 .. Len(s) : ~TellsOf(s, j, b)
<1> DEFINE places ==
             {Len(s) - i : i \in {j \in 1 .. Len(s) : TellsOf(s, j, b)}}
<1>1. places \in SUBSET Nat /\ places # {}
  BY DEF TellsAny
<1>2. PICK m \in places : \A k \in places : m <= k
  BY <1>1, LeastOf
<1>3. PICK i \in 1 .. Len(s) : TellsOf(s, i, b) /\ m = Len(s) - i
  BY <1>2
<1>4. ASSUME NEW j \in i + 1 .. Len(s), TellsOf(s, j, b) PROVE FALSE
  <2>1. j \in 1 .. Len(s) /\ j > i
    BY <1>3
  <2>2. Len(s) - j \in places
    BY <1>4, <2>1
  <2>3. Len(s) - i <= Len(s) - j
    BY <1>2, <1>3, <2>2
  <2> QED
    BY <2>1, <2>3
<1> QED
  BY <1>3, <1>4

LEMMA ToldIs ==
  ASSUME NEW s \in Seq(PadEvents), NEW b
  PROVE  b \in Told(s) <=> TellsAny(s, b)
BY DEF Told, TellsAny, TellsOf

LEMMA EmptyBatch ==
  /\ << >> \in EventBatches /\ Len(<< >>) = 0
  /\ \A b : ~TellsAny(<< >>, b)
BY DEF EventBatches, TellsAny

\* What is left of a batch once its first event has been handled.
LEMMA TailBatch ==
  ASSUME NEW s \in EventBatches, s # << >>
  PROVE  /\ Tail(s) \in EventBatches
         /\ Len(Tail(s)) > 0 => Tail(s)[1].what # "overrun"
         /\ Len(Tail(s)) = 0 => s[1].what = "syn"
         /\ \A b : TellsAny(s, b) <=> TellsOf(s, 1, b) \/ TellsAny(Tail(s), b)
<1>1. /\ s \in Seq(PadEvents) /\ Len(s) \in Nat \ {0}
      /\ Tail(s) \in Seq(PadEvents) /\ Len(Tail(s)) = Len(s) - 1
      /\ \A i \in 1 .. Len(s) - 1 : Tail(s)[i] = s[i + 1]
  BY DEF EventBatches
<1>2. Tail(s) \in EventBatches
  <2> DEFINE t == Tail(s)
  <2>1. /\ t \in Seq(PadEvents) /\ Len(t) = Len(s) - 1
        /\ \A i \in 1 .. Len(t) : i + 1 \in 2 .. Len(s) /\ t[i] = s[i + 1]
    BY <1>1
  <2> HIDE DEF t
  <2>2. \A i \in 1 .. Len(t) : t[i].what # "overrun"
    BY <2>1 DEF EventBatches
  <2>3. Len(t) > 0 => t[Len(t)].what = "syn"
    BY <1>1, <2>1 DEF EventBatches
  <2>4. ASSUME NEW i \in 1 .. Len(t), t[i].what = "key"
        PROVE  t[i].of \in Buttons
    <3>1. i + 1 \in 1 .. Len(s) /\ t[i] = s[i + 1]
      BY <1>1, <2>1
    <3> QED
      BY <2>4, <3>1 DEF EventBatches
  <2>5. t \in EventBatches
    BY <1>1, <2>1, <2>2, <2>3, <2>4 DEF EventBatches
  <2> QED
    BY <2>5 DEF t
<1>3. ASSUME NEW b
      PROVE  TellsAny(s, b) <=> TellsOf(s, 1, b) \/ TellsAny(Tail(s), b)
  <2>1. ASSUME NEW i \in 1 .. Len(s), TellsOf(s, i, b), i # 1
        PROVE  TellsAny(Tail(s), b)
    <3>1. i - 1 \in 1 .. Len(Tail(s)) /\ Tail(s)[i - 1] = s[i]
      BY <1>1, <2>1
    <3> QED
      BY <2>1, <3>1 DEF TellsAny, TellsOf
  <2>2. ASSUME NEW i \in 1 .. Len(Tail(s)), TellsOf(Tail(s), i, b)
        PROVE  TellsAny(s, b)
    <3>1. i + 1 \in 1 .. Len(s) /\ Tail(s)[i] = s[i + 1]
      BY <1>1
    <3> QED
      BY <2>2, <3>1 DEF TellsAny, TellsOf
  <2>3. 1 \in 1 .. Len(s)
    BY <1>1
  <2> QED
    BY <2>1, <2>2, <2>3 DEF TellsAny
<1>4. /\ Len(Tail(s)) > 0 => Tail(s)[1].what # "overrun"
      /\ Len(Tail(s)) = 0 => s[1].what = "syn"
  BY <1>1 DEF EventBatches
<1> QED
  BY <1>2, <1>3, <1>4

LEMMA TailLast ==
  ASSUME NEW s \in EventBatches, s # << >>, NEW b, NEW held,
         LastTells(s, b, held)
  PROVE  IF TellsAny(Tail(s), b) THEN LastTells(Tail(s), b, held)
         ELSE TellsOf(s, 1, b) /\ (s[1].down = TRUE <=> b \in held)
<1>1. /\ s \in Seq(PadEvents) /\ Len(s) \in Nat \ {0}
      /\ Tail(s) \in Seq(PadEvents) /\ Len(Tail(s)) = Len(s) - 1
      /\ \A i \in 1 .. Len(s) - 1 : Tail(s)[i] = s[i + 1]
  BY DEF EventBatches
<1>2. PICK i \in 1 .. Len(s) :
        /\ TellsOf(s, i, b) /\ (s[i].down = TRUE <=> b \in held)
        /\ \A j \in i + 1 .. Len(s) : ~TellsOf(s, j, b)
  BY DEF LastTells
<1>3. CASE i = 1
  <2>1. ASSUME NEW j \in 1 .. Len(Tail(s)) PROVE ~TellsOf(Tail(s), j, b)
    <3>1. j + 1 \in i + 1 .. Len(s) /\ Tail(s)[j] = s[j + 1]
      BY <1>1, <1>3
    <3> QED
      BY <1>2, <3>1 DEF TellsOf
  <2> QED
    BY <1>2, <1>3, <2>1 DEF TellsAny
<1>4. CASE i # 1
  <2>1. i - 1 \in 1 .. Len(Tail(s)) /\ Tail(s)[i - 1] = s[i]
    BY <1>1, <1>4
  <2>2. TellsOf(Tail(s), i - 1, b)
    BY <1>2, <2>1 DEF TellsOf
  <2>3. ASSUME NEW j \in (i - 1) + 1 .. Len(Tail(s))
        PROVE  ~TellsOf(Tail(s), j, b)
    <3>1. /\ j \in 1 .. Len(s) - 1 /\ j + 1 \in i + 1 .. Len(s)
          /\ Tail(s)[j] = s[j + 1]
      BY <1>1, <1>4
    <3> QED
      BY <1>2, <3>1 DEF TellsOf
  <2> QED
    BY <1>2, <2>1, <2>2, <2>3 DEF TellsAny, LastTells
<1> QED
  BY <1>3, <1>4

\* Two batches of which the second has no overrun are one.
LEMMA JoinedBatch ==
  ASSUME NEW s \in EventBatches, NEW t \in EventBatches,
         Len(t) > 0, t[1].what # "overrun"
  PROVE  /\ s \o t \in EventBatches /\ Len(s \o t) = Len(s) + Len(t)
         /\ \A b : TellsAny(s \o t, b) <=> TellsAny(s, b) \/ TellsAny(t, b)
<1>1. /\ s \in Seq(PadEvents) /\ t \in Seq(PadEvents)
      /\ Len(s) \in Nat /\ Len(t) \in Nat
      /\ s \o t \in Seq(PadEvents) /\ Len(s \o t) = Len(s) + Len(t)
      /\ \A i \in 1 .. Len(s) : (s \o t)[i] = s[i]
      /\ \A i \in 1 .. Len(t) : (s \o t)[Len(s) + i] = t[i]
  BY DEF EventBatches
<1> DEFINE st == s \o t
<1> HIDE DEF st
<1>2. ASSUME NEW i \in 1 .. Len(st)
      PROVE  \/ i \in 1 .. Len(s) /\ st[i] = s[i]
             \/ i - Len(s) \in 1 .. Len(t) /\ st[i] = t[i - Len(s)]
  <2>1. CASE i <= Len(s)
    BY <1>1, <2>1 DEF st
  <2>2. CASE i > Len(s)
    <3>1. i - Len(s) \in 1 .. Len(t) /\ i = Len(s) + (i - Len(s))
      BY <1>1, <2>2 DEF st
    <3> QED
      BY <1>1, <3>1 DEF st
  <2> QED
    BY <1>1, <2>1, <2>2
<1>3. st \in EventBatches
  <2>1. ASSUME NEW i \in 2 .. Len(st) PROVE st[i].what # "overrun"
    <3>1. i \in 1 .. Len(st)
      OBVIOUS
    <3>2. CASE i \in 1 .. Len(s) /\ st[i] = s[i]
      BY <3>2 DEF EventBatches
    <3>3. CASE i - Len(s) \in 1 .. Len(t) /\ st[i] = t[i - Len(s)]
      <4>1. i - Len(s) = 1 \/ i - Len(s) \in 2 .. Len(t)
        BY <3>3
      <4> QED
        BY <3>3, <4>1 DEF EventBatches
    <3> QED
      BY <1>2, <3>1, <3>2, <3>3
  <2>2. st[Len(st)].what = "syn"
    <3>1. Len(t) \in 1 .. Len(t) /\ st[Len(s) + Len(t)] = t[Len(t)]
      BY <1>1 DEF st
    <3> QED
      BY <1>1, <3>1 DEF st, EventBatches
  <2>3. ASSUME NEW i \in 1 .. Len(st), st[i].what = "key"
        PROVE  st[i].of \in Buttons
    BY <1>2, <2>3 DEF EventBatches
  <2> QED
    BY <1>1, <2>1, <2>2, <2>3 DEF st, EventBatches
<1>4. ASSUME NEW b
      PROVE  TellsAny(st, b) <=> TellsAny(s, b) \/ TellsAny(t, b)
  <2>1. TellsAny(st, b) => TellsAny(s, b) \/ TellsAny(t, b)
    BY <1>2 DEF TellsAny, TellsOf
  <2>2. ASSUME NEW i \in 1 .. Len(s), TellsOf(s, i, b)
        PROVE  TellsAny(st, b)
    <3>1. i \in 1 .. Len(st) /\ st[i] = s[i]
      BY <1>1 DEF st
    <3> QED
      BY <2>2, <3>1 DEF TellsAny, TellsOf
  <2>3. ASSUME NEW i \in 1 .. Len(t), TellsOf(t, i, b)
        PROVE  TellsAny(st, b)
    <3>1. Len(s) + i \in 1 .. Len(st) /\ st[Len(s) + i] = t[i]
      BY <1>1 DEF st
    <3> QED
      BY <2>3, <3>1 DEF TellsAny, TellsOf
  <2> QED
    BY <2>1, <2>2, <2>3 DEF TellsAny
<1> QED
  BY <1>1, <1>3, <1>4 DEF st

\* What the second tells of a button counts.
LEMMA JoinedLast ==
  ASSUME NEW s \in EventBatches, NEW t \in EventBatches, NEW b, NEW held,
         IF TellsAny(t, b) THEN LastTells(t, b, held)
         ELSE LastTells(s, b, held)
  PROVE  LastTells(s \o t, b, held)
<1>1. /\ s \in Seq(PadEvents) /\ t \in Seq(PadEvents)
      /\ Len(s) \in Nat /\ Len(t) \in Nat
      /\ s \o t \in Seq(PadEvents) /\ Len(s \o t) = Len(s) + Len(t)
      /\ \A i \in 1 .. Len(s) : (s \o t)[i] = s[i]
      /\ \A i \in 1 .. Len(t) : (s \o t)[Len(s) + i] = t[i]
  BY DEF EventBatches
<1> DEFINE st == s \o t
<1> HIDE DEF st
<1>2. CASE TellsAny(t, b)
  <2>1. PICK i \in 1 .. Len(t) :
          /\ TellsOf(t, i, b) /\ (t[i].down = TRUE <=> b \in held)
          /\ \A j \in i + 1 .. Len(t) : ~TellsOf(t, j, b)
    BY <1>2 DEF LastTells
  <2>2. Len(s) + i \in 1 .. Len(st) /\ st[Len(s) + i] = t[i]
    BY <1>1 DEF st
  <2>3. ASSUME NEW j \in (Len(s) + i) + 1 .. Len(st)
        PROVE  ~TellsOf(st, j, b)
    <3>1. /\ j - Len(s) \in i + 1 .. Len(t) /\ j - Len(s) \in 1 .. Len(t)
          /\ j = Len(s) + (j - Len(s))
      BY <1>1 DEF st
    <3>2. st[j] = t[j - Len(s)]
      BY <1>1, <3>1 DEF st
    <3> QED
      BY <2>1, <3>1, <3>2 DEF TellsOf
  <2> QED
    BY <2>1, <2>2, <2>3 DEF st, LastTells, TellsOf
<1>3. CASE ~TellsAny(t, b)
  <2>1. PICK i \in 1 .. Len(s) :
          /\ TellsOf(s, i, b) /\ (s[i].down = TRUE <=> b \in held)
          /\ \A j \in i + 1 .. Len(s) : ~TellsOf(s, j, b)
    BY <1>3 DEF LastTells
  <2>2. i \in 1 .. Len(st) /\ st[i] = s[i]
    BY <1>1 DEF st
  <2>3. ASSUME NEW j \in i + 1 .. Len(st) PROVE ~TellsOf(st, j, b)
    <3>1. CASE j <= Len(s)
      <4>1. j \in i + 1 .. Len(s) /\ j \in 1 .. Len(s)
        BY <1>1, <3>1
      <4>2. st[j] = s[j]
        BY <1>1, <4>1 DEF st
      <4> QED
        BY <2>1, <4>1, <4>2 DEF TellsOf
    <3>2. CASE j > Len(s)
      <4>1. j - Len(s) \in 1 .. Len(t) /\ j = Len(s) + (j - Len(s))
        BY <1>1, <3>2 DEF st
      <4>2. st[j] = t[j - Len(s)]
        BY <1>1, <4>1 DEF st
      <4> QED
        BY <1>3, <4>1, <4>2 DEF TellsAny, TellsOf
    <3> QED
      BY <1>1, <3>1, <3>2
  <2> QED
    BY <2>1, <2>2, <2>3 DEF st, LastTells, TellsOf
<1> QED
  BY <1>2, <1>3

\* Where all that is told of a button is true, the last is.
LEMMA TrueLast ==
  ASSUME NEW s \in EventBatches, NEW b, NEW held, TellsAny(s, b),
         \A i \in 1 .. Len(s) :
           TellsOf(s, i, b) => (s[i].down = TRUE <=> b \in held)
  PROVE  LastTells(s, b, held)
<1>1. s \in Seq(PadEvents)
  BY DEF EventBatches
<1> QED
  BY <1>1, SomeLast DEF LastTells

\* A report tells of the buttons that have changed, and the truth.
LEMMA TellingIs ==
  ASSUME NEW changes \in SUBSET Buttons, changes # {},
         NEW t \in Tellings(changes)
  PROVE  /\ t \in EventBatches
         /\ Len(t) \in 1 .. Cardinality(Buttons) + 1
         /\ \A i \in 1 .. Len(t) : t[i].what # "overrun"
         /\ \A b : TellsAny(t, b) <=> b \in changes
         /\ \A i \in 1 .. Len(t) : \A b :
              TellsOf(t, i, b) => (t[i].down = TRUE <=> b \notin holding)
<1> DEFINE n == Cardinality(changes)
<1>1. /\ n \in Nat /\ Cardinality(Buttons) \in Nat
      /\ n <= Cardinality(Buttons)
  BY PadAssumption, FS_Subset, FS_CardinalityType DEF PadAssumption
<1> HIDE DEF n
<1>2. PICK f \in [1 .. n -> changes] :
        /\ \A b \in changes : \E i \in 1 .. n : f[i] = b
        /\ t = Append([i \in 1 .. n |-> Key(f[i], f[i] \notin holding)], Syn)
  BY DEF Tellings, n
<1> DEFINE g == [i \in 1 .. n |-> Key(f[i], f[i] \notin holding)]
<1>3. \A i \in 1 .. n : /\ g[i].what = "key" /\ g[i].of = f[i]
                        /\ g[i].down = TRUE <=> f[i] \notin holding
                        /\ g[i] \in PadEvents
  BY <1>2 DEF Key, PadEvents
<1>4. g \in Seq(PadEvents) /\ Len(g) = n
  <2>1. g \in [1 .. n -> PadEvents]
    BY <1>3
  <2> QED
    BY <1>1, <2>1
<1>12. t = Append(g, Syn)
  BY <1>2
<1> HIDE DEF g
<1>5. Syn \in PadEvents /\ Syn.what = "syn"
  BY DEF Syn, PadEvents
<1>6. /\ t \in Seq(PadEvents) /\ Len(t) = n + 1 /\ t[n + 1] = Syn
      /\ \A i \in 1 .. n : t[i] = g[i]
  BY <1>1, <1>4, <1>5, <1>12
<1>7. \A i \in 1 .. Len(t) : i \in 1 .. n \/ t[i] = Syn
  BY <1>1, <1>6
<1>8. /\ \A i \in 1 .. Len(t) : t[i].what # "overrun"
      /\ \A i \in 1 .. Len(t) : t[i].what = "key" => i \in 1 .. n
  BY <1>3, <1>5, <1>6, <1>7
<1>9. t \in EventBatches
  <2>1. \A i \in 2 .. Len(t) : t[i].what # "overrun"
    BY <1>8
  <2>2. \A i \in 1 .. Len(t) : t[i].what = "key" => t[i].of \in Buttons
    <3>1. \A i \in 1 .. n : f[i] \in Buttons
      BY <1>2
    <3> QED
      BY <1>3, <1>6, <1>8, <3>1
  <2> QED
    BY <1>1, <1>5, <1>6, <2>1, <2>2 DEF EventBatches
<1>10. ASSUME NEW i \in 1 .. Len(t), NEW b, TellsOf(t, i, b)
       PROVE  b \in changes /\ (t[i].down = TRUE <=> b \notin holding)
  <2>1. i \in 1 .. n /\ t[i] = g[i] /\ b = g[i].of
    BY <1>6, <1>8, <1>10 DEF TellsOf
  <2>2. b = f[i] /\ (g[i].down = TRUE <=> f[i] \notin holding)
    BY <1>3, <2>1
  <2>3. f[i] \in changes
    BY <1>2, <2>1
  <2> QED
    BY <2>1, <2>2, <2>3
<1>11. ASSUME NEW b \in changes PROVE TellsAny(t, b)
  <2>1. PICK i \in 1 .. n : f[i] = b
    BY <1>2
  <2>2. i \in 1 .. Len(t) /\ t[i] = g[i]
    BY <1>1, <1>6
  <2>3. t[i].what = "key" /\ t[i].of = b
    BY <1>3, <2>1, <2>2
  <2> QED
    BY <2>2, <2>3 DEF TellsAny, TellsOf
<1>13. Len(t) \in 1 .. Cardinality(Buttons) + 1
  BY <1>1, <1>6
<1>14. \A b : TellsAny(t, b) <=> b \in changes
  BY <1>10, <1>11 DEF TellsAny
<1> QED
  BY <1>8, <1>9, <1>10, <1>13, <1>14

\* A sequence with another element in front.
LEMMA Headed ==
  ASSUME NEW S, NEW e \in S, NEW s \in Seq(S)
  PROVE  /\ <<e>> \o s \in Seq(S) /\ Len(<<e>> \o s) = 1 + Len(s)
         /\ (<<e>> \o s)[1] = e
         /\ \A i \in 1 .. Len(s) : (<<e>> \o s)[i + 1] = s[i]
<1> DEFINE one == <<e>>
<1>1. one \in Seq(S) /\ Len(one) = 1 /\ one[1] = e
  OBVIOUS
<1> HIDE DEF one
<1>2. /\ one \o s \in Seq(S) /\ Len(one \o s) = Len(one) + Len(s)
      /\ \A i \in 1 .. Len(one) + Len(s) : (one \o s)[i] =
           IF i <= Len(one) THEN one[i] ELSE s[i - Len(one)]
  BY <1>1, ConcatProperties
<1>3. Len(s) \in Nat
  OBVIOUS
<1>4. (one \o s)[1] = e
  BY <1>1, <1>2, <1>3
<1>5. ASSUME NEW i \in 1 .. Len(s) PROVE (one \o s)[i + 1] = s[i]
  BY <1>1, <1>2, <1>3
<1> QED
  BY <1>1, <1>2, <1>4, <1>5 DEF one

\* What an overrun leaves of a report.
LEMMA OverrunIs ==
  ASSUME NEW t \in EventBatches, NEW fits \in Nat, fits < Len(t),
         \A i \in 1 .. Len(t) : t[i].what # "overrun"
  PROVE  LET kept == SubSeq(t, fits + 1, Len(t))
             all == <<Overrun>> \o kept
         IN /\ all \in EventBatches /\ Len(all) = 1 + Len(t) - fits
            /\ all[1].what = "overrun"
            /\ \A b : b \in Told(kept) <=> TellsAny(all, b)
            /\ \A i \in 1 .. Len(all) : \A b : TellsOf(all, i, b) =>
                 \E j \in 1 .. Len(t) : all[i] = t[j] /\ TellsOf(t, j, b)
<1> DEFINE kept == SubSeq(t, fits + 1, Len(t))
           all == <<Overrun>> \o kept
<1>1. t \in Seq(PadEvents) /\ Len(t) \in Nat
  BY DEF EventBatches
<1>2. /\ kept \in Seq(PadEvents) /\ Len(kept) = Len(t) - fits
      /\ \A i \in 1 .. Len(kept) : kept[i] = t[fits + i]
  BY <1>1
<1>3. Overrun \in PadEvents /\ Overrun.what = "overrun"
  BY DEF Overrun, PadEvents
<1> HIDE DEF kept, all
<1>4. /\ all \in Seq(PadEvents) /\ Len(all) = 1 + Len(kept)
      /\ all[1] = Overrun
      /\ \A i \in 1 .. Len(kept) : all[i + 1] = kept[i]
  <2>1. /\ <<Overrun>> \o kept \in Seq(PadEvents)
        /\ Len(<<Overrun>> \o kept) = 1 + Len(kept)
        /\ (<<Overrun>> \o kept)[1] = Overrun
        /\ \A i \in 1 .. Len(kept) : (<<Overrun>> \o kept)[i + 1] = kept[i]
    <3>1. Overrun \in PadEvents /\ kept \in Seq(PadEvents)
      BY <1>2, <1>3
    <3> DEFINE e == Overrun
    <3>2. e \in PadEvents
      BY <3>1
    <3> HIDE DEF e
    <3>3. /\ <<e>> \o kept \in Seq(PadEvents)
          /\ Len(<<e>> \o kept) = 1 + Len(kept)
          /\ (<<e>> \o kept)[1] = e
          /\ \A i \in 1 .. Len(kept) : (<<e>> \o kept)[i + 1] = kept[i]
      BY <3>1, <3>2, Headed
    <3> QED
      BY <3>3 DEF e
  <2> QED
    BY <2>1 DEF all
<1>5. ASSUME NEW i \in 1 .. Len(all), i # 1
      PROVE  /\ i - 1 \in 1 .. Len(kept) /\ all[i] = kept[i - 1]
             /\ fits + (i - 1) \in 1 .. Len(t)
             /\ all[i] = t[fits + (i - 1)]
  <2>1. i - 1 \in 1 .. Len(kept) /\ i = (i - 1) + 1
    BY <1>1, <1>2, <1>4, <1>5
  <2>2. all[(i - 1) + 1] = kept[i - 1]
    BY <1>4, <2>1
  <2>3. all[i] = kept[i - 1] /\ kept[i - 1] = t[fits + (i - 1)]
    BY <1>2, <2>1, <2>2
  <2>4. fits + (i - 1) \in 1 .. Len(t)
    BY <1>1, <1>2, <2>1
  <2> QED
    BY <2>1, <2>3, <2>4
<1>6. all \in EventBatches
  <2>1. \A i \in 2 .. Len(all) : i \in 1 .. Len(all) /\ i # 1
    OBVIOUS
  <2>2. \A i \in 2 .. Len(all) : all[i].what # "overrun"
    BY <1>5, <2>1
  <2>3. all[Len(all)].what = "syn"
    <3>1. /\ Len(all) \in 1 .. Len(all) /\ Len(all) # 1
          /\ fits + (Len(all) - 1) = Len(t)
      BY <1>1, <1>2, <1>4
    <3>2. all[Len(all)] = t[Len(t)]
      BY <1>5, <3>1
    <3> QED
      BY <1>1, <3>2 DEF EventBatches
  <2>4. ASSUME NEW i \in 1 .. Len(all), all[i].what = "key"
        PROVE  all[i].of \in Buttons
    <3>1. i # 1
      BY <1>3, <1>4, <2>4
    <3> QED
      BY <1>5, <2>4, <3>1 DEF EventBatches
  <2> QED
    BY <1>4, <2>2, <2>3, <2>4 DEF EventBatches
<1>7. ASSUME NEW b PROVE b \in Told(kept) <=> TellsAny(all, b)
  <2>1. b \in Told(kept) <=> TellsAny(kept, b)
    BY <1>2, ToldIs
  <2>2. ASSUME NEW i \in 1 .. Len(kept), TellsOf(kept, i, b)
        PROVE  TellsAny(all, b)
    <3>1. i + 1 \in 1 .. Len(all) /\ all[i + 1] = kept[i]
      BY <1>2, <1>4
    <3> QED
      BY <2>2, <3>1 DEF TellsAny, TellsOf
  <2>3. ASSUME NEW i \in 1 .. Len(all), TellsOf(all, i, b)
        PROVE  TellsAny(kept, b)
    <3>1. i # 1
      BY <1>3, <1>4, <2>3 DEF TellsOf
    <3>2. i - 1 \in 1 .. Len(kept) /\ all[i] = kept[i - 1]
      BY <1>5, <3>1
    <3> QED
      BY <2>3, <3>2 DEF TellsAny, TellsOf
  <2> QED
    BY <2>1, <2>2, <2>3 DEF TellsAny
<1>8. ASSUME NEW i \in 1 .. Len(all), NEW b, TellsOf(all, i, b)
      PROVE  \E j \in 1 .. Len(t) : all[i] = t[j] /\ TellsOf(t, j, b)
  <2>1. i # 1
    BY <1>3, <1>4, <1>8 DEF TellsOf
  <2>2. /\ fits + (i - 1) \in 1 .. Len(t)
        /\ all[i] = t[fits + (i - 1)]
    BY <1>5, <2>1
  <2> QED
    BY <1>8, <2>2 DEF TellsOf
<1>9. Len(all) = 1 + Len(t) - fits /\ all[1].what = "overrun"
  BY <1>1, <1>2, <1>3, <1>4
<1> QED
  BY <1>6, <1>7, <1>8, <1>9 DEF all, kept

-----------------------------------------------------------------------------
(* The steps of the gamepad, its thread and main.                          *)

LEMMA LastSame ==
  ASSUME NEW s, NEW b, NEW h, NEW held, LastTells(s, b, h),
         b \in h <=> b \in held
  PROVE  LastTells(s, b, held)
BY DEF LastTells

LEMMA PadInvInit == Go2PadInit => PadInv
<1> SUFFICES ASSUME Go2PadInit PROVE PadInv
  OBVIOUS
<1>1. PadTypes
  <2>1. /\ kernel = << >> /\ queue = << >> /\ holding \subseteq Buttons
        /\ first \subseteq Buttons /\ ending = "no"
        /\ task \in {"none", "fill"} /\ reading = FALSE /\ whole = FALSE
    BY DEF Go2PadInit
  <2>2. 0 <= MaxWaiting
    BY PadAssumption DEF PadAssumption
  <2> QED
    BY <2>1, <2>2, EmptyBatch DEF PadTypes
<1>2. ToldTruth
  BY EmptyBatch DEF ToldTruth, Go2PadInit
<1>3. Publication
  BY DEF Publication, AtBatch, Go2PadInit
<1>4. Copies
  BY DEF Copies, Go2PadInit
<1> QED
  BY <1>1, <1>2, <1>3, <1>4 DEF PadInv

\* After a report, whatever it leaves in the device, a button that is not
\* stale is told of, truly, or it has neither changed nor been told of.
LEMMA ReportTells ==
  ASSUME PadInv, Report
  PROVE  /\ kernel' \in EventBatches /\ Len(kernel') <= MaxWaiting
         /\ holding' \subseteq Buttons
         /\ \A b \in Buttons \ stale' :
              \/ TellsAny(kernel', b) /\ LastTells(kernel', b, holding')
              \/ /\ ~TellsAny(kernel', b) /\ ~TellsAny(kernel, b)
                 /\ b \notin stale /\ (b \in holding' <=> b \in holding)
<1> DEFINE fits == MaxWaiting - Len(kernel)
           Kept(t) == SubSeq(t, fits + 1, Len(t))
           Outcome(changes, t) ==
             /\ holding' = (holding \ changes) \cup (changes \ holding)
             /\ IF Len(t) <= fits
                THEN kernel' = kernel \o t /\ stale' = stale \ changes
                ELSE /\ kernel' = <<Overrun>> \o Kept(t)
                     /\ stale' = (stale \ Told(Kept(t)))
                           \cup ((Told(kernel) \cup changes) \ Told(Kept(t)))
<1>9. PICK changes \in SUBSET Buttons :
        changes # {} /\ \E t \in Tellings(changes) : Outcome(changes, t)
  BY DEF Report
<1> HIDE DEF Outcome
<1>1. PICK t \in Tellings(changes) : Outcome(changes, t)
  BY <1>9
<1>2. /\ kernel \in EventBatches /\ kernel \in Seq(PadEvents)
      /\ fits \in Nat /\ Len(kernel) \in Nat /\ MaxWaiting \in Nat
      /\ Cardinality(Buttons) \in Nat
      /\ MaxWaiting >= Cardinality(Buttons) + 2
  BY PadAssumption, FS_CardinalityType
     DEF PadInv, PadTypes, PadAssumption, EventBatches
<1>3. changes \in SUBSET Buttons /\ changes # {}
  BY <1>9
<1>4. /\ t \in EventBatches
      /\ Len(t) \in 1 .. Cardinality(Buttons) + 1
      /\ \A i \in 1 .. Len(t) : t[i].what # "overrun"
      /\ \A b : TellsAny(t, b) <=> b \in changes
      /\ \A i \in 1 .. Len(t) : \A b :
           TellsOf(t, i, b) => (t[i].down = TRUE <=> b \notin holding)
  BY <1>3, TellingIs
<1>5. /\ holding' \subseteq Buttons
      /\ \A b \in changes : b \in holding' <=> b \notin holding
      /\ \A b : b \notin changes => (b \in holding' <=> b \in holding)
  BY <1>1, <1>3 DEF PadInv, PadTypes, Outcome
<1>6. \A b \in Buttons \ stale :
        TellsAny(kernel, b) => LastTells(kernel, b, holding)
  BY DEF PadInv, ToldTruth
<1>7. CASE Len(t) <= fits
  <2>1. kernel' = kernel \o t /\ stale' = stale \ changes
    BY <1>1, <1>7 DEF Outcome
  <2>2. /\ kernel' \in EventBatches /\ Len(kernel') = Len(kernel) + Len(t)
        /\ \A b : TellsAny(kernel', b) <=>
                   TellsAny(kernel, b) \/ TellsAny(t, b)
    <3>1. Len(t) > 0 /\ t[1].what # "overrun"
      BY <1>2, <1>4
    <3> QED
      BY <1>2, <1>4, <2>1, <3>1, JoinedBatch
  <2>3. ASSUME NEW b \in Buttons \ stale'
        PROVE  \/ TellsAny(kernel', b) /\ LastTells(kernel', b, holding')
               \/ /\ ~TellsAny(kernel', b) /\ ~TellsAny(kernel, b)
                  /\ b \notin stale /\ (b \in holding' <=> b \in holding)
    <3>1. CASE b \in changes
      <4>1. LastTells(t, b, holding')
        BY <1>4, <1>5, <3>1, TrueLast
      <4>2. LastTells(kernel \o t, b, holding')
        BY <1>2, <1>4, <3>1, <4>1, JoinedLast
      <4> QED
        BY <1>4, <2>1, <2>2, <3>1, <4>2
    <3>2. CASE b \notin changes /\ TellsAny(kernel, b)
      <4>1. LastTells(kernel, b, holding')
        BY <1>5, <1>6, <2>1, <3>2, LastSame
      <4>2. ~TellsAny(t, b)
        BY <1>4, <3>2
      <4>3. LastTells(kernel \o t, b, holding')
        BY <1>2, <1>4, <4>1, <4>2, JoinedLast
      <4> QED
        BY <2>1, <2>2, <3>2, <4>3
    <3>3. CASE b \notin changes /\ ~TellsAny(kernel, b)
      BY <1>4, <1>5, <2>1, <2>2, <3>3
    <3> QED
      BY <3>1, <3>2, <3>3
  <2>4. Len(kernel') <= MaxWaiting
    BY <1>2, <1>4, <1>7, <2>2
  <2> QED
    BY <1>5, <2>2, <2>3, <2>4
<1>8. CASE ~(Len(t) <= fits)
  <2> DEFINE kept == SubSeq(t, fits + 1, Len(t))
  <2>1. /\ kernel' = <<Overrun>> \o kept
        /\ stale' = (stale \ Told(kept))
                      \cup ((Told(kernel) \cup changes) \ Told(kept))
    BY <1>1, <1>8 DEF Outcome
  <2>2. fits < Len(t)
    BY <1>2, <1>4, <1>8
  <2>3. /\ kernel' \in EventBatches /\ Len(kernel') = 1 + Len(t) - fits
        /\ \A b : b \in Told(kept) <=> TellsAny(kernel', b)
        /\ \A i \in 1 .. Len(kernel') : \A b : TellsOf(kernel', i, b) =>
             \E j \in 1 .. Len(t) : kernel'[i] = t[j] /\ TellsOf(t, j, b)
    <3>1. LET all == <<Overrun>> \o kept
          IN /\ all \in EventBatches /\ Len(all) = 1 + Len(t) - fits
             /\ \A b : b \in Told(kept) <=> TellsAny(all, b)
             /\ \A i \in 1 .. Len(all) : \A b : TellsOf(all, i, b) =>
                  \E j \in 1 .. Len(t) : all[i] = t[j] /\ TellsOf(t, j, b)
      <4> HIDE DEF fits
      <4> QED
        BY <1>2, <1>4, <2>2, OverrunIs
    <3> QED
      BY <2>1, <3>1
  <2>4. \A b : b \in Told(kernel) <=> TellsAny(kernel, b)
    BY <1>2, ToldIs
  <2> HIDE DEF kept
  <2>5. ASSUME NEW b \in Buttons \ stale'
        PROVE  \/ TellsAny(kernel', b) /\ LastTells(kernel', b, holding')
               \/ /\ ~TellsAny(kernel', b) /\ ~TellsAny(kernel, b)
                  /\ b \notin stale /\ (b \in holding' <=> b \in holding)
    <3>1. CASE TellsAny(kernel', b)
      <4>1. b \in changes
        BY <1>4, <2>3, <3>1 DEF TellsAny
      <4>2. ASSUME NEW i \in 1 .. Len(kernel'), TellsOf(kernel', i, b)
            PROVE  kernel'[i].down = TRUE <=> b \in holding'
        <5>1. PICK j \in 1 .. Len(t) :
                kernel'[i] = t[j] /\ TellsOf(t, j, b)
          BY <2>3, <4>2
        <5> QED
          BY <1>4, <1>5, <4>1, <5>1
      <4>3. LastTells(kernel', b, holding')
        BY <2>3, <3>1, <4>2, TrueLast
      <4> QED
        BY <3>1, <4>3
    <3>2. CASE ~TellsAny(kernel', b)
      <4>1. b \notin Told(kept) /\ b \notin changes /\ ~TellsAny(kernel, b)
            /\ b \notin stale
        BY <2>1, <2>3, <2>4, <3>2
      <4> QED
        BY <1>5, <3>2, <4>1
    <3> QED
      BY <3>1, <3>2
  <2>6. Len(kernel') <= MaxWaiting
    BY <1>2, <1>4, <2>3
  <2> QED
    BY <1>5, <2>3, <2>5, <2>6
<1> QED
  BY <1>7, <1>8

LEMMA ReportStep ==
  ASSUME PadInv, Report
  PROVE  PadInv'
<1>1. /\ kernel' \in EventBatches /\ Len(kernel') <= MaxWaiting
      /\ holding' \subseteq Buttons
      /\ \A b \in Buttons \ stale' :
           \/ TellsAny(kernel', b) /\ LastTells(kernel', b, holding')
           \/ /\ ~TellsAny(kernel', b) /\ ~TellsAny(kernel, b)
              /\ b \notin stale /\ (b \in holding' <=> b \in holding)
  BY ReportTells
<1>2. UNCHANGED <<first, taskVars, seenVars, endVars>>
  BY DEF Report
<1> USE <1>2 DEF taskVars, seenVars, endVars
<1>3. PadTypes'
  BY <1>1 DEF PadInv, PadTypes
<1>4. ToldTruth'
  <2> SUFFICES ASSUME NEW b \in Buttons \ stale'
               PROVE  IF TellsAny(kernel', b)
                      THEN LastTells(kernel', b, holding')
                      ELSE IF TellsAny(queue, b)
                      THEN LastTells(queue, b, holding')
                      ELSE b \in collected <=> b \in holding'
    BY DEF ToldTruth
  <2>1. CASE ~TellsAny(kernel', b)
    <3>1. /\ ~TellsAny(kernel, b) /\ b \in Buttons \ stale
          /\ b \in holding' <=> b \in holding
      BY <1>1, <2>1
    <3>2. IF TellsAny(queue, b) THEN LastTells(queue, b, holding)
          ELSE b \in collected <=> b \in holding
      BY <3>1 DEF PadInv, ToldTruth
    <3>3. TellsAny(queue, b) => LastTells(queue, b, holding')
      BY <3>1, <3>2, LastSame
    <3> QED
      BY <2>1, <3>1, <3>2, <3>3
  <2> QED
    BY <1>1, <2>1
<1>5. Publication'
  <2>1. AtBatch' = AtBatch
    BY DEF AtBatch
  <2>2. \A b : (TellsAny(queue, b))' = TellsAny(queue, b)
    BY DEF TellsAny, TellsOf
  <2>3. first \subseteq Buttons
    BY DEF PadInv, PadTypes
  <2> QED
    BY <1>1, <2>1, <2>2, <2>3 DEF PadInv, Publication
<1>6. Copies'
  BY DEF PadInv, Copies
<1> QED
  BY <1>3, <1>4, <1>5, <1>6 DEF PadInv

\* Steps that leave the events and the buttons alone keep what they tell.
LEMMA TruthStays ==
  ASSUME PadInv, UNCHANGED <<kernel, queue, collected, holding, stale>>
  PROVE  ToldTruth'
BY DEF PadInv, ToldTruth, TellsAny, TellsOf, LastTells

LEMMA FillStep ==
  ASSUME PadInv, Fill \/ FillDone
  PROVE  PadInv'
<1>1. /\ UNCHANGED <<kernel, queue, collected, holding, stale, first, ending,
                     reading, toRead, seen, samplers>>
      /\ task = "fill" /\ task' \in {"fill", "events"}
      /\ whole' \in BOOLEAN
  BY DEF Fill, FillDone, deviceVars, taskVars, seenVars, endVars, PadInv,
         PadTypes
<1>2. PadTypes'
  BY <1>1 DEF PadInv, PadTypes
<1>3. ToldTruth'
  BY <1>1, TruthStays
<1>4. Publication'
  <2>1. CASE Fill
    BY <1>1, <2>1
       DEF Fill, PadInv, Publication, AtBatch, TellsAny, TellsOf, deviceVars
  <2>2. CASE FillDone
    <3>1. /\ queue = << >> /\ collected = {} /\ toCopy = {}
          /\ \A b \in first \ stale : TellsAny(kernel, b)
          /\ \A b \in Buttons : b \in current <=> b \in first
      BY <1>1, <2>2 DEF FillDone, PadInv, Publication
    <3>2. UNCHANGED current /\ task' = "events"
      BY <2>2 DEF FillDone
    <3> QED
      BY <1>1, <3>1, <3>2 DEF Publication, AtBatch, TellsAny, TellsOf
  <2> QED
    BY <2>1, <2>2
<1>5. Copies'
  <2>1. CASE Fill
    BY <1>1, <2>1 DEF Fill, PadInv, Copies
  <2>2. CASE FillDone
    BY <1>1, <2>2 DEF FillDone, PadInv, Copies, seenVars
  <2> QED
    BY <2>1, <2>2
<1> QED
  BY <1>2, <1>3, <1>4, <1>5 DEF PadInv

LEMMA ReadEventsStep ==
  ASSUME PadInv, ReadEvents
  PROVE  PadInv'
<1>1. /\ task = "events" /\ queue = << >> /\ queue' = kernel
      /\ kernel' = << >> /\ kernel # << >>
      /\ UNCHANGED <<holding, first, task, toCopy, current, collected, reading,
                     toRead, seen, whole, samplers, ending, stale>>
  BY DEF ReadEvents, seenVars, endVars
<1>2. PadTypes'
  <2>1. 0 <= MaxWaiting
    BY PadAssumption DEF PadAssumption
  <2> QED
    BY <1>1, <2>1, EmptyBatch DEF PadInv, PadTypes
<1>3. /\ \A b : ~TellsAny(kernel', b) /\ ~TellsAny(queue, b)
      /\ \A b : TellsAny(queue', b) <=> TellsAny(kernel, b)
  BY <1>1, EmptyBatch
<1>4. ToldTruth'
  <2>1. \A b, h : LastTells(queue', b, h) <=> LastTells(kernel, b, h)
    BY <1>1
  <2> QED
    BY <1>1, <1>3, <2>1 DEF PadInv, ToldTruth
<1>5. Publication'
  <2>1. AtBatch
    BY <1>1, EmptyBatch DEF AtBatch
  <2> QED
    BY <1>1, <1>3, <2>1 DEF PadInv, Publication
<1>6. Copies'
  BY <1>1 DEF PadInv, Copies
<1> QED
  BY <1>2, <1>4, <1>5, <1>6 DEF PadInv

LEMMA ButtonEventStep ==
  ASSUME PadInv, ButtonEvent
  PROVE  PadInv'
<1> DEFINE b == Head(queue).of
<1>1. /\ task = "events" /\ queue # << >> /\ Head(queue).what = "key"
      /\ queue' = Tail(queue)
      /\ collected' = IF Head(queue).down THEN collected \cup {b}
                      ELSE collected \ {b}
      /\ UNCHANGED <<kernel, holding, first, task, toCopy, current, reading,
                     toRead, seen, whole, samplers, ending, stale>>
  BY DEF ButtonEvent, EventsGoOn, deviceVars, seenVars, endVars
<1>2. queue \in EventBatches /\ Head(queue) = queue[1]
  BY <1>1 DEF PadInv, PadTypes
<1>3. /\ queue' \in EventBatches
      /\ Len(queue') > 0 => queue'[1].what # "overrun"
      /\ Len(queue') # 0
      /\ \A c : TellsAny(queue, c) <=> TellsOf(queue, 1, c)
                                         \/ TellsAny(queue', c)
  BY <1>1, <1>2, TailBatch
<1>4. /\ Head(queue).down \in BOOLEAN
      /\ \A c : TellsOf(queue, 1, c) <=> c = b
  <2>1. queue[1] \in PadEvents
    BY <1>1, <1>2 DEF EventBatches
  <2> QED
    BY <1>1, <1>2, <2>1 DEF PadEvents, TellsOf
<1>5. /\ b \in collected' <=> Head(queue).down = TRUE
      /\ \A c : c # b => (c \in collected' <=> c \in collected)
  BY <1>1, <1>4
<1> HIDE DEF b
<1>6. PadTypes'
  BY <1>1, <1>3 DEF PadInv, PadTypes
<1>7. ToldTruth'
  <2> SUFFICES ASSUME NEW c \in Buttons \ stale'
               PROVE  IF TellsAny(kernel', c)
                      THEN LastTells(kernel', c, holding')
                      ELSE IF TellsAny(queue', c)
                      THEN LastTells(queue', c, holding')
                      ELSE c \in collected' <=> c \in holding'
    BY DEF ToldTruth
  <2>1. IF TellsAny(kernel, c) THEN LastTells(kernel, c, holding)
        ELSE IF TellsAny(queue, c) THEN LastTells(queue, c, holding)
        ELSE c \in collected <=> c \in holding
    BY <1>1 DEF PadInv, ToldTruth
  <2>2. CASE TellsAny(kernel, c)
    BY <1>1, <2>1, <2>2
  <2>3. CASE ~TellsAny(kernel, c) /\ TellsAny(queue, c)
    <3>1. IF TellsAny(Tail(queue), c) THEN LastTells(Tail(queue), c, holding)
          ELSE TellsOf(queue, 1, c) /\ (queue[1].down = TRUE <=> c \in holding)
      BY <1>1, <1>2, <2>1, <2>3, TailLast
    <3> QED
      BY <1>1, <1>2, <1>4, <1>5, <2>3, <3>1
  <2>4. CASE ~TellsAny(kernel, c) /\ ~TellsAny(queue, c)
    BY <1>1, <1>3, <1>4, <1>5, <2>1, <2>4
  <2> QED
    BY <2>2, <2>3, <2>4
<1>8. Publication'
  <2>1. Len(queue') \in Nat
    BY <1>3 DEF EventBatches
  <2>2. ~AtBatch'
    BY <1>3, <2>1 DEF AtBatch
  <2> QED
    BY <1>1, <2>2 DEF Publication
<1>9. Copies'
  BY <1>1 DEF PadInv, Copies
<1> QED
  BY <1>6, <1>7, <1>8, <1>9 DEF PadInv

LEMMA OverrunEventStep ==
  ASSUME PadInv, OverrunEvent
  PROVE  PadInv'
<1>1. /\ task = "events" /\ queue # << >> /\ Head(queue).what = "overrun"
      /\ \/ queue' = Tail(queue) /\ UNCHANGED stale
         \/ queue' = << >> /\ stale' = stale \cup Told(queue)
      /\ UNCHANGED <<kernel, holding, first, task, toCopy, current, collected,
                     reading, toRead, seen, whole, samplers, ending>>
  BY DEF OverrunEvent, EventsGoOn, deviceVars, seenVars, endVars
<1>2. /\ queue \in EventBatches /\ Head(queue) = queue[1]
      /\ queue \in Seq(PadEvents)
  BY <1>1 DEF PadInv, PadTypes, EventBatches
<1>3. AtBatch /\ \A c : ~TellsOf(queue, 1, c)
  BY <1>1, <1>2 DEF AtBatch, TellsOf
<1>4. CASE queue' = Tail(queue) /\ UNCHANGED stale
  <2>1. /\ queue' \in EventBatches /\ Len(queue') # 0
        /\ Len(queue') > 0 => queue'[1].what # "overrun"
        /\ \A c : TellsAny(queue, c) <=> TellsAny(queue', c)
    BY <1>1, <1>2, <1>3, <1>4, TailBatch
  <2>2. PadTypes'
    BY <1>1, <2>1 DEF PadInv, PadTypes
  <2>3. \A c : TellsAny(queue, c) /\ LastTells(queue, c, holding)
                 => LastTells(queue', c, holding)
    BY <1>1, <1>2, <1>4, <2>1, TailLast
  <2>4. ToldTruth'
    BY <1>1, <1>4, <2>1, <2>3 DEF PadInv, ToldTruth
  <2>5. Publication'
    BY <1>1, <1>4, <2>1 DEF PadInv, Publication, AtBatch
  <2>6. Copies'
    BY <1>1 DEF PadInv, Copies
  <2> QED
    BY <2>2, <2>4, <2>5, <2>6 DEF PadInv
<1>5. CASE queue' = << >> /\ stale' = stale \cup Told(queue)
  <2>1. \A c : /\ ~TellsAny(queue', c)
               /\ c \in Told(queue) <=> TellsAny(queue, c)
    BY <1>2, <1>5, EmptyBatch, ToldIs
  <2>2. PadTypes'
    BY <1>1, <1>5, EmptyBatch DEF PadInv, PadTypes
  <2>3. ToldTruth'
    BY <1>1, <1>5, <2>1 DEF PadInv, ToldTruth
  <2>4. Publication'
    BY <1>1, <1>3, <1>5, <2>1 DEF PadInv, Publication
  <2>5. Copies'
    BY <1>1 DEF PadInv, Copies
  <2> QED
    BY <2>2, <2>3, <2>4, <2>5 DEF PadInv
<1> QED
  BY <1>1, <1>4, <1>5

LEMMA SynEventStep ==
  ASSUME PadInv, SynEvent
  PROVE  PadInv'
<1>1. /\ task = "events" /\ queue # << >> /\ Head(queue).what = "syn"
      /\ queue' = Tail(queue) /\ task' = "publish" /\ toCopy' = Buttons
      /\ UNCHANGED <<kernel, holding, first, current, collected, reading,
                     toRead, seen, whole, samplers, ending, stale>>
  BY DEF SynEvent, EventsGoOn, deviceVars, seenVars, endVars
<1>2. queue \in EventBatches /\ Head(queue) = queue[1]
  BY <1>1 DEF PadInv, PadTypes
<1>3. \A c : ~TellsOf(queue, 1, c)
  BY <1>1, <1>2 DEF TellsOf
<1>4. /\ queue' \in EventBatches
      /\ Len(queue') > 0 => queue'[1].what # "overrun"
      /\ \A c : TellsAny(queue, c) <=> TellsAny(queue', c)
  BY <1>1, <1>2, <1>3, TailBatch
<1>5. PadTypes'
  BY <1>1, <1>4 DEF PadInv, PadTypes
<1>6. \A c : TellsAny(queue, c) /\ LastTells(queue, c, holding)
               => LastTells(queue', c, holding)
  BY <1>1, <1>2, <1>4, TailLast
<1>7. ToldTruth'
  BY <1>1, <1>4, <1>6 DEF PadInv, ToldTruth
<1>8. Publication'
  BY <1>1, <1>4 DEF PadInv, Publication, AtBatch
<1>9. Copies'
  BY <1>1 DEF PadInv, Copies
<1> QED
  BY <1>5, <1>7, <1>8, <1>9 DEF PadInv

LEMMA PublishStep ==
  ASSUME PadInv, PublishButton \/ PublishDone
  PROVE  PadInv'
<1>1. /\ task = "publish" /\ task' \in {"publish", "events"}
      /\ whole' \in BOOLEAN
      /\ UNCHANGED <<kernel, queue, collected, holding, stale, first, ending,
                     reading, toRead, seen, samplers>>
  BY DEF PublishButton, PublishDone, deviceVars, seenVars, endVars, PadInv,
         PadTypes
<1>2. PadTypes'
  BY <1>1 DEF PadInv, PadTypes
<1>3. ToldTruth'
  BY <1>1, TruthStays
<1>4. CASE PublishButton
  <2>1. Publication'
    BY <1>1, <1>4
       DEF PublishButton, Published, PadInv, Publication, AtBatch
  <2>2. Copies'
    BY <1>1, <1>4 DEF PublishButton, PadInv, Copies
  <2> QED
    BY <1>2, <1>3, <2>1, <2>2 DEF PadInv
<1>5. CASE PublishDone
  <2>1. /\ toCopy = {} /\ UNCHANGED <<current, whole>> /\ task' = "events"
    BY <1>5 DEF PublishDone, seenVars
  <2>2. \A b \in Buttons : b \in current' <=> b \in collected'
    BY <1>1, <2>1 DEF PadInv, Publication
  <2>3. Publication'
    BY <1>1, <2>1, <2>2 DEF Publication, AtBatch
  <2>4. Copies'
    BY <1>1, <2>1 DEF PadInv, Copies
  <2> QED
    BY <1>2, <1>3, <2>3, <2>4 DEF PadInv
<1> QED
  BY <1>4, <1>5

\* The end of the thread, of the samplers, and the steps of main.
LEMMA MainStep ==
  ASSUME PadInv,
         \/ TaskEnds \/ SamplerEnds \/ StateRead \/ CopyButton
         \/ StateReadDone \/ Destroy \/ JoinAll
         \/ UNCHANGED go2PadVars
  PROVE  PadInv'
<1> USE DEF deviceVars, taskVars, seenVars, endVars, go2PadVars
<1>1. /\ UNCHANGED <<kernel, queue, toCopy, current, collected, holding,
                     stale, first>>
      /\ task' = task \/ TaskEnds
  BY DEF TaskEnds, SamplerEnds, StateRead, CopyButton, StateReadDone, Destroy,
         JoinAll
<1>2. PadTypes'
  BY <1>1 DEF PadInv, PadTypes, TaskEnds, SamplerEnds, StateRead, CopyButton,
              StateReadDone, Destroy, JoinAll
<1>3. ToldTruth'
  BY <1>1, TruthStays
<1>4. Publication'
  BY <1>1 DEF PadInv, Publication, AtBatch, TellsAny, TellsOf, TaskEnds
<1>5. Copies'
  <2>1. CASE TaskEnds
    BY <2>1 DEF TaskEnds, PadInv, Copies
  <2>2. CASE SamplerEnds
    BY <2>2 DEF SamplerEnds, PadInv, Copies
  <2>3. CASE StateRead
    BY <2>3 DEF StateRead, PadInv, Copies
  <2>4. CASE CopyButton
    BY <2>4 DEF CopyButton, PadInv, Copies, PadTypes
  <2>5. CASE StateReadDone
    BY <2>5 DEF StateReadDone, PadInv, Copies
  <2>6. CASE Destroy
    BY <2>6 DEF Destroy, PadInv, Copies, PadTypes
  <2>7. CASE JoinAll
    BY <2>7 DEF JoinAll, PadInv, Copies
  <2>8. CASE UNCHANGED go2PadVars
    BY <2>8 DEF PadInv, Copies
  <2> QED
    BY <2>1, <2>2, <2>3, <2>4, <2>5, <2>6, <2>7, <2>8
<1> QED
  BY <1>2, <1>3, <1>4, <1>5 DEF PadInv

LEMMA PadInvNext == PadInv /\ [Go2PadNext]_go2PadVars => PadInv'
BY ReportStep, FillStep, ReadEventsStep, ButtonEventStep, OverrunEventStep,
   SynEventStep, PublishStep, MainStep DEF Go2PadNext

LEMMA PadInvFollows == PadInv => Go2PadFollows
<1> SUFFICES ASSUME PadInv PROVE Go2PadFollows
  OBVIOUS
<1>1. ASSUME task = "events", kernel = << >>, queue = << >>,
             NEW b \in Buttons \ stale
      PROVE  /\ b \in current <=> b \in holding
             /\ whole /\ ~reading => (b \in seen <=> b \in holding)
  <2>1. AtBatch /\ ~TellsAny(kernel, b) /\ ~TellsAny(queue, b)
    BY <1>1, EmptyBatch DEF AtBatch
  <2>2. b \in current <=> b \in holding
    BY <1>1, <2>1 DEF PadInv, ToldTruth, Publication
  <2>3. whole /\ ~reading => (b \in seen <=> b \in current)
    BY <1>1 DEF PadInv, PadTypes, Copies
  <2> QED
    BY <2>2, <2>3
<1>2. ending = "freed" => task = "ended" /\ samplers = {} /\ ~reading
  BY DEF PadInv, PadTypes, Copies
<1> QED
  BY <1>1, <1>2 DEF Go2PadFollows, Settled, NothingAfterFree

LEMMA Go2PadHolds == Go2PadSpec => []Go2PadFollows
BY PadInvInit, PadInvNext, PadInvFollows, PTL DEF Go2PadSpec

-----------------------------------------------------------------------------
(* Gamepads and keys of the SDL platform.                                  *)

SdlEvents ==
  [what : {"added", "removed"}, of : Nat]
    \cup [what : {"down", "up", "text"}, of : Keys]

\* An event that waits: whether there is one of a kind, and a later one.
Waits(q, what, of) ==
  \E i \in 1 .. Len(q) : q[i].what = what /\ q[i].of = of
SomeAdded(q) == \E i \in 1 .. Len(q) : q[i].what = "added"
LiftedAfter(q, i, k) ==
  \E j \in i + 1 .. Len(q) : q[j].what = "up" /\ q[j].of = k

SdlTypes ==
  /\ lastPad \in Nat /\ attached \subseteq 1 .. lastPad /\ pad \in Nat
  /\ events \in Seq(SdlEvents) /\ readPc \in {"no", "drain"}
  /\ changed \in BOOLEAN /\ callback \in BOOLEAN /\ editing \in BOOLEAN
  /\ pressed \subseteq Keys /\ forwarded \subseteq Keys
  /\ coreKeys \subseteq Keys /\ swallowed \subseteq Keys

\* A gamepad that is gone is about to be closed, and one that is there about
\* to be looked for when none is open.
PadAwaited ==
  /\ readPc = "no" => changed = FALSE
  /\ pad = NoPad /\ attached # {} => changed = TRUE \/ SomeAdded(events)
  /\ pad # NoPad => pad \in attached \/ Waits(events, "removed", pad)

\* A key that nobody holds any more is about to be lifted, whoever pressed it.
KeysAwaited ==
  /\ coreKeys \subseteq forwarded \ FrontendKeys
  /\ callback = FALSE => coreKeys = {}
  /\ \A k \in coreKeys \ (pressed \cup swallowed) : Waits(events, "up", k)
  /\ \A i \in 1 .. Len(events) :
       events[i].what = "down" /\ events[i].of \notin pressed =>
         LiftedAfter(events, i, events[i].of)

SdlInv == SdlTypes /\ PadAwaited /\ KeysAwaited

-----------------------------------------------------------------------------
(* The queue of events.                                                    *)

LEMMA NoEvents ==
  /\ << >> \in Seq(SdlEvents) /\ Len(<< >>) = 0
  /\ ~SomeAdded(<< >>) /\ \A w, o : ~Waits(<< >>, w, o)
BY DEF SomeAdded, Waits

\* What was queued waits behind what did already.
LEMMA EventsQueued ==
  ASSUME NEW q \in Seq(SdlEvents), NEW es \in Seq(SdlEvents)
  PROVE  /\ q \o es \in Seq(SdlEvents)
         /\ \A w, o :
              Waits(q \o es, w, o) <=> Waits(q, w, o) \/ Waits(es, w, o)
         /\ SomeAdded(q \o es) <=> SomeAdded(q) \/ SomeAdded(es)
         /\ \A i \in 1 .. Len(q \o es) :
              \/ i \in 1 .. Len(q) /\ (q \o es)[i] = q[i]
              \/ \E j \in 1 .. Len(es) : (q \o es)[i] = es[j]
         /\ \A i \in 1 .. Len(q) : \A k :
              LiftedAfter(q, i, k) \/ Waits(es, "up", k)
                => LiftedAfter(q \o es, i, k)
<1> DEFINE r == q \o es
<1>1. /\ r \in Seq(SdlEvents) /\ Len(r) = Len(q) + Len(es)
      /\ \A i \in 1 .. Len(q) + Len(es) :
           r[i] = IF i <= Len(q) THEN q[i] ELSE es[i - Len(q)]
  BY ConcatProperties
<1>2. Len(q) \in Nat /\ Len(es) \in Nat
  OBVIOUS
<1> HIDE DEF r
<1>3. \A i \in 1 .. Len(q) : i \in 1 .. Len(r) /\ r[i] = q[i]
  BY <1>1, <1>2
<1>4. ASSUME NEW i \in 1 .. Len(es)
      PROVE  Len(q) + i \in 1 .. Len(r) /\ r[Len(q) + i] = es[i]
  BY <1>1, <1>2
<1>5. ASSUME NEW i \in 1 .. Len(r)
      PROVE  \/ i \in 1 .. Len(q) /\ r[i] = q[i]
             \/ \E j \in 1 .. Len(es) : r[i] = es[j]
  <2>1. CASE i <= Len(q)
    BY <1>1, <1>2, <2>1
  <2>2. CASE i > Len(q)
    <3>1. i - Len(q) \in 1 .. Len(es) /\ r[i] = es[i - Len(q)]
      BY <1>1, <1>2, <2>2
    <3> QED
      BY <3>1
  <2> QED
    BY <1>2, <2>1, <2>2
<1>6. ASSUME NEW w, NEW o
      PROVE  Waits(r, w, o) <=> Waits(q, w, o) \/ Waits(es, w, o)
  <2>1. Waits(r, w, o) => Waits(q, w, o) \/ Waits(es, w, o)
    BY <1>5 DEF Waits
  <2>2. Waits(q, w, o) => Waits(r, w, o)
    BY <1>3 DEF Waits
  <2>3. Waits(es, w, o) => Waits(r, w, o)
    BY <1>4 DEF Waits
  <2> QED
    BY <2>1, <2>2, <2>3
<1>7. SomeAdded(r) <=> SomeAdded(q) \/ SomeAdded(es)
  <2>1. SomeAdded(r) => SomeAdded(q) \/ SomeAdded(es)
    BY <1>5 DEF SomeAdded
  <2>2. SomeAdded(q) => SomeAdded(r)
    BY <1>3 DEF SomeAdded
  <2>3. SomeAdded(es) => SomeAdded(r)
    BY <1>4 DEF SomeAdded
  <2> QED
    BY <2>1, <2>2, <2>3
<1>8. ASSUME NEW i \in 1 .. Len(q), NEW k,
             LiftedAfter(q, i, k) \/ Waits(es, "up", k)
      PROVE  LiftedAfter(r, i, k)
  <2>1. CASE LiftedAfter(q, i, k)
    <3>1. PICK j \in i + 1 .. Len(q) : q[j].what = "up" /\ q[j].of = k
      BY <2>1 DEF LiftedAfter
    <3>2. j \in 1 .. Len(q) /\ j \in i + 1 .. Len(r)
      BY <1>1, <1>2
    <3> QED
      BY <1>3, <3>1, <3>2 DEF LiftedAfter
  <2>2. CASE Waits(es, "up", k)
    <3>1. PICK j \in 1 .. Len(es) : es[j].what = "up" /\ es[j].of = k
      BY <2>2 DEF Waits
    <3>2. Len(q) + j \in i + 1 .. Len(r)
      BY <1>1, <1>2
    <3> QED
      BY <1>4, <3>1, <3>2 DEF LiftedAfter
  <2> QED
    BY <1>8, <2>1, <2>2
<1> QED
  BY <1>1, <1>5, <1>6, <1>7, <1>8 DEF r

\* What waits once the first event has been read.
LEMMA EventRead ==
  ASSUME NEW q \in Seq(SdlEvents), q # << >>
  PROVE  /\ Tail(q) \in Seq(SdlEvents) /\ Head(q) = q[1] /\ q[1] \in SdlEvents
         /\ \A w, o : Waits(q, w, o) =>
              (q[1].what = w /\ q[1].of = o) \/ Waits(Tail(q), w, o)
         /\ SomeAdded(q) => q[1].what = "added" \/ SomeAdded(Tail(q))
         /\ \A k : LiftedAfter(q, 1, k) => Waits(Tail(q), "up", k)
         /\ \A i \in 1 .. Len(Tail(q)) :
              /\ i + 1 \in 1 .. Len(q) /\ Tail(q)[i] = q[i + 1]
              /\ \A k : LiftedAfter(q, i + 1, k) => LiftedAfter(Tail(q), i, k)
<1> DEFINE t == Tail(q)
<1>1. /\ t \in Seq(SdlEvents) /\ Len(q) \in Nat \ {0} /\ Len(t) = Len(q) - 1
      /\ Head(q) = q[1] /\ q[1] \in SdlEvents
      /\ \A i \in 1 .. Len(q) - 1 : t[i] = q[i + 1]
  OBVIOUS
<1> HIDE DEF t
<1>2. ASSUME NEW i \in 2 .. Len(q)
      PROVE  i - 1 \in 1 .. Len(t) /\ t[i - 1] = q[i]
  <2>1. i - 1 \in 1 .. Len(q) - 1 /\ (i - 1) + 1 = i
    BY <1>1
  <2> QED
    BY <1>1, <2>1
<1>3. \A i \in 1 .. Len(q) : i = 1 \/ i \in 2 .. Len(q)
  BY <1>1
<1>4. \A w, o : Waits(q, w, o) =>
        (q[1].what = w /\ q[1].of = o) \/ Waits(t, w, o)
  BY <1>2, <1>3 DEF Waits
<1>5. SomeAdded(q) => q[1].what = "added" \/ SomeAdded(t)
  BY <1>2, <1>3 DEF SomeAdded
<1>6. \A k : LiftedAfter(q, 1, k) => Waits(t, "up", k)
  BY <1>2 DEF LiftedAfter, Waits
<1>7. ASSUME NEW i \in 1 .. Len(t)
      PROVE  /\ i + 1 \in 1 .. Len(q) /\ t[i] = q[i + 1]
             /\ \A k : LiftedAfter(q, i + 1, k) => LiftedAfter(t, i, k)
  <2>1. i + 1 \in 1 .. Len(q) /\ t[i] = q[i + 1]
    BY <1>1
  <2>2. ASSUME NEW k, NEW j \in (i + 1) + 1 .. Len(q),
               q[j].what = "up" /\ q[j].of = k
        PROVE  LiftedAfter(t, i, k)
    <3>1. j \in 2 .. Len(q) /\ j - 1 \in i + 1 .. Len(t)
      BY <1>1
    <3> QED
      BY <1>2, <2>2, <3>1 DEF LiftedAfter
  <2> QED
    BY <2>1, <2>2 DEF LiftedAfter
<1> QED
  BY <1>1, <1>4, <1>5, <1>6, <1>7 DEF t

LEMMA OneEvent ==
  ASSUME NEW e \in SdlEvents
  PROVE  /\ <<e>> \in Seq(SdlEvents) /\ Len(<<e>>) = 1 /\ <<e>>[1] = e
         /\ \A w, o : Waits(<<e>>, w, o) <=> e.what = w /\ e.of = o
         /\ SomeAdded(<<e>>) <=> e.what = "added"
<1>1. <<e>> \in Seq(SdlEvents) /\ Len(<<e>>) = 1 /\ <<e>>[1] = e
  OBVIOUS
<1> DEFINE q == <<e>>
<1>2. Len(q) = 1 /\ q[1] = e /\ 1 .. Len(q) = {1}
  BY <1>1
<1> HIDE DEF q
<1>3. /\ \A w, o : Waits(q, w, o) <=> e.what = w /\ e.of = o
      /\ SomeAdded(q) <=> e.what = "added"
  BY <1>2 DEF Waits, SomeAdded
<1> QED
  BY <1>1, <1>3 DEF q

LEMMA TwoEvents ==
  ASSUME NEW e \in SdlEvents, NEW f \in SdlEvents
  PROVE  /\ <<e, f>> \in Seq(SdlEvents) /\ Len(<<e, f>>) = 2
         /\ \A i \in 1 .. 2 : <<e, f>>[i] \in {e, f}
         /\ \A w, o : Waits(<<e, f>>, w, o) <=>
              (e.what = w /\ e.of = o) \/ (f.what = w /\ f.of = o)
         /\ SomeAdded(<<e, f>>) <=> e.what = "added" \/ f.what = "added"
<1> DEFINE q == <<e, f>>
<1>1. /\ q \in Seq(SdlEvents) /\ Len(q) = 2 /\ q[1] = e /\ q[2] = f
      /\ 1 .. 2 = {1, 2}
  OBVIOUS
<1> HIDE DEF q
<1>2. ASSUME NEW w, NEW o
      PROVE  Waits(q, w, o) <=>
               (e.what = w /\ e.of = o) \/ (f.what = w /\ f.of = o)
  BY <1>1 DEF Waits
<1>3. SomeAdded(q) <=> e.what = "added" \/ f.what = "added"
  BY <1>1 DEF SomeAdded
<1> QED
  BY <1>1, <1>2, <1>3 DEF q

-----------------------------------------------------------------------------
(* The steps.                                                              *)

LEMMA SdlInvInit == SdlInit => SdlInv
<1> SUFFICES ASSUME SdlInit PROVE SdlInv
  OBVIOUS
<1>1. SdlTypes
  BY NoEvents DEF SdlInit, SdlTypes, NoPad
<1>2. PadAwaited /\ KeysAwaited
  BY NoEvents DEF SdlInit, PadAwaited, KeysAwaited, NoPad
<1> QED
  BY <1>1, <1>2 DEF SdlInv

\* Gamepads come and go.
LEMMA PadsStep ==
  ASSUME SdlInv, PlugIn \/ Unplug \/ RefreshPad,
         UNCHANGED <<readPc, changed, pad, keyVars, editVars, swallowed>>
  PROVE  SdlInv'
<1>1. /\ events \in Seq(SdlEvents) /\ lastPad \in Nat /\ pad \in Nat
      /\ attached \subseteq 1 .. lastPad
  BY DEF SdlInv, SdlTypes
<1>2. \E es \in Seq(SdlEvents) :
        /\ events' = events \o es
        /\ \A i \in 1 .. Len(es) : es[i].what # "down"
        /\ lastPad' \in Nat /\ attached' \subseteq 1 .. lastPad'
        /\ attached' \subseteq attached \/ SomeAdded(es)
        /\ \A p \in attached \ attached' : Waits(es, "removed", p)
  <2>1. CASE PlugIn
    <3> DEFINE e == Event("added", lastPad')
    <3>1. /\ lastPad' \in Nat /\ e \in SdlEvents /\ e.what = "added"
          /\ events' = events \o <<e>> /\ attached' = attached \cup {lastPad'}
      BY <1>1, <2>1 DEF PlugIn, Queued, Event, SdlEvents
    <3>2. /\ <<e>> \in Seq(SdlEvents) /\ SomeAdded(<<e>>)
          /\ \A i \in 1 .. Len(<<e>>) : <<e>>[i].what # "down"
      BY <3>1, OneEvent
    <3>3. attached' \subseteq 1 .. lastPad'
      BY <1>1, <2>1 DEF PlugIn
    <3> HIDE DEF e
    <3> QED
      BY <3>1, <3>2, <3>3
  <2>2. CASE Unplug
    <3>1. PICK p \in attached :
            /\ attached' = attached \ {p} /\ lastPad' = lastPad
            /\ events' = events \o <<Event("removed", p)>>
      BY <2>2 DEF Unplug, Queued
    <3> DEFINE e == Event("removed", p)
    <3>2. e \in SdlEvents /\ e.what = "removed" /\ e.of = p
      BY <1>1 DEF Event, SdlEvents
    <3>3. /\ <<e>> \in Seq(SdlEvents) /\ Waits(<<e>>, "removed", p)
          /\ \A i \in 1 .. Len(<<e>>) : <<e>>[i].what # "down"
      BY <3>2, OneEvent
    <3>4. events' = events \o <<e>>
      BY <3>1
    <3> HIDE DEF e
    <3> QED
      BY <1>1, <3>1, <3>3, <3>4
  <2>3. CASE RefreshPad
    <3>1. PICK p \in attached :
            /\ lastPad' = lastPad + 1
            /\ attached' = (attached \ {p}) \cup {lastPad'}
            /\ events' = events
                 \o <<Event("added", lastPad'), Event("removed", p)>>
      BY <2>3 DEF RefreshPad, Queued
    <3> DEFINE e == Event("added", lastPad')
               f == Event("removed", p)
    <3>2. /\ e \in SdlEvents /\ e.what = "added"
          /\ f \in SdlEvents /\ f.what = "removed" /\ f.of = p
      BY <1>1, <3>1 DEF Event, SdlEvents
    <3>3. events' = events \o <<e, f>>
      BY <3>1
    <3> HIDE DEF e, f
    <3>4. /\ <<e, f>> \in Seq(SdlEvents) /\ SomeAdded(<<e, f>>)
          /\ Waits(<<e, f>>, "removed", p)
          /\ \A i \in 1 .. Len(<<e, f>>) : <<e, f>>[i] \in {e, f}
      BY <3>2, TwoEvents
    <3>5. lastPad' \in Nat /\ attached' \subseteq 1 .. lastPad'
      BY <1>1, <3>1
    <3>6. \A i \in 1 .. Len(<<e, f>>) : <<e, f>>[i].what # "down"
      BY <3>2, <3>4
    <3> DEFINE es == <<e, f>>
    <3>7. /\ es \in Seq(SdlEvents) /\ events' = events \o es
          /\ \A i \in 1 .. Len(es) : es[i].what # "down"
          /\ SomeAdded(es) /\ Waits(es, "removed", p)
      BY <3>3, <3>4, <3>6
    <3> HIDE DEF es
    <3> QED
      BY <3>1, <3>5, <3>7
  <2> QED
    BY <2>1, <2>2, <2>3
<1>3. PICK es \in Seq(SdlEvents) :
        /\ events' = events \o es
        /\ \A i \in 1 .. Len(es) : es[i].what # "down"
        /\ lastPad' \in Nat /\ attached' \subseteq 1 .. lastPad'
        /\ attached' \subseteq attached \/ SomeAdded(es)
        /\ \A p \in attached \ attached' : Waits(es, "removed", p)
  BY <1>2
<1>4. /\ events' \in Seq(SdlEvents)
      /\ \A w, o : Waits(events', w, o) <=>
           Waits(events, w, o) \/ Waits(es, w, o)
      /\ SomeAdded(events') <=> SomeAdded(events) \/ SomeAdded(es)
      /\ \A i \in 1 .. Len(events') :
           \/ i \in 1 .. Len(events) /\ events'[i] = events[i]
           \/ \E j \in 1 .. Len(es) : events'[i] = es[j]
      /\ \A i \in 1 .. Len(events) : \A k :
           LiftedAfter(events, i, k) \/ Waits(es, "up", k)
             => LiftedAfter(events', i, k)
  BY <1>1, <1>3, EventsQueued
<1>5. SdlTypes'
  BY <1>3, <1>4 DEF SdlInv, SdlTypes, keyVars, editVars
<1>6. PadAwaited'
  BY <1>3, <1>4 DEF SdlInv, PadAwaited
<1>7. KeysAwaited'
  BY <1>3, <1>4 DEF SdlInv, KeysAwaited, keyVars
<1> QED
  BY <1>5, <1>6, <1>7 DEF SdlInv

\* A key is pressed or let go.
LEMMA KeystrokeStep ==
  ASSUME SdlInv, Keystroke,
         UNCHANGED <<readPc, padVars, forwarded, coreKeys, callback, editVars,
                     swallowed>>
  PROVE  SdlInv'
<1>1. events \in Seq(SdlEvents) /\ pressed \subseteq Keys
  BY DEF SdlInv, SdlTypes
<1>2. PICK k \in Keys :
        \/ /\ k \notin pressed /\ pressed' = pressed \cup {k}
           /\ Queued(IF k = "letter"
                     THEN <<Event("down", k), Event("text", k)>>
                     ELSE <<Event("down", k)>>)
        \/ /\ k \in pressed /\ pressed' = pressed \ {k}
           /\ Queued(<<Event("up", k)>>)
  BY DEF Keystroke
<1>3. /\ Event("down", k) \in SdlEvents /\ Event("text", k) \in SdlEvents
      /\ Event("up", k) \in SdlEvents
      /\ Event("down", k).what = "down" /\ Event("down", k).of = k
      /\ Event("text", k).what = "text"
      /\ Event("up", k).what = "up" /\ Event("up", k).of = k
  BY DEF Event, SdlEvents
<1>4. \E es \in Seq(SdlEvents) :
        /\ events' = events \o es
        /\ pressed' \subseteq pressed \cup {k}
        /\ \A i \in 1 .. Len(es) :
             es[i].what = "down" => es[i].of = k /\ k \in pressed'
        /\ \A c \in pressed \ pressed' : Waits(es, "up", c)
  <2>1. CASE k \notin pressed /\ pressed' = pressed \cup {k} /\ k = "letter"
    <3> DEFINE es == <<Event("down", k), Event("text", k)>>
    <3>1. events' = events \o es
      BY <1>2, <2>1 DEF Queued
    <3>2. /\ es \in Seq(SdlEvents)
          /\ \A i \in 1 .. Len(es) :
               es[i] \in {Event("down", k), Event("text", k)}
      BY <1>3, TwoEvents
    <3> HIDE DEF es
    <3>3. \A i \in 1 .. Len(es) : es[i].what = "down" => es[i].of = k
      BY <1>3, <3>2
    <3> QED
      BY <2>1, <3>1, <3>2, <3>3
  <2>2. CASE k \notin pressed /\ pressed' = pressed \cup {k} /\ k # "letter"
    <3> DEFINE es == <<Event("down", k)>>
    <3>1. events' = events \o es
      BY <1>2, <2>2 DEF Queued
    <3>2. es \in Seq(SdlEvents) /\ \A i \in 1 .. Len(es) : es[i].of = k
      BY <1>3, OneEvent
    <3> HIDE DEF es
    <3> QED
      BY <2>2, <3>1, <3>2
  <2>3. CASE k \in pressed /\ pressed' = pressed \ {k}
    <3> DEFINE es == <<Event("up", k)>>
    <3>1. events' = events \o es
      BY <1>2, <2>3 DEF Queued
    <3>2. /\ es \in Seq(SdlEvents) /\ Waits(es, "up", k)
          /\ \A i \in 1 .. Len(es) : es[i].what # "down"
      BY <1>3, OneEvent
    <3> HIDE DEF es
    <3> QED
      BY <2>3, <3>1, <3>2
  <2> QED
    BY <1>2, <2>1, <2>2, <2>3
<1>5. PICK es \in Seq(SdlEvents) :
        /\ events' = events \o es
        /\ pressed' \subseteq pressed \cup {k}
        /\ \A i \in 1 .. Len(es) :
             es[i].what = "down" => es[i].of = k /\ k \in pressed'
        /\ \A c \in pressed \ pressed' : Waits(es, "up", c)
  BY <1>4
<1>6. /\ events' \in Seq(SdlEvents)
      /\ \A w, o : Waits(events', w, o) <=>
           Waits(events, w, o) \/ Waits(es, w, o)
      /\ SomeAdded(events') <=> SomeAdded(events) \/ SomeAdded(es)
      /\ \A i \in 1 .. Len(events') :
           \/ i \in 1 .. Len(events) /\ events'[i] = events[i]
           \/ \E j \in 1 .. Len(es) : events'[i] = es[j]
      /\ \A i \in 1 .. Len(events) : \A c :
           LiftedAfter(events, i, c) \/ Waits(es, "up", c)
             => LiftedAfter(events', i, c)
  BY <1>1, <1>5, EventsQueued
<1>7. SdlTypes'
  BY <1>1, <1>5, <1>6 DEF SdlInv, SdlTypes, padVars, editVars
<1>8. PadAwaited'
  BY <1>6 DEF SdlInv, PadAwaited, padVars
<1>9. KeysAwaited'
  <2>1. ASSUME NEW c \in coreKeys \ (pressed' \cup swallowed)
        PROVE  Waits(events', "up", c)
    BY <1>5, <1>6, <2>1 DEF SdlInv, KeysAwaited
  <2>2. ASSUME NEW i \in 1 .. Len(events'),
               events'[i].what = "down", events'[i].of \notin pressed'
        PROVE  LiftedAfter(events', i, events'[i].of)
    <3>1. i \in 1 .. Len(events) /\ events'[i] = events[i]
      BY <1>5, <1>6, <2>2
    <3> QED
      BY <1>5, <1>6, <2>2, <3>1 DEF SdlInv, KeysAwaited
  <2> QED
    BY <2>1, <2>2 DEF SdlInv, KeysAwaited
<1> QED
  BY <1>7, <1>8, <1>9 DEF SdlInv

\* The text editor and the core's callback.
LEMMA EditorStep ==
  ASSUME SdlInv, EditorInput \/ EditorOpen \/ CoreKeyboard
  PROVE  SdlInv'
<1>1. /\ UNCHANGED <<events, readPc, padVars, pressed, forwarded, swallowed>>
      /\ \/ callback' = callback /\ coreKeys' = coreKeys
         \/ callback' = TRUE /\ coreKeys' = coreKeys
         \/ callback' = FALSE /\ coreKeys' = {}
      /\ editing' \in BOOLEAN
  BY DEF EditorInput, EditorOpen, CoreKeyboard, Finish, SdlInv, SdlTypes,
         keyVars, editVars
<1>2. SdlTypes'
  BY <1>1 DEF SdlInv, SdlTypes, padVars
<1>3. PadAwaited' /\ KeysAwaited'
  BY <1>1 DEF SdlInv, PadAwaited, KeysAwaited, padVars
<1> QED
  BY <1>2, <1>3 DEF SdlInv

LEMMA ReadBeginStep ==
  ASSUME SdlInv, ReadBegin
  PROVE  SdlInv'
<1>1. SdlTypes'
  BY DEF ReadBegin, SdlInv, SdlTypes, keyVars, editVars
<1>2. PadAwaited' /\ KeysAwaited'
  BY DEF ReadBegin, SdlInv, PadAwaited, KeysAwaited, keyVars
<1> QED
  BY <1>1, <1>2 DEF SdlInv

LEMMA ReadEndStep ==
  ASSUME SdlInv, ReadEnd
  PROVE  SdlInv'
<1>1. /\ events = <<>> /\ readPc' = "no" /\ changed' = FALSE
      /\ UNCHANGED <<attached, lastPad, events, keyVars, editVars, swallowed>>
  BY DEF ReadEnd
<1>2. /\ lastPad \in Nat /\ attached \subseteq 1 .. lastPad /\ pad \in Nat
      /\ ~SomeAdded(events) /\ \A w, o : ~Waits(events, w, o)
  BY <1>1, NoEvents DEF SdlInv, SdlTypes
<1>3. IF attached = {} THEN pad' = NoPad ELSE pad' \in attached
  BY <1>2 DEF ReadEnd, SdlInv, PadAwaited
<1>4. pad' \in Nat /\ (pad' = NoPad => attached = {})
  <2>1. \A p \in attached : p \in Nat /\ p # NoPad
    BY <1>2 DEF NoPad
  <2> QED
    BY <1>3, <2>1 DEF NoPad
<1>5. SdlTypes'
  BY <1>1, <1>4 DEF SdlInv, SdlTypes, keyVars, editVars
<1>6. PadAwaited'
  BY <1>1, <1>2, <1>3, <1>4 DEF PadAwaited
<1>7. KeysAwaited'
  BY <1>1 DEF SdlInv, KeysAwaited, keyVars
<1> QED
  BY <1>5, <1>6, <1>7 DEF SdlInv

\* An event is read.
LEMMA DrainStep ==
  ASSUME SdlInv, Drain
  PROVE  SdlInv'
<1> DEFINE e == events[1]
<1>1. /\ events \in Seq(SdlEvents) /\ events # <<>> /\ events' = Tail(events)
      /\ readPc = "drain" /\ readPc' = readPc
      /\ pad \in Nat /\ lastPad \in Nat /\ attached \subseteq 1 .. lastPad
  BY DEF Drain, SdlInv, SdlTypes
<1>2. /\ events' \in Seq(SdlEvents) /\ Head(events) = e /\ e \in SdlEvents
      /\ \A w, o : Waits(events, w, o) =>
           (e.what = w /\ e.of = o) \/ Waits(events', w, o)
      /\ SomeAdded(events) => e.what = "added" \/ SomeAdded(events')
      /\ \A k : LiftedAfter(events, 1, k) => Waits(events', "up", k)
      /\ \A i \in 1 .. Len(events') :
           /\ i + 1 \in 1 .. Len(events) /\ events'[i] = events[i + 1]
           /\ \A k : LiftedAfter(events, i + 1, k)
                       => LiftedAfter(events', i, k)
  BY <1>1, EventRead
<1>3. 1 \in 1 .. Len(events)
  BY <1>1
<1>4. PadEvent(e) \/ EditEvent(e) \/ KeyEvent(e) \/ TextEvent(e)
  BY <1>2 DEF Drain
<1>5. e.what = "down" /\ e.of \notin pressed => Waits(events', "up", e.of)
  BY <1>2, <1>3 DEF SdlInv, KeysAwaited
<1>6. /\ e.what \in {"added", "removed", "down", "up", "text"}
      /\ e.what \in {"down", "up"} => e.of \in Keys
  BY <1>2 DEF SdlEvents
<1> HIDE DEF e
\* The keys still to be let go of wait behind it.
<1>7. ASSUME pressed' = pressed
      PROVE  \A i \in 1 .. Len(events') :
               events'[i].what = "down" /\ events'[i].of \notin pressed' =>
                 LiftedAfter(events', i, events'[i].of)
  BY <1>2, <1>7 DEF SdlInv, KeysAwaited
<1>8. CASE PadEvent(e)
  <2>1. SdlTypes'
    BY <1>1, <1>2, <1>8
       DEF PadEvent, SdlInv, SdlTypes, keyVars, editVars, NoPad, PadChange
  <2>2. PadAwaited'
    BY <1>1, <1>2, <1>8 DEF PadEvent, PadChange, SdlInv, PadAwaited
  <2>3. KeysAwaited'
    BY <1>2, <1>7, <1>8 DEF PadEvent, SdlInv, KeysAwaited, keyVars
  <2> QED
    BY <2>1, <2>2, <2>3 DEF SdlInv
<1>9. ASSUME EditEvent(e) \/ KeyEvent(e) \/ TextEvent(e)
      PROVE  PadAwaited'
  <2>1. /\ UNCHANGED padVars
        /\ e.what \in {"down", "up", "text"}
    BY <1>9 DEF EditEvent, KeyEvent, TextEvent
  <2> QED
    BY <1>1, <1>2, <2>1 DEF SdlInv, PadAwaited, padVars
<1>10. CASE EditEvent(e)
  <2>1. SdlTypes'
    BY <1>1, <1>2, <1>6, <1>10
       DEF EditEvent, Finish, SdlInv, SdlTypes, keyVars, editVars, padVars
  <2>2. /\ UNCHANGED keyVars /\ swallowed \subseteq swallowed'
        /\ e.what = "up" => e.of \in swallowed'
    BY <1>10 DEF EditEvent
  <2>3. KeysAwaited'
    BY <1>2, <1>7, <2>2 DEF SdlInv, KeysAwaited, keyVars
  <2> QED
    BY <1>9, <1>10, <2>1, <2>3 DEF SdlInv
<1>11. CASE KeyEvent(e)
  <2>1. /\ forwarded' \subseteq Keys /\ coreKeys' \subseteq Keys
        /\ swallowed' \subseteq Keys
        /\ UNCHANGED <<padVars, pressed, callback, editVars>>
    BY <1>6, <1>11 DEF KeyEvent, SdlInv, SdlTypes
  <2>2. SdlTypes'
    BY <1>1, <1>2, <2>1 DEF SdlInv, SdlTypes, padVars, editVars
  <2>3. /\ coreKeys' \subseteq forwarded' \ FrontendKeys
        /\ callback' = FALSE => coreKeys' = {}
    BY <1>6, <1>11 DEF KeyEvent, SdlInv, KeysAwaited, SdlTypes
  <2>4. ASSUME NEW k \in coreKeys' \ (pressed' \cup swallowed')
        PROVE  Waits(events', "up", k)
    <3>1. CASE e.what = "down"
      BY <1>2, <1>5, <1>11, <2>4, <3>1 DEF KeyEvent, SdlInv, KeysAwaited
    <3>2. CASE e.what = "up"
      <4>1. k # e.of /\ k \in coreKeys \ (pressed \cup swallowed)
        BY <1>11, <2>1, <2>4, <3>2 DEF KeyEvent, SdlInv, KeysAwaited
      <4> QED
        BY <1>2, <4>1 DEF SdlInv, KeysAwaited
    <3> QED
      BY <1>11, <3>1, <3>2 DEF KeyEvent
  <2>5. KeysAwaited'
    BY <1>7, <2>1, <2>3, <2>4 DEF KeysAwaited
  <2> QED
    BY <1>9, <1>11, <2>2, <2>5 DEF SdlInv
<1>12. CASE TextEvent(e)
  <2>1. SdlTypes'
    BY <1>1, <1>2, <1>12
       DEF TextEvent, Type, SdlInv, SdlTypes, keyVars, editVars, padVars
  <2>2. KeysAwaited'
    BY <1>2, <1>7, <1>12 DEF TextEvent, SdlInv, KeysAwaited, keyVars
  <2> QED
    BY <1>9, <1>12, <2>1, <2>2 DEF SdlInv
<1> QED
  BY <1>4, <1>8, <1>10, <1>11, <1>12

LEMMA SdlInvNext ==
  ASSUME SdlInv, [SdlNext]_sdlVars
  PROVE  SdlInv'
<1>1. CASE UNCHANGED sdlVars
  BY <1>1 DEF sdlVars, padVars, keyVars, editVars, SdlInv, SdlTypes,
              PadAwaited, KeysAwaited
<1>2. CASE Devices
  BY <1>2, PadsStep, KeystrokeStep DEF Devices
<1>3. CASE EditorInput \/ EditorOpen \/ CoreKeyboard
  BY <1>3, EditorStep
<1>4. CASE ReadBegin \/ Drain \/ ReadEnd
  BY <1>4, ReadBeginStep, DrainStep, ReadEndStep
<1> QED
  BY <1>1, <1>2, <1>3, <1>4 DEF SdlNext

LEMMA SdlInvFollows == SdlInv => DevicesFollow
<1> SUFFICES ASSUME SdlInv PROVE DevicesFollow
  OBVIOUS
<1>1. events = <<>> => ~SomeAdded(events) /\ \A w, o : ~Waits(events, w, o)
  BY NoEvents
<1>2. PadFollows
  BY <1>1 DEF PadFollows, SdlInv, PadAwaited, SdlTypes, NoPad
<1>3. KeysFollow
  BY <1>1 DEF KeysFollow, SdlInv, KeysAwaited
<1> QED
  BY <1>2, <1>3 DEF DevicesFollow

LEMMA SdlHolds == SdlSpec => []DevicesFollow
<1>1. SdlInit => SdlInv
  BY SdlInvInit
<1>2. SdlInv /\ [SdlNext]_sdlVars => SdlInv'
  BY SdlInvNext
<1>3. SdlInv => DevicesFollow
  BY SdlInvFollows
<1> QED
  BY <1>1, <1>2, <1>3, PTL DEF SdlSpec

-----------------------------------------------------------------------------
(* The way back through the menus.                                         *)

Places == [menu : Menus, item : Nat]

\* A way through the tree of menus, by the links that are selected.
IsWay(t) ==
  /\ t \in Seq(Places) /\ Len(t) >= 1 /\ t[1].menu = "main"
  /\ \A n \in 1 .. Len(t) :
       /\ t[n].item \in 1 .. Len(Items[t[n].menu])
       /\ Selectable(t[n].menu, t[n].item)
  /\ \A n \in 1 .. Len(t) - 1 :
       Items[t[n].menu][t[n].item] = Link(t[n + 1].menu)

\* The diagnostic runs with the menu closed, and with its page the current
\* one, below which it puts itself when it ends.
MenuInv ==
  /\ IsWay(trail) /\ sessionOpen \in BOOLEAN /\ testing \in BOOLEAN
  /\ testing => ~sessionOpen /\ Current.menu = "drm"

-----------------------------------------------------------------------------
(* The tree.                                                               *)

LEMMA MenusAre ==
  Menus = {"main", "info", "page", "drm", "drm_test", "catalog", "games",
           "settings", "values", "video", "decorations", "remove", "reset",
           "states", "load", "load_slot", "save", "save_slot", "quit"}
BY DEF Menus, Items

\* What a menu's items are and where they lead.
GoodItem(m, item) ==
  /\ item.kind = "link" => item = Link(item.to) /\ item.to \in Menus
  /\ item = Link("drm_test") => m = "drm"
  /\ item.kind = "question" /\ item.to = "drm" => m = "drm_test"
GoodMenu(m) ==
  /\ Len(Items[m]) \in Nat /\ 1 \in 1 .. Len(Items[m])
  /\ Selectable(m, 1)
  /\ \A i \in 1 .. Len(Items[m]) : GoodItem(m, Items[m][i])

LEMMA GoodItems ==
  /\ \A m : /\ GoodItem(m, Value) /\ GoodItem(m, ShownPage)
            /\ GoodItem(m, Heading) /\ GoodItem(m, Resume)
            /\ GoodItem(m, QuitItem)
  /\ \A m : \A to \in Menus \ {"drm_test"} : GoodItem(m, Link(to))
  /\ \A m : \A q \in Questions \ {"drm"} : GoodItem(m, Question(q))
  /\ GoodItem("drm", Link("drm_test"))
  /\ GoodItem("drm_test", Question("drm"))
BY MenusAre DEF GoodItem, Value, ShownPage, Heading, Resume, QuitItem, Link,
                Question, Questions

LEMMA GoodMenus == \A m \in Menus : GoodMenu(m)
<1> USE MenusAre, GoodItems
    DEF GoodMenu, Selectable, Items, Value, ShownPage, Heading, Resume, Link,
        Question, QuitItem, Questions
<1> HIDE DEF Menus
<1>1. GoodMenu("main") /\ GoodMenu("info") /\ GoodMenu("page")
  OBVIOUS
<1>2. GoodMenu("drm") /\ GoodMenu("drm_test") /\ GoodMenu("catalog")
  OBVIOUS
<1>3. GoodMenu("games") /\ GoodMenu("settings") /\ GoodMenu("values")
  OBVIOUS
<1>4. GoodMenu("video") /\ GoodMenu("decorations") /\ GoodMenu("remove")
  OBVIOUS
<1>5. GoodMenu("reset") /\ GoodMenu("states") /\ GoodMenu("load")
  OBVIOUS
<1>6. GoodMenu("load_slot") /\ GoodMenu("save") /\ GoodMenu("save_slot")
  OBVIOUS
<1>7. GoodMenu("quit")
  OBVIOUS
<1> HIDE DEF GoodMenu
<1> QED
  BY <1>1, <1>2, <1>3, <1>4, <1>5, <1>6, <1>7, MenusAre

\* The items nearest to an end of a list of items.
LEMMA Nearest ==
  ASSUME NEW n \in Nat, NEW s \in SUBSET (1 .. n), s # {}
  PROVE  Least(s) \in s /\ Greatest(s) \in s
<1>1. Least(s) \in s
  <2>1. \E m \in s : \A k \in s : m <= k
    BY LeastOf
  <2> QED
    BY <2>1 DEF Least
<1>2. \E m \in s : \A k \in s : m >= k
  <2> DEFINE r == {n - k : k \in s}
  <2>0. \A k \in s : n - k \in Nat
    OBVIOUS
  <2>1. r \in SUBSET Nat /\ r # {}
    BY <2>0
  <2>2. PICK d \in r : \A k \in r : d <= k
    BY <2>1, LeastOf
  <2>3. PICK m \in s : d = n - m
    BY <2>2
  <2>4. ASSUME NEW k \in s PROVE m >= k
    <3>1. n - k \in r /\ k \in Nat /\ m \in Nat
      OBVIOUS
    <3>2. d <= n - k
      BY <2>2, <3>1
    <3> QED
      BY <2>3, <3>1, <3>2
  <2> QED
    BY <2>4
<1>3. Greatest(s) \in s
  BY <1>2 DEF Greatest
<1> QED
  BY <1>1, <1>3

\* The selection moves to an item that can be selected.
LEMMA MoveSelects ==
  ASSUME NEW m \in Menus, NEW i, NEW direction
  PROVE  /\ Move(m, i, direction) \in 1 .. Len(Items[m])
         /\ Selectable(m, Move(m, i, direction))
<1> DEFINE n == Len(Items[m])
           some == {k \in 1 .. n : Selectable(m, k)}
<1>1. n \in Nat /\ 1 \in 1 .. n /\ Selectable(m, 1)
  BY GoodMenus DEF GoodMenu
<1>2. /\ Above(m, i) \subseteq some /\ Below(m, i) \subseteq some
      /\ Above(m, n + 1) \subseteq some /\ Below(m, 0) \subseteq some
      /\ Above(m, n + 1) # {} /\ Below(m, 0) # {}
  BY <1>1 DEF Above, Below
<1>3. \A s \in SUBSET some :
        s # {} => Least(s) \in some /\ Greatest(s) \in some
  <2> SUFFICES ASSUME NEW s \in SUBSET some, s # {}
               PROVE  Least(s) \in some /\ Greatest(s) \in some
    OBVIOUS
  <2>1. s \in SUBSET (1 .. n)
    OBVIOUS
  <2> QED
    BY <1>1, <2>1, Nearest
<1> HIDE DEF some
<1>4. Move(m, i, direction) \in some
  BY <1>2, <1>3 DEF Move
<1> QED
  BY <1>4 DEF some

-----------------------------------------------------------------------------
(* Ways.                                                                   *)

\* A link leads to the first item of its menu.
LEMMA WayOn ==
  ASSUME NEW t, IsWay(t), NEW m \in Menus,
         Items[t[Len(t)].menu][t[Len(t)].item] = Link(m)
  PROVE  IsWay(Append(t, At(m)))
<1> DEFINE p == At(m)
           u == Append(t, p)
<1>1. /\ t \in Seq(Places) /\ Len(t) \in Nat /\ Len(t) >= 1
      /\ p \in Places /\ p.menu = m /\ p.item = 1
  BY DEF IsWay, At, Places
<1>2. /\ u \in Seq(Places) /\ Len(u) = Len(t) + 1 /\ u[Len(t) + 1] = p
      /\ \A n \in 1 .. Len(t) : u[n] = t[n]
  BY <1>1, AppendProperties
<1>3. p.item \in 1 .. Len(Items[p.menu]) /\ Selectable(p.menu, p.item)
  BY <1>1, GoodMenus DEF GoodMenu
<1> HIDE DEF u, p
<1>4. u[1].menu = "main"
  BY <1>1, <1>2 DEF IsWay
<1>5. ASSUME NEW n \in 1 .. Len(u)
      PROVE  /\ u[n].item \in 1 .. Len(Items[u[n].menu])
             /\ Selectable(u[n].menu, u[n].item)
  <2>1. CASE n = Len(t) + 1
    BY <1>2, <1>3, <2>1
  <2>2. CASE n \in 1 .. Len(t)
    BY <1>2, <2>2 DEF IsWay
  <2> QED
    BY <1>1, <1>2, <2>1, <2>2
<1>6. ASSUME NEW n \in 1 .. Len(u) - 1
      PROVE  Items[u[n].menu][u[n].item] = Link(u[n + 1].menu)
  <2>1. CASE n = Len(t)
    <3>1. u[n] = t[Len(t)] /\ u[n + 1] = p
      BY <1>1, <1>2, <2>1
    <3> QED
      BY <1>1, <3>1
  <2>2. CASE n \in 1 .. Len(t) - 1
    <3>1. u[n] = t[n] /\ u[n + 1] = t[n + 1]
      BY <1>1, <1>2, <2>2
    <3> QED
      BY <2>2, <3>1 DEF IsWay
  <2> QED
    BY <1>1, <1>2, <2>1, <2>2
<1>7. IsWay(u)
  BY <1>1, <1>2, <1>4, <1>5, <1>6 DEF IsWay
<1> QED
  BY <1>7 DEF u, p

\* The beginning of a way.
LEMMA WayCut ==
  ASSUME NEW t, IsWay(t), Len(t) > 1
  PROVE  /\ IsWay(SubSeq(t, 1, Len(t) - 1))
         /\ Len(SubSeq(t, 1, Len(t) - 1)) = Len(t) - 1
         /\ \A n \in 1 .. Len(t) - 1 : SubSeq(t, 1, Len(t) - 1)[n] = t[n]
<1> DEFINE u == SubSeq(t, 1, Len(t) - 1)
<1>1. /\ t \in Seq(Places) /\ Len(t) \in Nat
      /\ \A n \in 1 .. Len(t) - 1 : t[n] \in Places
  BY DEF IsWay
<1>2. /\ u \in Seq(Places) /\ Len(u) = Len(t) - 1
      /\ \A n \in 1 .. Len(t) - 1 : u[n] = t[n]
  BY <1>1, SubSeqProperties
<1> HIDE DEF u
<1>3. u[1] = t[1] /\ Len(u) >= 1
  BY <1>1, <1>2
<1>4. ASSUME NEW n \in 1 .. Len(u)
      PROVE  /\ u[n].item \in 1 .. Len(Items[u[n].menu])
             /\ Selectable(u[n].menu, u[n].item)
  <2>1. n \in 1 .. Len(t) /\ u[n] = t[n]
    BY <1>1, <1>2
  <2> QED
    BY <2>1 DEF IsWay
<1>5. ASSUME NEW n \in 1 .. Len(u) - 1
      PROVE  Items[u[n].menu][u[n].item] = Link(u[n + 1].menu)
  <2>1. n \in 1 .. Len(t) - 1 /\ u[n] = t[n] /\ u[n + 1] = t[n + 1]
    BY <1>1, <1>2
  <2> QED
    BY <2>1 DEF IsWay
<1>6. IsWay(u)
  BY <1>2, <1>3, <1>4, <1>5 DEF IsWay
<1> QED
  BY <1>2, <1>6 DEF u

LEMMA WayBackwards ==
  ASSUME NEW t, IsWay(t)
  PROVE  IsWay(Back(t))
<1>1. Len(t) \in Nat /\ Len(t) >= 1
  BY DEF IsWay
<1> QED
  BY <1>1, WayCut DEF Back

\* Only the last selection changes: nothing is above it.
LEMMA WaySelect ==
  ASSUME NEW t, IsWay(t),
         NEW i \in 1 .. Len(Items[t[Len(t)].menu]),
         Selectable(t[Len(t)].menu, i)
  PROVE  IsWay([t EXCEPT ![Len(t)].item = i])
<1> DEFINE p == [t[Len(t)] EXCEPT !.item = i]
           u == [t EXCEPT ![Len(t)] = p]
<1>1. /\ t \in Seq(Places) /\ Len(t) \in Nat /\ Len(t) \in 1 .. Len(t)
      /\ t[Len(t)] \in Places
  BY DEF IsWay
<1>2. t[Len(t)].menu \in Menus
  BY <1>1 DEF Places
<1>3. i \in Nat
  BY <1>2, GoodMenus DEF GoodMenu
<1>4. p \in Places /\ p.menu = t[Len(t)].menu /\ p.item = i
  BY <1>1, <1>3 DEF Places
<1>5. [t EXCEPT ![Len(t)].item = i] = u
  OBVIOUS
<1> HIDE DEF p
<1>6. /\ u \in Seq(Places) /\ Len(u) = Len(t)
      /\ \A n \in 1 .. Len(t) : u[n] = IF n = Len(t) THEN p ELSE t[n]
  BY <1>1, <1>4, ExceptSeq
<1> HIDE DEF u
<1>7. u[1].menu = "main" /\ Len(u) >= 1
  <2>1. 1 \in 1 .. Len(t) /\ t[1].menu = "main" /\ Len(t) >= 1
    BY <1>1 DEF IsWay
  <2> QED
    BY <1>4, <1>6, <2>1
<1>8. \A n \in 1 .. Len(u) : /\ u[n].item \in 1 .. Len(Items[u[n].menu])
                             /\ Selectable(u[n].menu, u[n].item)
  BY <1>4, <1>6 DEF IsWay
<1>9. ASSUME NEW n \in 1 .. Len(u) - 1
      PROVE  Items[u[n].menu][u[n].item] = Link(u[n + 1].menu)
  <2>1. /\ n \in 1 .. Len(t) - 1 /\ n + 1 \in 1 .. Len(t) /\ n # Len(t)
        /\ n \in 1 .. Len(t)
    BY <1>1, <1>6
  <2>2. u[n] = t[n] /\ u[n + 1].menu = t[n + 1].menu
    BY <1>4, <1>6, <2>1
  <2> QED
    BY <2>1, <2>2 DEF IsWay
<1>10. IsWay(u)
  BY <1>6, <1>7, <1>8, <1>9 DEF IsWay
<1> QED
  BY <1>5, <1>10

\* The diagnostic is only asked for on its page.
LEMMA WayToTest ==
  ASSUME NEW t, IsWay(t), t[Len(t)].menu = "drm_test"
  PROVE  Len(t) > 1 /\ t[Len(t) - 1].menu = "drm"
<1>1. Len(t) \in Nat /\ Len(t) >= 1 /\ t \in Seq(Places)
  BY DEF IsWay
<1>2. Len(t) > 1
  BY <1>1 DEF IsWay
<1> DEFINE n == Len(t) - 1
<1>3. n \in 1 .. Len(t) - 1 /\ n \in 1 .. Len(t) /\ n + 1 = Len(t)
  BY <1>1, <1>2
<1> HIDE DEF n
<1>4. /\ Items[t[n].menu][t[n].item] = Link("drm_test")
      /\ t[n].item \in 1 .. Len(Items[t[n].menu]) /\ t[n].menu \in Menus
  <2>1. t[n] \in Places
    BY <1>1, <1>3
  <2>2. t[n].menu \in Menus
    BY <2>1 DEF Places
  <2> QED
    BY <1>3, <2>2 DEF IsWay
<1>5. t[n].menu = "drm"
  BY <1>4, GoodMenus DEF GoodMenu, GoodItem
<1> QED
  BY <1>2, <1>5 DEF n

-----------------------------------------------------------------------------
(* The steps.                                                              *)

LEMMA MenuInvInit == MenuInit => MenuInv
<1> SUFFICES ASSUME MenuInit PROVE MenuInv
  OBVIOUS
<1> DEFINE p == At("main")
<1>1. p \in Places /\ p.menu = "main" /\ p.item = 1 /\ trail = <<p>>
  BY MenusAre DEF At, Places, MenuInit
<1>2. p.item \in 1 .. Len(Items[p.menu]) /\ Selectable(p.menu, p.item)
  BY <1>1, MenusAre, GoodMenus DEF GoodMenu
<1> HIDE DEF p
<1>3. trail \in Seq(Places) /\ Len(trail) = 1 /\ trail[1] = p
  BY <1>1
<1>4. IsWay(trail)
  BY <1>1, <1>2, <1>3 DEF IsWay
<1> QED
  BY <1>4 DEF MenuInv, MenuInit

\* What is selected in the menu that is shown.
LEMMA MenuShown ==
  ASSUME MenuInv
  PROVE  /\ Len(trail) \in Nat /\ Len(trail) >= 1 /\ Current.menu \in Menus
         /\ Current.item \in 1 .. Len(Items[Current.menu])
         /\ GoodItem(Current.menu, Selected)
<1>1. trail \in Seq(Places) /\ Len(trail) \in Nat /\ Len(trail) >= 1
  BY DEF MenuInv, IsWay
<1>2. /\ Current.menu \in Menus
      /\ Current.item \in 1 .. Len(Items[Current.menu])
  <2>1. Len(trail) \in 1 .. Len(trail) /\ Current \in Places
    BY <1>1 DEF Current
  <2>2. Current.menu \in Menus
    BY <2>1 DEF Places
  <2> QED
    BY <2>1, <2>2 DEF Current, MenuInv, IsWay
<1> QED
  BY <1>1, <1>2, GoodMenus DEF Selected, GoodMenu

LEMMA PressAStep ==
  ASSUME MenuInv, sessionOpen, Press_A
  PROVE  MenuInv'
<1>1. /\ IsWay(trail) /\ testing = FALSE /\ Len(trail) \in Nat
      /\ Current.menu \in Menus /\ GoodItem(Current.menu, Selected)
  BY MenuShown DEF MenuInv
<1>2. CASE Selected.kind = "question"
  <2> DEFINE q == Selected.to
             yes == q \in answers
             t == IF yes /\ q = "reset" THEN Back(trail) ELSE trail
  <2>1. /\ trail' = Back(t)
        /\ IF yes THEN Effect(q) ELSE UNCHANGED <<sessionOpen, testing>>
    BY <1>2 DEF Press_A, Answered
  <2>2. IsWay(trail')
    <3>1. IsWay(t)
      BY <1>1, WayBackwards
    <3> HIDE DEF t
    <3> QED
      BY <2>1, <3>1, WayBackwards
  <2>3. sessionOpen' \in BOOLEAN /\ testing' \in BOOLEAN
    BY <2>1 DEF Effect, MenuInv
  <2>4. ASSUME testing' = TRUE
        PROVE  ~sessionOpen' /\ Current'.menu = "drm"
    <3>1. yes /\ q = "drm" /\ sessionOpen' = FALSE
      BY <1>1, <2>1, <2>4 DEF Effect
    <3>2. Current.menu = "drm_test"
      BY <1>1, <1>2, <3>1 DEF GoodItem
    <3>3. Len(trail) > 1 /\ trail[Len(trail) - 1].menu = "drm"
      BY <1>1, <3>2, WayToTest DEF Current
    <3>4. trail' = SubSeq(trail, 1, Len(trail) - 1)
      BY <2>1, <3>1, <3>3 DEF Back
    <3>5. /\ Len(trail') = Len(trail) - 1
          /\ trail'[Len(trail')] = trail[Len(trail) - 1]
      BY <1>1, <3>3, <3>4, WayCut
    <3> QED
      BY <3>1, <3>3, <3>5 DEF Current
  <2> QED
    BY <2>2, <2>3, <2>4 DEF MenuInv
<1>3. CASE Selected.kind = "link"
  <2>1. /\ trail' = Append(trail, At(Selected.to))
        /\ UNCHANGED <<sessionOpen, testing>>
    BY <1>3 DEF Press_A
  <2>2. Selected = Link(Selected.to) /\ Selected.to \in Menus
    BY <1>1, <1>3 DEF GoodItem
  <2>3. Selected = Items[trail[Len(trail)].menu][trail[Len(trail)].item]
    BY DEF Selected, Current
  <2>4. IsWay(trail')
    BY <1>1, <2>1, <2>2, <2>3, WayOn
  <2> QED
    BY <1>1, <2>1, <2>4 DEF MenuInv
<1>4. CASE Selected.kind = "resume"
  <2>1. UNCHANGED <<trail, testing>> /\ sessionOpen' = FALSE
    BY <1>4 DEF Press_A
  <2> QED
    BY <1>1, <2>1 DEF MenuInv
<1> QED
  BY <1>2, <1>3, <1>4 DEF Press_A

LEMMA PressDirectionStep ==
  ASSUME MenuInv, sessionOpen, Press_Direction
  PROVE  MenuInv'
<1>1. IsWay(trail) /\ testing = FALSE /\ Current.menu \in Menus
  BY MenuShown DEF MenuInv
<1>2. ASSUME NEW direction, Select(direction)
      PROVE  MenuInv'
  <2> DEFINE i == Move(Current.menu, Current.item, direction)
  <2>1. /\ i \in 1 .. Len(Items[Current.menu]) /\ Selectable(Current.menu, i)
    BY <1>1, MoveSelects
  <2>2. /\ trail' = [trail EXCEPT ![Len(trail)].item = i]
        /\ UNCHANGED <<sessionOpen, testing>>
    BY <1>2 DEF Select
  <2> HIDE DEF i
  <2>3. IsWay(trail')
    BY <1>1, <2>1, <2>2, WaySelect DEF Current
  <2> QED
    BY <1>1, <2>2, <2>3 DEF MenuInv
<1>3. CASE Change
  <2>1. UNCHANGED <<sessionOpen, trail, testing>>
    BY <1>3 DEF Change
  <2> QED
    BY <2>1 DEF MenuInv, Current
<1> QED
  BY <1>2, <1>3 DEF Press_Direction

\* The page of the diagnostic takes the place of the one that is shown, which
\* is that page, with another item selected perhaps.
LEMMA DiagnosticStep ==
  ASSUME MenuInv, DiagnosticEnds
  PROVE  MenuInv'
<1>1. /\ trail' = Append(SubSeq(trail, 1, Len(trail) - 1), At("drm"))
      /\ testing' = FALSE /\ sessionOpen' = TRUE
      /\ IsWay(trail) /\ trail[Len(trail)].menu = "drm"
  BY DEF DiagnosticEnds, MenuInv, Current
<1>2. /\ Len(trail) \in Nat /\ Len(trail) > 1
      /\ trail[Len(trail) - 1].menu \in Menus
  <2>1. trail \in Seq(Places) /\ Len(trail) \in Nat /\ Len(trail) # 1
    BY <1>1 DEF IsWay
  <2>2. Len(trail) > 1
    BY <1>1, <2>1 DEF IsWay
  <2>3. trail[Len(trail) - 1] \in Places
    BY <2>1, <2>2
  <2>4. trail[Len(trail) - 1].menu \in Menus
    BY <2>3 DEF Places
  <2> QED
    BY <2>1, <2>2, <2>4
<1> DEFINE t == SubSeq(trail, 1, Len(trail) - 1)
<1>3. /\ IsWay(t) /\ Len(t) = Len(trail) - 1
      /\ t[Len(t)] = trail[Len(trail) - 1]
  BY <1>1, <1>2, WayCut
<1>4. Items[t[Len(t)].menu][t[Len(t)].item] = Link("drm")
  <2>1. /\ Len(trail) - 1 \in 1 .. Len(trail) - 1
        /\ (Len(trail) - 1) + 1 = Len(trail)
    BY <1>2
  <2> QED
    BY <1>1, <1>3, <2>1 DEF IsWay
<1> HIDE DEF t
<1>5. IsWay(Append(t, At("drm")))
  BY <1>3, <1>4, MenusAre, WayOn
<1>6. IsWay(trail')
  BY <1>1, <1>5 DEF t
<1> QED
  BY <1>1, <1>6 DEF MenuInv

LEMMA MenuInvNext ==
  ASSUME MenuInv, [MenuNext]_menuVars
  PROVE  MenuInv'
<1>1. CASE UNCHANGED menuVars
  BY <1>1 DEF menuVars, MenuInv, Current
<1>2. CASE HandleInput
  <2>1. CASE Press_B
    <3>1. trail' = Back(trail) /\ UNCHANGED <<sessionOpen, testing>>
      BY <2>1 DEF Press_B
    <3>2. IsWay(trail')
      BY <3>1, WayBackwards DEF MenuInv
    <3> QED
      BY <1>2, <3>1, <3>2 DEF MenuInv, HandleInput
  <2> QED
    BY <1>2, <2>1, PressAStep, PressDirectionStep DEF HandleInput
<1>3. CASE MenuHotkey
  <2> DEFINE s == <<At("main")>>
  <2>1. /\ testing = FALSE /\ testing' = FALSE /\ sessionOpen' \in BOOLEAN
        /\ trail' = trail \/ trail' = s
    BY <1>3 DEF MenuHotkey, MenuInv
  <2>2. IsWay(s)
    <3> DEFINE p == At("main")
    <3>1. /\ p \in Places /\ p.menu = "main" /\ p.item = 1
          /\ p.item \in 1 .. Len(Items["main"]) /\ Selectable("main", 1)
      BY MenusAre, GoodMenus DEF At, Places, GoodMenu
    <3>2. s = <<p>>
      OBVIOUS
    <3> HIDE DEF p, s
    <3>3. s \in Seq(Places) /\ Len(s) = 1 /\ s[1] = p
      BY <3>1, <3>2
    <3> QED
      BY <3>1, <3>3 DEF IsWay
  <2> HIDE DEF s
  <2>3. IsWay(trail')
    BY <2>1, <2>2 DEF MenuInv
  <2> QED
    BY <2>1, <2>3 DEF MenuInv
<1>4. CASE DiagnosticEnds
  BY <1>4, DiagnosticStep
<1> QED
  BY <1>1, <1>2, <1>3, <1>4 DEF MenuNext

LEMMA MenuHolds == MenuSpec => []WayBack
<1>1. MenuInit => MenuInv
  BY MenuInvInit
<1>2. MenuInv /\ [MenuNext]_menuVars => MenuInv'
  BY MenuInvNext
<1>3. MenuInv => WayBack
  BY DEF MenuInv, IsWay, WayBack
<1> QED
  BY <1>1, <1>2, <1>3, PTL DEF MenuSpec

-----------------------------------------------------------------------------
(* The list of the achievements.                                           *)

EntriesListed == \E n \in Nat : entries \in [1 .. n -> BOOLEAN]
ViewTypes ==
  /\ EntriesListed /\ filter \in 0 .. 2 /\ selected \in Nat
  /\ detail \in BOOLEAN /\ visible \in BOOLEAN /\ fresh \in BOOLEAN
  /\ shown \in Texts \cup {NoText} /\ waiting \in Seq(Texts)

ViewInv == ViewTypes /\ DetailExists

\* How many entries a filter leaves.
LEMMA ListedNat ==
  ASSUME ViewTypes, NEW f
  PROVE  Listed(f) \in Nat
<1> DEFINE s == {i \in DOMAIN entries :
                   f = 0 \/ (f = 1 /\ ~entries[i]) \/ (f = 2 /\ entries[i])}
<1>1. PICK n \in Nat : DOMAIN entries = 1 .. n
  BY DEF ViewTypes, EntriesListed
<1>2. IsFiniteSet(1 .. n)
  BY FS_Interval
<1>3. IsFiniteSet(s)
  <2>1. s \subseteq 1 .. n
    BY <1>1
  <2> HIDE DEF s
  <2> QED
    BY <1>2, <2>1, FS_Subset
<1>4. Cardinality(s) \in Nat
  <2> HIDE DEF s
  <2> QED
    BY <1>3, FS_CardinalityType
<1> QED
  BY <1>4 DEF Listed

LEMMA ViewInvInit == ViewInit => ViewInv
<1> SUFFICES ASSUME ViewInit PROVE ViewInv
  OBVIOUS
<1>1. << >> \in [1 .. 0 -> BOOLEAN]
  OBVIOUS
<1>2. EntriesListed
  BY <1>1 DEF ViewInit, EntriesListed
<1>3. filter \in 0 .. 2 /\ selected \in Nat /\ waiting \in Seq(Texts)
  BY DEF ViewInit
<1>4. ViewTypes
  BY <1>2, <1>3, Zenon DEF ViewInit, ViewTypes
<1>5. DetailExists
  BY DEF ViewInit, DetailExists
<1> QED
  BY <1>4, <1>5 DEF ViewInv

\* The view is opened: a list, and nothing selected in it.
LEMMA OpenViewStep ==
  ASSUME ViewInv, OpenView
  PROVE  ViewInv'
<1>1. PICK n \in 0 .. MaxEntries : entries' \in [1 .. n -> BOOLEAN]
  BY DEF OpenView
<1>2. EntriesListed'
  BY <1>1, ViewAssumption DEF ViewAssumption, EntriesListed
<1>3. filter' \in 0 .. 2 /\ selected' \in Nat
  BY DEF OpenView
<1>4. ViewTypes'
  BY <1>2, <1>3, Zenon DEF OpenView, ViewInv, ViewTypes
<1>5. DetailExists'
  BY DEF OpenView, ViewInv, DetailExists
<1> QED
  BY <1>4, <1>5 DEF ViewInv

\* The selection is one of the list, in whatever way it moves and whatever
\* filter is chosen.
LEMMA SelectionListed ==
  ASSUME NEW n \in Nat \ {0}, NEW s \in Nat, NEW previous, NEW next
  PROVE  LET a == Clamped(s, n)
             b == IF previous THEN (a + n - 1) % n ELSE a
             c == IF next THEN (b + 1) % n ELSE b
         IN  c \in 0 .. n - 1
<1> DEFINE a == Clamped(s, n)
           b == IF previous THEN (a + n - 1) % n ELSE a
           c == IF next THEN (b + 1) % n ELSE b
<1>1. a \in 0 .. n - 1
  BY DEF Clamped
<1>2. \A k \in Nat : k % n \in 0 .. n - 1
  OBVIOUS
<1> HIDE DEF a
<1>3. a + n - 1 \in Nat
  BY <1>1
<1>4. b \in 0 .. n - 1
  BY <1>1, <1>2, <1>3
<1> HIDE DEF b
<1>5. b + 1 \in Nat
  BY <1>4
<1>6. c \in 0 .. n - 1
  BY <1>2, <1>4, <1>5
<1> QED
  BY <1>6 DEF a, b, c

LEMMA ViewInputStep ==
  ASSUME ViewInv, NEW previous, NEW next, NEW left, NEW right, NEW accept,
         NEW cancel, ViewInput(previous, next, left, right, accept, cancel)
  PROVE  ViewInv'
<1> DEFINE f == (filter + (IF left THEN 2 ELSE 0) + (IF right THEN 1 ELSE 0))
                  % 3
           n == Listed(f)
           a == Clamped(selected, n)
           b == IF previous THEN (a + n - 1) % n ELSE a
           c == IF next THEN (b + 1) % n ELSE b
<1>1. /\ filter \in 0 .. 2 /\ selected \in Nat /\ f \in 0 .. 2 /\ n \in Nat
      /\ detail \in BOOLEAN /\ visible \in BOOLEAN
  BY ListedNat DEF ViewInv, ViewTypes
<1>2. /\ UNCHANGED <<entries, shown, waiting>>
      /\ \/ UNCHANGED <<filter, selected, detail>>
         \/ detail' = FALSE /\ UNCHANGED <<filter, selected>>
         \/ /\ filter' = f /\ selected' = (IF n = 0 THEN 0 ELSE c)
            /\ detail' => n > 0
  BY DEF ViewInput
<1>3. fresh' \in BOOLEAN /\ visible' \in BOOLEAN /\ detail' \in BOOLEAN
  BY DEF ViewInput, ViewInv, ViewTypes
<1>4. n # 0 => c \in 0 .. n - 1
  BY <1>1, SelectionListed
<1>5. Listed(filter)' = Listed(filter')
  BY <1>2 DEF Listed
<1> HIDE DEF c, n, f
<1>6. filter' \in 0 .. 2 /\ selected' \in Nat
  BY <1>1, <1>2, <1>4
<1>7. ViewTypes'
  BY <1>2, <1>3, <1>6 DEF ViewInv, ViewTypes, EntriesListed
<1>8. ASSUME detail' PROVE selected' < Listed(filter')
  <2>1. CASE UNCHANGED <<filter, selected, detail>>
    BY <1>8, <2>1 DEF ViewInv, DetailExists
  <2>2. CASE filter' = f /\ selected' = (IF n = 0 THEN 0 ELSE c) /\ n > 0
    <3>1. selected' < n
      BY <1>1, <1>4, <2>2
    <3> QED
      BY <2>2, <3>1 DEF n
  <2> QED
    BY <1>2, <1>8, <2>1, <2>2
<1>9. DetailExists'
  BY <1>2, <1>5, <1>8 DEF ViewInv, DetailExists
<1> QED
  BY <1>7, <1>9 DEF ViewInv

\* Notifications come and go.
LEMMA NotesStep ==
  ASSUME ViewInv, UpdateNotification \/ \E t \in Texts : Notify(t)
  PROVE  ViewInv'
<1>1. /\ UNCHANGED listVars
      /\ shown \in Texts \cup {NoText} /\ waiting \in Seq(Texts)
      /\ shown = NoText => waiting = << >>
      /\ NoText \notin Texts
  BY ViewAssumption
     DEF UpdateNotification, Notify, ViewInv, ViewTypes, DetailExists,
         ViewAssumption
<1>2. /\ shown' \in Texts \cup {NoText} /\ waiting' \in Seq(Texts)
      /\ shown' = NoText => waiting' = << >>
  <2>1. CASE UpdateNotification
    <3>1. CASE waiting = << >>
      BY <1>1, <2>1, <3>1 DEF UpdateNotification
    <3>2. CASE waiting # << >>
      <4>1. Head(waiting) \in Texts /\ Tail(waiting) \in Seq(Texts)
        BY <1>1, <3>2
      <4> QED
        BY <1>1, <2>1, <3>2, <4>1 DEF UpdateNotification
    <3> QED
      BY <3>1, <3>2
  <2>2. ASSUME NEW t \in Texts, Notify(t)
        PROVE  /\ shown' \in Texts \cup {NoText} /\ waiting' \in Seq(Texts)
               /\ shown' = NoText => waiting' = << >>
    <3>1. Append(waiting, t) \in Seq(Texts)
      BY <1>1
    <3> QED
      BY <1>1, <2>2, <3>1 DEF Notify
  <2> QED
    BY <2>1, <2>2
<1>3. ViewTypes'
  BY <1>1, <1>2 DEF ViewInv, ViewTypes, EntriesListed, listVars
<1>4. Listed(filter)' = Listed(filter)
  BY <1>1 DEF Listed, listVars
<1>5. DetailExists'
  BY <1>1, <1>2, <1>4 DEF ViewInv, DetailExists, listVars
<1> QED
  BY <1>3, <1>5 DEF ViewInv

LEMMA ViewInvNext ==
  ASSUME ViewInv, [ViewNext]_viewVars
  PROVE  ViewInv'
<1>1. CASE UNCHANGED viewVars
  <2>1. Listed(filter)' = Listed(filter)
    BY <1>1 DEF Listed, viewVars
  <2> QED
    BY <1>1, <2>1 DEF viewVars, ViewInv, ViewTypes, EntriesListed, DetailExists
<1>2. CASE OpenView
  BY <1>2, OpenViewStep
<1>3. CASE UpdateNotification \/ \E t \in Texts : Notify(t)
  BY <1>3, NotesStep
<1>4. ASSUME NEW b, ViewInput("up" \in b, "down" \in b, "left" \in b,
                              "right" \in b, "accept" \in b, "cancel" \in b)
      PROVE  ViewInv'
  BY <1>4, ViewInputStep
<1> QED
  BY <1>1, <1>2, <1>3, <1>4 DEF ViewNext

LEMMA ViewHolds == ViewSpec => []DetailExists
<1>1. ViewInit => ViewInv
  BY ViewInvInit
<1>2. ViewInv /\ [ViewNext]_viewVars => ViewInv'
  BY ViewInvNext
<1>3. ViewInv => DetailExists
  BY DEF ViewInv
<1> QED
  BY <1>1, <1>2, <1>3, PTL DEF ViewSpec

-----------------------------------------------------------------------------
(* Theorems.                                                               *)

\* Whatever is plugged, pulled, pressed and edited under SDL, and whatever of
\* the pad's reports is delayed or overrun under GO2, once the events have
\* been read the core sees what is held; and nothing of a freed gamepad is
\* sampled.
THEOREM GamepadsHold == SdlSpec /\ Go2PadSpec => []GamepadsFollow
BY SdlHolds, Go2PadHolds, PTL DEF GamepadsFollow

\* The details shown are of an entry of the filtered list, no notification is
\* stuck, and from every menu the button B leads back the way that was taken,
\* through resets and the end of the DRM diagnostic.
THEOREM PlaceHolds == ViewSpec /\ MenuSpec => []PlaceKept
BY ViewHolds, MenuHolds, PTL DEF PlaceKept

-----------------------------------------------------------------------------
(* The controls the core reads.                                            *)

ControlTypes ==
  /\ device \in Models /\ gpio \in BOOLEAN
  /\ tateState \in {"disabled", "enabled", "reversed", "auto"}
  /\ analogToDigital \in
       {"none", "left", "right", "left_forced", "right_forced"}

\* What a stick has done in this frame is what the settings let it do; one
\* that moved the axes did so for a core that had asked for them before.
FrameUse ==
  changing \/
    /\ \A s : <<s, "pad">> \in drove =>
         \E i \in MappedIndex(effectiveMode(0)) : s = Exchanged(i)
    /\ \A s : <<s, "axis">> \in drove =>
         /\ 0 \in requested
         /\ \E i \in Sticks \ MappedIndex(effectiveMode(0)) : s = Exchanged(i)

\* The states of the gamepad hold what the polls found, and besides that only
\* what the core's reads have added.
Polled == found \subseteq now /\ before \subseteq prev
            /\ prev \ before \subseteq added

ControlsInv == ControlTypes /\ FrameUse /\ Polled

\* The menu goes from a mode to one of the same list.
LEMMA BesideTate ==
  \A m : \A t \in Beside(TateModes, m) :
    t \in {"disabled", "enabled", "reversed", "auto"}
<1>1. Len(TateModes) = 4
  BY DEF TateModes
<1> QED
  BY <1>1 DEF Beside, TateModes

LEMMA BesideAnalog ==
  \A m : \A t \in Beside(AnalogModes, m) :
    t \in {"none", "left", "right", "left_forced", "right_forced"}
<1>1. Len(AnalogModes) = 5
  BY DEF AnalogModes
<1> QED
  BY <1>1 DEF Beside, AnalogModes

LEMMA ControlsInvInit == ControlsInit => ControlsInv
<1> SUFFICES ASSUME ControlsInit PROVE ControlsInv
  OBVIOUS
<1>1. ControlTypes
  BY DEF ControlsInit, ControlTypes
<1>2. FrameUse
  BY DEF ControlsInit, FrameUse
<1>3. Polled
  BY DEF ControlsInit, Polled
<1> QED
  BY <1>1, <1>2, <1>3 DEF ControlsInv

LEMMA ControlsInvNext ==
  ControlsInv /\ [ControlsNext]_controlVars => ControlsInv'
<1> SUFFICES ASSUME ControlsInv, [ControlsNext]_controlVars
             PROVE  ControlsInv'
  OBVIOUS
<1> USE DEF ControlsInv, configVars, settingVars
<1>1. CASE GamepadRead
  <2>1. ControlTypes'
    BY <1>1 DEF GamepadRead, ControlTypes
  <2>2. FrameUse'
    BY <1>1 DEF GamepadRead, FrameUse
  <2>3. Polled'
    BY <1>1 DEF GamepadRead, Polled
  <2> QED
    BY <2>1, <2>2, <2>3
<1>2. ASSUME NEW l \in Directions, ReadPad(l) PROVE ControlsInv'
  <2>1. ControlTypes'
    BY <1>2 DEF ReadPad, ControlTypes
  <2>2. FrameUse'
    <3> DEFINE used == {s \in {PadStick(i) :
                                 i \in MappedIndex(effectiveMode(0))} :
                          directionPressed(thumbs[s], l)}
    <3>1. /\ drove' = drove \/ drove' = drove \cup {<<s, "pad">> : s \in used}
          /\ UNCHANGED <<requested, changing, analogToDigital, swapSticks>>
      BY <1>2 DEF ReadPad
    <3>2. \A s \in used : \E i \in MappedIndex(effectiveMode(0)) :
            s = Exchanged(i)
      BY DEF PadStick
    <3> HIDE DEF used
    <3>3. \A s : <<s, "pad">> \in drove' =>
            <<s, "pad">> \in drove \/ s \in used
      BY <3>1
    <3>4. \A s : <<s, "axis">> \in drove' => <<s, "axis">> \in drove
      BY <3>1
    <3>5. /\ effectiveMode(0)' = effectiveMode(0)
          /\ \A i : Exchanged(i)' = Exchanged(i)
      BY <3>1 DEF effectiveMode, Exchanged
    <3>6. MappedIndex(effectiveMode(0)') = MappedIndex(effectiveMode(0))
      BY <3>5
    <3> QED
      BY <3>1, <3>2, <3>3, <3>4, <3>5, <3>6 DEF FrameUse
  <2>3. Polled'
    BY <1>2 DEF ReadPad, StateChanges, Polled
  <2> QED
    BY <2>1, <2>2, <2>3
<1>3. ASSUME NEW port \in {0, 1}, NEW index \in Sticks, ReadAxis(port, index)
      PROVE  ControlsInv'
  <2>1. ControlTypes'
    BY <1>3 DEF ReadAxis, ControlTypes
  <2>2. FrameUse'
    <3> SUFFICES ASSUME ~changing' PROVE FrameUse'
      BY DEF FrameUse
    <3> DEFINE mode == IF analogToDigital \in {"left", "right"} THEN "none"
                       ELSE analogToDigital
    <3>1. /\ ~changing /\ port \in requested
          /\ requested' = requested \cup {port}
          /\ UNCHANGED <<analogToDigital, swapSticks>>
          /\ \/ drove' = drove
             \/ /\ port = 0 /\ index \notin MappedIndex(mode)
                /\ drove' = drove \cup {<<Exchanged(index), "axis">>}
      BY <1>3 DEF ReadAxis
    <3>2. requested' = requested
      BY <3>1
    <3>3. /\ effectiveMode(0)' = effectiveMode(0)
          /\ \A i : Exchanged(i)' = Exchanged(i)
          /\ 0 \in requested => effectiveMode(0) = mode
      BY <3>1, <3>2 DEF effectiveMode, Exchanged
    <3>4. MappedIndex(effectiveMode(0)') = MappedIndex(effectiveMode(0))
      BY <3>3
    <3>5. CASE drove' = drove
      BY <3>1, <3>2, <3>3, <3>4, <3>5 DEF FrameUse
    <3>6. CASE /\ port = 0 /\ index \notin MappedIndex(mode)
               /\ drove' = drove \cup {<<Exchanged(index), "axis">>}
      <4>1. index \in Sticks \ MappedIndex(effectiveMode(0))
        BY <3>1, <3>3, <3>6
      <4>2. \A s : <<s, "pad">> \in drove' => <<s, "pad">> \in drove
        BY <3>6
      <4>3. \A s : <<s, "axis">> \in drove' =>
              <<s, "axis">> \in drove \/ s = Exchanged(index)
        BY <3>6
      <4> QED
        BY <4>1, <4>2, <4>3, <3>1, <3>2, <3>3, <3>4, <3>6 DEF FrameUse
    <3> QED
      BY <3>1, <3>5, <3>6
  <2>3. Polled'
    BY <1>3 DEF ReadAxis, StateChanges, Polled
  <2> QED
    BY <2>1, <2>2, <2>3
<1>4. CASE ReadButton
  <2>1. ControlTypes'
    BY <1>4 DEF ReadButton, ControlTypes
  <2>2. FrameUse'
    BY <1>4 DEF ReadButton, FrameUse, effectiveMode, Exchanged
  <2>3. Polled'
    BY <1>4 DEF ReadButton, StateChanges, Polled
  <2> QED
    BY <2>1, <2>2, <2>3
<1>5. CASE ChangeSetting
  <2>1. ControlTypes'
    BY <1>5, BesideTate, BesideAnalog DEF ChangeSetting, ControlTypes
  <2>2. FrameUse'
    BY <1>5 DEF ChangeSetting, FrameUse
  <2>3. Polled'
    BY <1>5 DEF ChangeSetting, pollVars, Polled
  <2> QED
    BY <2>1, <2>2, <2>3
<1>6. CASE UNCHANGED controlVars
  <2>1. ControlTypes'
    BY <1>6 DEF controlVars, ControlTypes
  <2>2. FrameUse'
    BY <1>6 DEF controlVars, FrameUse, effectiveMode, Exchanged
  <2>3. Polled'
    BY <1>6 DEF controlVars, pollVars, Polled
  <2> QED
    BY <2>1, <2>2, <2>3
<1> QED
  BY <1>1, <1>2, <1>3, <1>4, <1>5, <1>6 DEF ControlsNext

-----------------------------------------------------------------------------
\* A picture that is turned turns all that is pressed.
LEMMA TurnedAlike == ControlTypes => TurnedAsOne
<1> SUFFICES ASSUME ControlTypes PROVE TurnedAsOne
  OBVIOUS
<1> DEFINE next(i, q) == 1 + ((i + q - 1) % 4)
           at(i, q) ==
             /\ \A l \in Directions :
                  directionPressed(Pointed(i), l) <=> l \in Circle[next(i, q)]
             /\ analogAxes(Pointed(i)) = Pointed(next(i, q))
             /\ \A l \in Circle[i], m \in Circle[next(i, q)] :
                  (l \in Faces <=> m \in Faces) => getInput(m) = buttons[l]
<1>1. SUFFICES \E q \in 0 .. 3 :
                 (isTate <=> q # 0) /\ \A i \in 1 .. 4 : at(i, q)
  BY DEF TurnedAsOne
<1>2. /\ Circle[1] = {"up", "x"} /\ Circle[2] = {"right", "a"}
      /\ Circle[3] = {"down", "b"} /\ Circle[4] = {"left", "y"}
  BY DEF Circle
<1>3. /\ Pointed(1) = [x |-> 0, y |-> -1] /\ Pointed(2) = [x |-> 1, y |-> 0]
      /\ Pointed(3) = [x |-> 0, y |-> 1] /\ Pointed(4) = [x |-> -1, y |-> 0]
  BY DEF Pointed
<1>4. \A q \in 0 .. 3 :
        at(1, q) /\ at(2, q) /\ at(3, q) /\ at(4, q) =>
          \A i \in 1 .. 4 : at(i, q)
  <2> HIDE DEF at
  <2>1. \A i \in 1 .. 4 : i = 1 \/ i = 2 \/ i = 3 \/ i = 4
    OBVIOUS
  <2> QED
    BY <2>1
<1> USE DEF Directions, Faces
<1>5. CASE ~isTate
  <2>1. next(1, 0) = 1 /\ next(2, 0) = 2 /\ next(3, 0) = 3 /\ next(4, 0) = 4
    OBVIOUS
  <2>2. /\ \A l : getInput(l) = buttons[l]
        /\ \A t : analogAxes(t) = t
    BY <1>5 DEF getInput, analogAxes
  <2>3. at(1, 0) /\ at(2, 0) /\ at(3, 0) /\ at(4, 0)
    BY <1>2, <1>3, <1>5, <2>1, <2>2 DEF directionPressed
  <2>4. isTate <=> 0 # 0
    BY <1>5 DEF isTate
  <2> HIDE DEF at
  <2> QED
    BY <1>4, <2>3, <2>4
<1>6. CASE isTate /\ tateState = "reversed"
  <2>1. next(1, 3) = 4 /\ next(2, 3) = 1 /\ next(3, 3) = 2 /\ next(4, 3) = 3
    OBVIOUS
  <2>2. /\ \A l : getInput(l) = buttons[CounterClockwise[l]]
        /\ \A t : analogAxes(t) = [x |-> t.y, y |-> -t.x]
    BY <1>6 DEF getInput, analogAxes
  <2>3. at(1, 3) /\ at(2, 3) /\ at(3, 3) /\ at(4, 3)
    BY <1>2, <1>3, <1>6, <2>1, <2>2 DEF directionPressed, CounterClockwise
  <2>4. isTate <=> 3 # 0
    BY <1>6 DEF isTate
  <2> HIDE DEF at
  <2> QED
    BY <1>4, <2>3, <2>4
<1>7. CASE isTate /\ tateState # "reversed"
  <2>1. next(1, 1) = 2 /\ next(2, 1) = 3 /\ next(3, 1) = 4 /\ next(4, 1) = 1
    OBVIOUS
  <2>2. /\ \A l : getInput(l) = buttons[Clockwise[l]]
        /\ \A t : analogAxes(t) = [x |-> -t.y, y |-> t.x]
    BY <1>7 DEF getInput, analogAxes
  <2>3. at(1, 1) /\ at(2, 1) /\ at(3, 1) /\ at(4, 1)
    BY <1>2, <1>3, <1>7, <2>1, <2>2 DEF directionPressed, Clockwise
  <2>4. isTate <=> 1 # 0
    BY <1>7 DEF isTate
  <2> HIDE DEF at
  <2> QED
    BY <1>4, <2>3, <2>4
<1> QED
  BY <1>5, <1>6, <1>7

-----------------------------------------------------------------------------
(* No two logical buttons read from one.                                   *)

\* Without a gpio gamepad l1 and r1 are read from the triggers on top.
LEMMA TopButtons ==
  ASSUME device \in Models, ~gpio
  PROVE  /\ DeviceButtons(device, gpio)["l1"] = "TopLeft"
         /\ DeviceButtons(device, gpio)["r1"] = "TopRight"
<1>1. "l1" \in Logical /\ "r1" \in Logical
  BY DEF Logical, Shoulders
<1>2. /\ "l1" \notin DOMAIN StandardButtons
      /\ "r1" \notin DOMAIN StandardButtons
      /\ "l1" \notin DOMAIN GoSuperButtons /\ "r1" \notin DOMAIN GoSuperButtons
      /\ "l1" \notin DOMAIN ArcButtons /\ "r1" \notin DOMAIN ArcButtons
  BY DEF StandardButtons, GoSuperButtons, ArcButtons
<1>3. \A map, changes, l : l \in Logical /\ l \notin DOMAIN changes =>
        With(map, changes)[l] = map[l]
  BY DEF With
<1>4. DefaultButtons["l1"] = "TopLeft" /\ DefaultButtons["r1"] = "TopRight"
  BY DEF DefaultButtons
<1> DEFINE std == With(DefaultButtons, StandardButtons)
<1>5. std["l1"] = "TopLeft" /\ std["r1"] = "TopRight"
  BY <1>1, <1>2, <1>3, <1>4
<1> HIDE DEF std
<1>6. /\ With(std, GoSuperButtons)["l1"] = "TopLeft"
      /\ With(std, GoSuperButtons)["r1"] = "TopRight"
      /\ With(std, ArcButtons)["l1"] = "TopLeft"
      /\ With(std, ArcButtons)["r1"] = "TopRight"
  BY <1>1, <1>2, <1>3, <1>5
<1>7. DeviceButtons(device, gpio) \in
        {With(std, GoSuperButtons), With(std, ArcButtons), std,
         DefaultButtons}
  BY DEF DeviceButtons, Models, std
<1> QED
  BY <1>4, <1>5, <1>6, <1>7

\* The turns and the exchange of the shoulders are permutations: what is read
\* are the buttons that are assigned, in another order.
LEMMA SameButtons ==
  ASSUME ControlTypes,
         gpio \/ \A l \in {"l1", "r1"} :
                  buttons[l] = DeviceButtons(device, gpio)[l]
  PROVE  {ReadFrom(l) : l \in Logical} = {buttons[l] : l \in Logical}
<1>1. ~gpio => buttons["l1"] = "TopLeft" /\ buttons["r1"] = "TopRight"
  BY TopButtons DEF ControlTypes
<1>2. \E to \in [Logical -> Logical] :
        /\ \A l \in Logical : ReadFrom(l) = buttons[to[l]]
        /\ \A m \in Logical : \E l \in Logical : to[l] = m
  <2> DEFINE rotated(l) == CASE ~isTate -> l
               [] isTate /\ tateState = "reversed" -> CounterClockwise[l]
               [] OTHER -> Clockwise[l]
             swapped(l) ==
               IF ~swapShoulders THEN l
               ELSE [l1 |-> "l2", l2 |-> "l1", r1 |-> "r2", r2 |-> "r1"][l]
             to == [l \in Logical |->
                      CASE l \in Directions \cup Faces -> rotated(l)
                        [] l \in Shoulders -> swapped(l)
                        [] OTHER -> l]
  <2>1. \A l \in Directions \cup Faces :
          /\ rotated(l) \in Directions \cup Faces
          /\ getInput(l) = buttons[rotated(l)]
    BY DEF Directions, Faces, Clockwise, CounterClockwise, getInput
  <2>2. \A m \in Directions \cup Faces :
          \E l \in Directions \cup Faces : rotated(l) = m
    BY DEF Directions, Faces, Clockwise, CounterClockwise
  <2>3. \A l \in Shoulders :
          /\ swapped(l) \in Shoulders /\ Shoulder(l) = buttons[swapped(l)]
    BY <1>1 DEF Shoulders, Shoulder
  <2>4. \A m \in Shoulders : \E l \in Shoulders : swapped(l) = m
    BY DEF Shoulders
  <2>5. (Directions \cup Faces) \cap Shoulders = {}
    BY DEF Directions, Faces, Shoulders
  <2>6. Directions \cup Faces \cup Shoulders \subseteq Logical
    BY DEF Logical
  <2> HIDE DEF rotated, swapped
  <2>7. to \in [Logical -> Logical]
    BY <2>1, <2>3, <2>6
  <2>8. \A l \in Logical : ReadFrom(l) = buttons[to[l]]
    BY <2>1, <2>3, <2>5 DEF ReadFrom
  <2>9. \A m \in Logical : \E l \in Logical : to[l] = m
    BY <2>1, <2>2, <2>3, <2>4, <2>5, <2>6
  <2> HIDE DEF to
  <2> QED
    BY <2>7, <2>8, <2>9
<1>3. PICK to \in [Logical -> Logical] :
        /\ \A l \in Logical : ReadFrom(l) = buttons[to[l]]
        /\ \A m \in Logical : \E l \in Logical : to[l] = m
  BY <1>2
<1>4. \A l \in Logical :
        ReadFrom(l) = buttons[to[l]] /\ to[l] \in Logical
  BY <1>3
<1>5. \A m \in Logical :
        \E l \in Logical : ReadFrom(l) = buttons[m]
  BY <1>3
<1> QED
  BY <1>4, <1>5

LEMMA ApartAlways == ControlTypes => ButtonsApart
<1> SUFFICES ASSUME ControlTypes PROVE ButtonsApart
  OBVIOUS
<1> QED
  BY SameButtons DEF ButtonsApart

LEMMA OneUseHolds == ControlTypes /\ FrameUse => OneUse
<1> SUFFICES ASSUME ControlTypes, FrameUse, ~changing, NEW s \in Sticks,
                    <<s, "pad">> \in drove, <<s, "axis">> \in drove
             PROVE  FALSE
  BY DEF OneUse
<1>1. PICK i \in MappedIndex(effectiveMode(0)) : s = Exchanged(i)
  BY DEF FrameUse
<1>2. PICK j \in Sticks \ MappedIndex(effectiveMode(0)) : s = Exchanged(j)
  BY DEF FrameUse
<1>3. i \in Sticks
  <2>1. effectiveMode(0)
          \in {"none", "left", "right", "left_forced", "right_forced"}
    BY DEF ControlTypes, effectiveMode
  <2> QED
    BY <2>1, <1>1 DEF MappedIndex, Sticks
<1>4. i = j
  BY <1>1, <1>2, <1>3 DEF Exchanged, Other, Sticks
<1> QED
  BY <1>1, <1>2, <1>4

\* The controls the core reads: turned with the picture, none read twice, no
\* stick used in two ways in a frame, and no press lost or made up.
THEOREM ControlsHold == ControlsSpec => []ControlsTrue
<1>1. ControlsInv => ControlsTrue
  <2> SUFFICES ASSUME ControlsInv PROVE ControlsTrue
    OBVIOUS
  <2>1. TurnedAsOne /\ ButtonsApart
    BY TurnedAlike, ApartAlways DEF ControlsInv
  <2>2. OneUse
    BY OneUseHolds DEF ControlsInv
  <2>3. EdgesTrue
    BY DEF ControlsInv, Polled, EdgesTrue
  <2> QED
    BY <2>1, <2>2, <2>3 DEF ControlsTrue
<1> QED
  BY <1>1, ControlsInvInit, ControlsInvNext, PTL DEF ControlsSpec
=============================================================================
