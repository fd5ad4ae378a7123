--------------------------- MODULE DisplayProofs ---------------------------
(***************************************************************************)
(* What the GO2 display owns, proved for any number of buffers, resizes    *)
(* and overlays: whatever is destroyed, what needs it was destroyed first. *)
(* And what a benchmark reports of the pictures it saw, proved for every   *)
(* warm-up, limit and duration.  And what the SDL2 platform shows, proved  *)
(* for any surfaces, wherever malloc puts them and whatever fails.         *)
(***************************************************************************)
EXTENDS Go2Resources, Benchmark, SdlVideo, FiniteSetTheorems,
        SequenceTheorems, TLAPS

-----------------------------------------------------------------------------
(* What the GO2 display owns.                                              *)

Surfaces == {Surface(i) : i \in 1 .. 5}
OneOfEach ==
  {Card, RenderThread, Animator, Device, Egl, Window, EglSurface, Context,
   Pipeline}
Objects ==
  OneOfEach \cup Surfaces \cup {FrameBuffer(i) : i \in Pool}
    \cup {Prime(i) : i \in (1 .. 5) \cup Bos}
    \cup {Record(b) : b \in Bos} \cup {Scanout(b) : b \in Bos}

\* An object is known by its kind and its number.
LEMMA Kinds ==
  /\ Card[1] = "card" /\ RenderThread[1] = "render"
  /\ Animator[1] = "animator" /\ Device[1] = "gbmDevice"
  /\ Egl[1] = "eglDisplay" /\ Window[1] = "gbmSurface"
  /\ EglSurface[1] = "eglSurface" /\ Context[1] = "eglContext"
  /\ Pipeline[1] = "pipeline"
  /\ \A i : /\ Surface(i)[1] = "surface" /\ Surface(i)[2] = i
            /\ FrameBuffer(i)[1] = "framebuffer" /\ FrameBuffer(i)[2] = i
            /\ Prime(i)[1] = "prime" /\ Prime(i)[2] = i
            /\ Record(i)[1] = "record" /\ Record(i)[2] = i
            /\ Scanout(i)[1] = "scanout" /\ Scanout(i)[2] = i
  BY DEF Card, RenderThread, Animator, Device, Egl, Window, EglSurface,
         Context, Pipeline, Surface, FrameBuffer, Prime, Record, Scanout

LEMMA Needs ==
  /\ NeedsOf(Card) = {} /\ NeedsOf(Device) = {Card}
  /\ NeedsOf(RenderThread) = {FrameBuffer(1), FrameBuffer(2)}
  /\ NeedsOf(Animator) = {Surface(Loading), RenderThread}
  /\ NeedsOf(Egl) = {Device} /\ NeedsOf(Window) = {Device}
  /\ NeedsOf(EglSurface) = {Egl, Window}
  /\ NeedsOf(Context) = {Egl, EglSurface}
  /\ NeedsOf(Pipeline) = {Context}
  /\ \A i : NeedsOf(Surface(i)) = {Card}
  /\ \A i : NeedsOf(FrameBuffer(i)) = {Surface(i)}
  /\ \A i \in 1 .. 5 : NeedsOf(Prime(i)) = {Surface(i)}
  /\ \A b \in Bos : /\ NeedsOf(Prime(b)) = {Record(b)}
                    /\ NeedsOf(Record(b)) = {Window}
                    /\ NeedsOf(Scanout(b)) = {Record(b)}
<1>1. \A i \in 1 .. 5 : i \notin Bos
  BY Go2ResAssumption DEF Go2ResAssumption
<1>2. {FrameBuffer(p) : p \in Pool} = {FrameBuffer(1), FrameBuffer(2)}
  BY DEF Pool
<1>3. /\ NeedsOf(Card) = {} /\ NeedsOf(Device) = {Card}
      /\ NeedsOf(Animator) = {Surface(Loading), RenderThread}
      /\ NeedsOf(Egl) = {Device} /\ NeedsOf(Window) = {Device}
      /\ NeedsOf(EglSurface) = {Egl, Window}
      /\ NeedsOf(Context) = {Egl, EglSurface}
      /\ NeedsOf(Pipeline) = {Context}
  BY Kinds DEF NeedsOf
<1>4. NeedsOf(RenderThread) = {FrameBuffer(1), FrameBuffer(2)}
  BY Kinds, <1>2 DEF NeedsOf
<1>5. ASSUME NEW i
      PROVE  /\ NeedsOf(Surface(i)) = {Card}
             /\ NeedsOf(FrameBuffer(i)) = {Surface(i)}
             /\ NeedsOf(Record(i)) = {Window}
             /\ NeedsOf(Scanout(i)) = {Record(i)}
             /\ NeedsOf(Prime(i)) =
                  IF i \in Bos THEN {Record(i)} ELSE {Surface(i)}
  <2>1. NeedsOf(Surface(i)) = {Card}
    BY Kinds DEF NeedsOf
  <2>2. NeedsOf(FrameBuffer(i)) = {Surface(i)}
    BY Kinds DEF NeedsOf
  <2>3. NeedsOf(Record(i)) = {Window}
    BY Kinds DEF NeedsOf
  <2>4. NeedsOf(Scanout(i)) = {Record(i)}
    BY Kinds DEF NeedsOf
  <2>5. NeedsOf(Prime(i)) = IF i \in Bos THEN {Record(i)} ELSE {Surface(i)}
    BY Kinds DEF NeedsOf
  <2> QED BY <2>1, <2>2, <2>3, <2>4, <2>5
<1> QED BY <1>1, <1>3, <1>4, <1>5

\* Who needs an object, by its kind.
LEMMA Needers ==
  ASSUME NEW o \in Objects
  PROVE  /\ Card \in NeedsOf(o) => o = Device \/ o \in Surfaces
         /\ \A i : Surface(i) \in NeedsOf(o) =>
              \/ o \in {Prime(i), FrameBuffer(i)}
              \/ i = Loading /\ o = Animator
         /\ \A i : FrameBuffer(i) \in NeedsOf(o) => o = RenderThread
         /\ RenderThread \in NeedsOf(o) => o = Animator
         /\ Device \in NeedsOf(o) => o \in {Egl, Window}
         /\ Egl \in NeedsOf(o) => o \in {EglSurface, Context}
         /\ Window \in NeedsOf(o) =>
              o = EglSurface \/ o \in {Record(b) : b \in Bos}
         /\ EglSurface \in NeedsOf(o) => o = Context
         /\ Context \in NeedsOf(o) => o = Pipeline
         /\ \A b : Record(b) \in NeedsOf(o) => o \in {Prime(b), Scanout(b)}
         /\ \A i : Prime(i) \notin NeedsOf(o) /\ Scanout(i) \notin NeedsOf(o)
         /\ Animator \notin NeedsOf(o) /\ Pipeline \notin NeedsOf(o)
<1>1. CASE o \in OneOfEach
  BY <1>1, Kinds, Needs DEF OneOfEach
<1>2. CASE o \in Surfaces
  BY <1>2, Kinds, Needs DEF Surfaces
<1>3. CASE o \in {FrameBuffer(i) : i \in Pool}
  BY <1>3, Kinds, Needs
<1>4. CASE o \in {Prime(i) : i \in (1 .. 5) \cup Bos}
  BY <1>4, Kinds, Needs
<1>5. CASE o \in {Record(b) : b \in Bos} \cup {Scanout(b) : b \in Bos}
  BY <1>5, Kinds, Needs
<1> QED BY <1>1, <1>2, <1>3, <1>4, <1>5 DEF Objects

\* A list of what is destroyed: what it destroys in the end, and that nothing
\* among some objects is destroyed before what needs it.
Lists == Seq(SUBSET Objects)
Gone(list) == UNION {list[i] : i \in 1 .. Len(list)}
Orderly(list, among) ==
  \A i \in 1 .. Len(list) : \A o \in among :
    NeedsOf(o) \cap list[i] # {} => \E j \in 1 .. i : o \in list[j]
Closed(objects) == \A o \in objects : NeedsOf(o) \subseteq objects

LEMMA GoneMember ==
  ASSUME NEW list, NEW o
  PROVE  o \in Gone(list) <=> \E i \in 1 .. Len(list) : o \in list[i]
  BY DEF Gone

\* A list of one.
LEMMA OneList ==
  ASSUME NEW part \in SUBSET Objects, NEW among,
         \A o \in among : NeedsOf(o) \cap part # {} => o \in part
  PROVE  << part >> \in Lists /\ Gone(<< part >>) = part
         /\ Orderly(<< part >>, among)
<1>1. Len(<< part >>) = 1 /\ << part >>[1] = part
      /\ << part >> \in Seq(SUBSET Objects)
  OBVIOUS
<1>2. \A o : o \in Gone(<< part >>) <=> o \in part
  BY <1>1, GoneMember
<1>3. Orderly(<< part >>, among)
  <2>1. \A i \in 1 .. 1 : i = 1
    OBVIOUS
  <2>2. ASSUME NEW o \in among, NeedsOf(o) \cap << part >>[1] # {}
        PROVE  \E j \in 1 .. 1 : o \in << part >>[j]
    BY <1>1, <2>2
  <2> QED BY <1>1, <2>1, <2>2 DEF Orderly
<1> QED BY <1>1, <1>2, <1>3 DEF Lists

LEMMA NoList ==
  ASSUME NEW among
  PROVE  << >> \in Lists /\ Gone(<< >>) = {} /\ Orderly(<< >>, among)
  BY DEF Lists, Gone, Orderly

\* One list after another.
LEMMA JoinLists ==
  ASSUME NEW first \in Lists, NEW second \in Lists, NEW among,
         Orderly(first, among), Orderly(second, among \ Gone(first))
  PROVE  /\ first \o second \in Lists
         /\ Gone(first \o second) = Gone(first) \cup Gone(second)
         /\ Orderly(first \o second, among)
<1> DEFINE list == first \o second
           m == Len(first)
           n == Len(second)
<1>1. /\ list \in Lists /\ Len(list) = m + n /\ m \in Nat /\ n \in Nat
      /\ \A i \in 1 .. m : list[i] = first[i]
      /\ \A i \in 1 .. n : list[m + i] = second[i]
  <2>1. first \in Seq(SUBSET Objects) /\ second \in Seq(SUBSET Objects)
    BY DEF Lists
  <2> QED BY <2>1 DEF Lists
<1> HIDE DEF list
<1>2. \A i \in 1 .. m + n : i \in 1 .. m \/ \E j \in 1 .. n : i = m + j
  <2>1. ASSUME NEW i \in 1 .. m + n, i \notin 1 .. m
        PROVE  i - m \in 1 .. n /\ i = m + (i - m)
    <3> HIDE DEF m, n
    <3> QED BY <1>1, <2>1
  <2> QED BY <2>1
<1>3. /\ \A i \in 1 .. m : i \in 1 .. m + n
      /\ \A i \in 1 .. n : m + i \in 1 .. m + n
  <2> HIDE DEF m, n
  <2> QED BY <1>1
<1> HIDE DEF m, n
<1>4. \A o : o \in Gone(first) <=> \E i \in 1 .. m : o \in first[i]
  BY GoneMember DEF m
<1>5. Gone(list) = Gone(first) \cup Gone(second)
  <2>1. \A o : o \in Gone(second) <=> \E i \in 1 .. n : o \in second[i]
    BY GoneMember DEF n
  <2>2. \A o : o \in Gone(list) <=> \E i \in 1 .. m + n : o \in list[i]
    BY <1>1, GoneMember
  <2>3. \A o : o \in Gone(list) <=> o \in Gone(first) \/ o \in Gone(second)
    BY <1>1, <1>2, <1>3, <1>4, <2>1, <2>2
  <2> QED BY <2>3
<1>6. Orderly(list, among)
  <2>1. SUFFICES ASSUME NEW i \in 1 .. m + n, NEW o \in among,
                        NeedsOf(o) \cap list[i] # {}
                 PROVE  \E j \in 1 .. i : o \in list[j]
    BY <1>1 DEF Orderly
  <2>2. CASE i \in 1 .. m
    <3>1. PICK j \in 1 .. i : o \in first[j]
      BY <1>1, <2>1, <2>2 DEF Orderly, m
    <3>2. j \in 1 .. m
      BY <1>1, <2>2
    <3> QED BY <1>1, <3>1, <3>2
  <2>3. CASE \E k \in 1 .. n : i = m + k
    <3>1. PICK k \in 1 .. n : i = m + k
      BY <2>3
    <3>2. CASE o \in Gone(first)
      <4>1. PICK j \in 1 .. m : o \in first[j]
        BY <1>4, <3>2
      <4>2. j \in 1 .. i
        BY <1>1, <3>1, <4>1
      <4> QED BY <1>1, <4>1, <4>2
    <3>3. CASE o \notin Gone(first)
      <4>1. PICK j \in 1 .. k : o \in second[j]
        BY <1>1, <2>1, <3>1, <3>3 DEF Orderly, n
      <4>2. j \in 1 .. n /\ m + j \in 1 .. i
        BY <1>1, <3>1, <4>1
      <4> QED BY <1>1, <4>1, <4>2
    <3> QED BY <3>2, <3>3
  <2> QED BY <1>2, <2>2, <2>3
<1> QED BY <1>1, <1>5, <1>6 DEF list

\* The first part of a list, and the rest.
LEMMA HeadAndTail ==
  ASSUME NEW list \in Lists, list # << >>
  PROVE  /\ Len(list) \in Nat \ {0}
         /\ Head(list) = list[1] /\ list[1] \in SUBSET Objects
         /\ Tail(list) \in Lists /\ Len(Tail(list)) = Len(list) - 1
         /\ \A i \in 1 .. Len(list) - 1 : Tail(list)[i] = list[i + 1]
         /\ Gone(list) = Head(list) \cup Gone(Tail(list))
         /\ \A i \in 1 .. Len(list) :
              i = 1 \/ \E j \in 1 .. Len(list) - 1 : i = j + 1
         /\ \A j \in 1 .. Len(list) - 1 : j + 1 \in 1 .. Len(list)
         /\ 1 \in 1 .. Len(list)
<1> DEFINE n == Len(list)
           rest == Tail(list)
<1>1. /\ n \in Nat \ {0} /\ Head(list) = list[1]
      /\ list[1] \in SUBSET Objects
      /\ rest \in Lists /\ Len(rest) = n - 1
      /\ \A i \in 1 .. n - 1 : rest[i] = list[i + 1]
  BY DEF Lists
<1> HIDE DEF n, rest
<1>2. /\ \A i \in 1 .. n : i = 1 \/ \E j \in 1 .. n - 1 : i = j + 1
      /\ \A j \in 1 .. n - 1 : j + 1 \in 1 .. n
      /\ 1 \in 1 .. n
  <2>1. \A i \in 1 .. n : i # 1 => i - 1 \in 1 .. n - 1 /\ i = (i - 1) + 1
    BY <1>1
  <2> QED BY <1>1, <2>1
<1>3. Gone(list) = list[1] \cup Gone(rest)
  <2>1. \A o : o \in Gone(list) <=> \E i \in 1 .. n : o \in list[i]
    BY GoneMember DEF n
  <2>2. \A o : o \in Gone(rest) <=> \E i \in 1 .. n - 1 : o \in rest[i]
    BY <1>1, GoneMember
  <2>3. ASSUME NEW o \in Gone(list), o \notin list[1]
        PROVE  o \in Gone(rest)
    <3>1. PICK i \in 1 .. n : o \in list[i]
      BY <2>1, <2>3
    <3>2. PICK j \in 1 .. n - 1 : i = j + 1
      BY <1>2, <2>3, <3>1
    <3> QED BY <1>1, <2>2, <3>1, <3>2
  <2>4. ASSUME NEW o \in Gone(rest)
        PROVE  o \in Gone(list)
    <3>1. PICK j \in 1 .. n - 1 : o \in rest[j]
      BY <2>2, <2>4
    <3> QED BY <1>1, <1>2, <2>1, <3>1
  <2>5. \A o : o \in list[1] => o \in Gone(list)
    BY <1>2, <2>1
  <2> QED BY <2>3, <2>4, <2>5
<1> QED BY <1>1, <1>2, <1>3 DEF n, rest

\* The next of a list.
LEMMA NextOfList ==
  ASSUME NEW list \in Lists, list # << >>, NEW among,
         Orderly(list, among), Closed(among)
  PROVE  /\ Tail(list) \in Lists /\ Head(list) \in SUBSET Objects
         /\ Gone(list) = Head(list) \cup Gone(Tail(list))
         /\ Orderly(Tail(list), among \ Head(list))
         /\ Closed(among \ Head(list))
<1> DEFINE n == Len(list)
           rest == Tail(list)
<1>1. /\ n \in Nat \ {0} /\ Head(list) = list[1]
      /\ list[1] \in SUBSET Objects
      /\ rest \in Lists /\ Len(rest) = n - 1
      /\ \A i \in 1 .. n - 1 : rest[i] = list[i + 1]
      /\ \A j \in 1 .. n - 1 : j + 1 \in 1 .. n
      /\ 1 \in 1 .. n
      /\ Gone(list) = Head(list) \cup Gone(rest)
  BY HeadAndTail
<1> HIDE DEF n, rest
<1>2. Orderly(rest, among \ list[1])
  <2>1. SUFFICES ASSUME NEW i \in 1 .. n - 1, NEW o \in among \ list[1],
                        NeedsOf(o) \cap rest[i] # {}
                 PROVE  \E j \in 1 .. i : o \in rest[j]
    BY <1>1 DEF Orderly
  <2>2. PICK j \in 1 .. i + 1 : o \in list[j]
    BY <1>1, <2>1 DEF Orderly, n
  <2>3. j # 1 /\ j \in Int /\ i \in Int
    BY <2>1, <2>2
  <2>4. j - 1 \in 1 .. i /\ j - 1 \in 1 .. n - 1 /\ (j - 1) + 1 = j
    BY <1>1, <2>2, <2>3
  <2> QED BY <1>1, <2>2, <2>4
<1>3. Closed(among \ list[1])
  <2>1. ASSUME NEW o \in among, NeedsOf(o) \cap list[1] # {}
        PROVE  o \in list[1]
    BY <1>1, <2>1 DEF Orderly, n
  <2> QED BY <2>1 DEF Closed
<1> QED BY <1>1, <1>2, <1>3 DEF rest

\* A list that begins with a part.
LEMMA PartFirst ==
  ASSUME NEW list \in Lists, list # << >>, NEW among,
         \A o \in among :
           NeedsOf(o) \cap Head(list) # {} => o \in Head(list),
         Orderly(Tail(list), among \ Head(list))
  PROVE  Orderly(list, among)
<1> DEFINE n == Len(list)
           rest == Tail(list)
<1>1. /\ n \in Nat \ {0} /\ Head(list) = list[1]
      /\ Len(rest) = n - 1
      /\ \A i \in 1 .. n - 1 : rest[i] = list[i + 1]
      /\ \A i \in 1 .. n : i = 1 \/ \E j \in 1 .. n - 1 : i = j + 1
      /\ \A j \in 1 .. n - 1 : j + 1 \in 1 .. n
      /\ 1 \in 1 .. n
  BY HeadAndTail
<1> HIDE DEF n, rest
<1>2. SUFFICES ASSUME NEW i \in 1 .. n, NEW o \in among,
                      NeedsOf(o) \cap list[i] # {}
               PROVE  \E j \in 1 .. i : o \in list[j]
  BY DEF Orderly, n
<1>3. 1 \in 1 .. i
  BY <1>1
<1>4. CASE o \in list[1]
  BY <1>3, <1>4
<1>5. CASE o \notin list[1]
  <2>1. PICK k \in 1 .. n - 1 : i = k + 1
    BY <1>1, <1>2, <1>5
  <2>2. NeedsOf(o) \cap rest[k] # {}
    BY <1>1, <1>2, <2>1
  <2>3. PICK j \in 1 .. k : o \in rest[j]
    BY <1>1, <1>5, <2>2 DEF Orderly, rest
  <2>4. j \in 1 .. n - 1 /\ j + 1 \in 1 .. i
    BY <1>1, <2>1, <2>3
  <2> QED BY <1>1, <2>3, <2>4
<1> QED BY <1>4, <1>5

LEMMA SurfaceList ==
  ASSUME NEW i \in 1 .. 5, NEW among \in SUBSET Objects,
         FrameBuffer(i) \notin among, i = Loading => Animator \notin among
  PROVE  /\ surface_destroy(i) \in Lists
         /\ Gone(surface_destroy(i)) = {Prime(i), Surface(i)}
         /\ Orderly(surface_destroy(i), among)
<1>1. {Prime(i)} \in SUBSET Objects /\ {Surface(i)} \in SUBSET Objects
  BY DEF Objects, Surfaces
<1>2. \A o \in among : NeedsOf(o) \cap {Prime(i)} = {}
  BY Needers
<1>3. \A o \in among \ {Prime(i)} : NeedsOf(o) \cap {Surface(i)} = {}
  BY Needers
<1>4. Gone(<< {Surface(i)} >>) = {Surface(i)}
      /\ Orderly(<< {Surface(i)} >>, among \ {Prime(i)})
  BY <1>1, <1>3, OneList
<1>5. /\ surface_destroy(i) # << >> /\ surface_destroy(i) \in Lists
      /\ Head(surface_destroy(i)) = {Prime(i)}
      /\ Tail(surface_destroy(i)) = << {Surface(i)} >>
  BY <1>1 DEF surface_destroy, Lists
<1> QED BY <1>2, <1>4, <1>5, PartFirst, HeadAndTail

LEMMA FrameBufferList ==
  ASSUME NEW i \in Pool, NEW among \in SUBSET Objects,
         RenderThread \notin among
  PROVE  /\ frame_buffer_destroy(i) \in Lists
         /\ Gone(frame_buffer_destroy(i)) = {FrameBuffer(i)}
         /\ Orderly(frame_buffer_destroy(i), among)
<1>1. \A o \in among : NeedsOf(o) \cap {FrameBuffer(i)} = {}
  BY Needers
<1>2. {FrameBuffer(i)} \in SUBSET Objects
  BY DEF Objects
<1> QED BY <1>1, <1>2, OneList DEF frame_buffer_destroy

LEMMA DisplayList ==
  ASSUME NEW among \in SUBSET Objects, Device \notin among,
         among \cap Surfaces = {}
  PROVE  /\ display_destroy \in Lists /\ Gone(display_destroy) = {Card}
         /\ Orderly(display_destroy, among)
<1>1. \A o \in among : NeedsOf(o) \cap {Card} = {}
  BY Needers
<1>2. {Card} \in SUBSET Objects
  BY DEF Objects, OneOfEach
<1> QED BY <1>1, <1>2, OneList DEF display_destroy

\* The presenter's own.
Presented ==
  {RenderThread, FrameBuffer(1), Prime(1), Surface(1), FrameBuffer(2),
   Prime(2), Surface(2)}

LEMMA PresenterList ==
  ASSUME NEW among \in SUBSET Objects, Animator \notin among
  PROVE  /\ presenter_destroy \in Lists
         /\ Gone(presenter_destroy) = Presented
         /\ Orderly(presenter_destroy, among)
<1> DEFINE a == << {RenderThread} >>
           b == a \o frame_buffer_destroy(1)
           c == b \o surface_destroy(1)
           d == c \o frame_buffer_destroy(2)
<1>1. /\ a \in Lists /\ Gone(a) = {RenderThread} /\ Orderly(a, among)
  <2>1. \A o \in among : NeedsOf(o) \cap {RenderThread} = {}
    BY Needers
  <2>2. {RenderThread} \in SUBSET Objects
    BY DEF Objects, OneOfEach
  <2> QED BY <2>1, <2>2, OneList
<1> HIDE DEF a
<1>2. /\ b \in Lists /\ Gone(b) = {RenderThread, FrameBuffer(1)}
      /\ Orderly(b, among)
  <2>1. RenderThread \notin among \ Gone(a) /\ 1 \in Pool
    BY <1>1 DEF Pool
  <2>2. /\ frame_buffer_destroy(1) \in Lists
        /\ Orderly(frame_buffer_destroy(1), among \ Gone(a))
        /\ Gone(frame_buffer_destroy(1)) = {FrameBuffer(1)}
    BY <2>1, FrameBufferList
  <2> QED BY <1>1, <2>2, JoinLists
<1> HIDE DEF b
<1>3. /\ c \in Lists
      /\ Gone(c) = {RenderThread, FrameBuffer(1), Prime(1), Surface(1)}
      /\ Orderly(c, among)
  <2>1. FrameBuffer(1) \notin among \ Gone(b) /\ 1 \in 1 .. 5
    BY <1>2
  <2>2. /\ surface_destroy(1) \in Lists
        /\ Orderly(surface_destroy(1), among \ Gone(b))
        /\ Gone(surface_destroy(1)) = {Prime(1), Surface(1)}
    BY <2>1, SurfaceList
  <2> QED BY <1>2, <2>2, JoinLists
<1> HIDE DEF c
<1>4. /\ d \in Lists
      /\ Gone(d) = {RenderThread, FrameBuffer(1), Prime(1), Surface(1),
                    FrameBuffer(2)}
      /\ Orderly(d, among)
  <2>1. RenderThread \notin among \ Gone(c) /\ 2 \in Pool
    BY <1>3 DEF Pool
  <2>2. /\ frame_buffer_destroy(2) \in Lists
        /\ Orderly(frame_buffer_destroy(2), among \ Gone(c))
        /\ Gone(frame_buffer_destroy(2)) = {FrameBuffer(2)}
    BY <2>1, FrameBufferList
  <2> QED BY <1>3, <2>2, JoinLists
<1> HIDE DEF d
<1>5. FrameBuffer(2) \notin among \ Gone(d) /\ 2 \in 1 .. 5
  BY <1>4
<1>6. presenter_destroy = d \o surface_destroy(2)
  BY DEF presenter_destroy, a, b, c, d
<1>7. /\ surface_destroy(2) \in Lists
      /\ Orderly(surface_destroy(2), among \ Gone(d))
      /\ Gone(surface_destroy(2)) = {Prime(2), Surface(2)}
  BY <1>5, SurfaceList
<1> QED BY <1>4, <1>6, <1>7, JoinLists DEF Presented

LEMMA LoadingList ==
  ASSUME NEW among \in SUBSET Objects
  PROVE  /\ stop_startup_loading \in Lists
         /\ Gone(stop_startup_loading) =
              {Animator, Prime(Loading), Surface(Loading)}
         /\ Orderly(stop_startup_loading, among)
<1>1. \A o \in among : NeedsOf(o) \cap {Animator} = {}
  BY Needers
<1>2. {Animator} \in SUBSET Objects
  BY DEF Objects, OneOfEach
<1>3. FrameBuffer(Loading) \notin Objects
  BY Kinds DEF Objects, OneOfEach, Surfaces, Pool, Loading
<1>4. /\ surface_destroy(Loading) \in Lists
      /\ Gone(surface_destroy(Loading)) = {Prime(Loading), Surface(Loading)}
      /\ Orderly(surface_destroy(Loading), among \ {Animator})
  <2>1. Loading \in 1 .. 5
    BY DEF Loading
  <2> QED BY <1>3, <2>1, SurfaceList
<1>5. << {Animator} >> \in Lists /\ Gone(<< {Animator} >>) = {Animator}
      /\ Orderly(<< {Animator} >>, among)
  BY <1>1, <1>2, OneList
<1> QED BY <1>4, <1>5, JoinLists DEF stop_startup_loading

\* The context's own, and its buffers'.
ContextOwn == {Context, EglSurface, Window, Egl, Device}
BuffersOwn ==
  {Scanout(b) : b \in Bos} \cup {Prime(b) : b \in Bos}
    \cup {Record(b) : b \in Bos}

LEMMA ContextPartsList ==
  ASSUME NEW among \in SUBSET Objects, Pipeline \notin among,
         among \cap {Record(b) : b \in Bos} = {}
  PROVE  /\ ContextParts \in Lists /\ Gone(ContextParts) = ContextOwn
         /\ Orderly(ContextParts, among)
<1> DEFINE d == << {Device} >>
           c == << {Egl}, {Device} >>
           b == << {Window}, {Egl}, {Device} >>
           a == << {EglSurface}, {Window}, {Egl}, {Device} >>
<1>1. /\ {Context} \in SUBSET Objects /\ {EglSurface} \in SUBSET Objects
      /\ {Window} \in SUBSET Objects /\ {Egl} \in SUBSET Objects
      /\ {Device} \in SUBSET Objects
  BY DEF Objects, OneOfEach
<1>2. /\ d \in Lists /\ c \in Lists /\ b \in Lists /\ a \in Lists
      /\ ContextParts \in Lists
  BY <1>1 DEF Lists, ContextParts
<1>3. /\ c # << >> /\ Head(c) = {Egl} /\ Tail(c) = d
      /\ b # << >> /\ Head(b) = {Window} /\ Tail(b) = c
      /\ a # << >> /\ Head(a) = {EglSurface} /\ Tail(a) = b
      /\ ContextParts # << >> /\ Head(ContextParts) = {Context}
      /\ Tail(ContextParts) = a
  BY DEF ContextParts
<1>4. Gone(d) = {Device}
      /\ Orderly(d, among \ {Context, EglSurface, Window, Egl})
  <2>1. \A o \in among \ {Context, EglSurface, Window, Egl} :
          NeedsOf(o) \cap {Device} = {}
    BY Needers
  <2> QED BY <1>1, <2>1, OneList
<1> HIDE DEF a, b, c, d
<1>5. Gone(c) = {Egl, Device}
      /\ Orderly(c, among \ {Context, EglSurface, Window})
  <2> DEFINE left == among \ {Context, EglSurface, Window}
  <2>1. \A o \in left : NeedsOf(o) \cap Head(c) # {} => o \in Head(c)
    BY <1>3, Needers
  <2>2. /\ Tail(c) = d
        /\ left \ Head(c) = among \ {Context, EglSurface, Window, Egl}
    BY <1>3
  <2> HIDE DEF left
  <2>3. Orderly(Tail(c), left \ Head(c))
    BY <1>4, <2>2
  <2>4. Orderly(c, left)
    BY <1>2, <1>3, <2>1, <2>3, PartFirst
  <2> QED BY <1>2, <1>3, <1>4, <2>4, HeadAndTail DEF left
<1>6. Gone(b) = {Window, Egl, Device}
      /\ Orderly(b, among \ {Context, EglSurface})
  <2> DEFINE left == among \ {Context, EglSurface}
  <2>1. \A o \in left : NeedsOf(o) \cap Head(b) # {} => o \in Head(b)
    BY <1>3, Needers
  <2>2. Tail(b) = c /\ left \ Head(b) = among \ {Context, EglSurface, Window}
    BY <1>3
  <2> HIDE DEF left
  <2>3. Orderly(Tail(b), left \ Head(b))
    BY <1>5, <2>2
  <2>4. Orderly(b, left)
    BY <1>2, <1>3, <2>1, <2>3, PartFirst
  <2> QED BY <1>2, <1>3, <1>5, <2>4, HeadAndTail DEF left
<1>7. Gone(a) = {EglSurface, Window, Egl, Device}
      /\ Orderly(a, among \ {Context})
  <2> DEFINE left == among \ {Context}
  <2>1. \A o \in left : NeedsOf(o) \cap Head(a) # {} => o \in Head(a)
    BY <1>3, Needers
  <2>2. Tail(a) = b /\ left \ Head(a) = among \ {Context, EglSurface}
    BY <1>3
  <2> HIDE DEF left
  <2>3. Orderly(Tail(a), left \ Head(a))
    BY <1>6, <2>2
  <2>4. Orderly(a, left)
    BY <1>2, <1>3, <2>1, <2>3, PartFirst
  <2> QED BY <1>2, <1>3, <1>6, <2>4, HeadAndTail DEF left
<1>8. \A o \in among :
        NeedsOf(o) \cap Head(ContextParts) # {} => o \in Head(ContextParts)
  BY <1>3, Needers
<1>9. Orderly(ContextParts, among)
  BY <1>2, <1>3, <1>7, <1>8, PartFirst
<1> QED BY <1>2, <1>3, <1>7, <1>9, HeadAndTail DEF ContextOwn

LEMMA BuffersList ==
  ASSUME NEW among \in SUBSET Objects
  PROVE  /\ BuffersRemoved \in Lists /\ Gone(BuffersRemoved) = BuffersOwn
         /\ Orderly(BuffersRemoved, among)
<1> DEFINE scanouts == {Scanout(b) : b \in Bos}
           primes == {Prime(b) : b \in Bos}
           records == {Record(b) : b \in Bos}
           b1 == << records >>
           b2 == << primes, records >>
<1>1. /\ scanouts \in SUBSET Objects /\ primes \in SUBSET Objects
      /\ records \in SUBSET Objects
  BY DEF Objects
<1>2. \A o \in among : NeedsOf(o) \cap scanouts = {}
  BY Needers
<1>3. \A o \in among : NeedsOf(o) \cap primes = {}
  BY Needers
<1>4. \A o \in among : NeedsOf(o) \cap records # {} =>
        o \in scanouts \/ o \in primes
  <2> SUFFICES ASSUME NEW o \in among, NEW b \in Bos, Record(b) \in NeedsOf(o)
               PROVE  o \in scanouts \/ o \in primes
    OBVIOUS
  <2>1. o \in {Prime(b), Scanout(b)}
    BY Needers
  <2> QED BY <2>1
<1>5. /\ b1 \in Lists /\ b2 \in Lists /\ BuffersRemoved \in Lists
      /\ b2 # << >> /\ Head(b2) = primes /\ Tail(b2) = b1
      /\ BuffersRemoved # << >> /\ Head(BuffersRemoved) = scanouts
      /\ Tail(BuffersRemoved) = b2
  <2>1. BuffersRemoved = << scanouts, primes, records >>
    BY DEF BuffersRemoved
  <2> HIDE DEF scanouts, primes, records
  <2> QED BY <1>1, <2>1 DEF Lists
<1>6. scanouts \cup primes \cup records = BuffersOwn
  BY DEF BuffersOwn
<1> HIDE DEF scanouts, primes, records
<1> DEFINE rest == among \ scanouts
<1>7. Gone(b1) = records /\ Orderly(b1, rest \ primes)
  BY <1>1, <1>4, OneList
<1> HIDE DEF b1, b2
<1>8. Gone(b2) = primes \cup records /\ Orderly(b2, rest)
  <2>1. \A o \in rest : NeedsOf(o) \cap Head(b2) = {}
    BY <1>3, <1>5
  <2>2. Orderly(Tail(b2), rest \ Head(b2))
    BY <1>5, <1>7
  <2> HIDE DEF rest
  <2>3. Orderly(b2, rest)
    BY <1>5, <2>1, <2>2, PartFirst
  <2> QED BY <1>5, <1>7, <2>3, HeadAndTail
<1>9. Orderly(BuffersRemoved, among)
  BY <1>2, <1>5, <1>8, PartFirst
<1> QED BY <1>5, <1>6, <1>8, <1>9, HeadAndTail

LEMMA ContextList ==
  ASSUME NEW among \in SUBSET Objects
  PROVE  /\ rr_context_destroy \in Lists
         /\ Gone(rr_context_destroy) =
              {Pipeline} \cup BuffersOwn \cup ContextOwn
         /\ Orderly(rr_context_destroy, among)
<1> DEFINE left == among \ {Pipeline}
<1>1. /\ destroy_go2_post_pipeline \in Lists
      /\ Gone(destroy_go2_post_pipeline) = {Pipeline}
      /\ Orderly(destroy_go2_post_pipeline, among)
  <2>1. \A o \in among : NeedsOf(o) \cap {Pipeline} = {}
    BY Needers
  <2>2. {Pipeline} \in SUBSET Objects
    BY DEF Objects, OneOfEach
  <2> QED BY <2>1, <2>2, OneList DEF destroy_go2_post_pipeline
<1>2. /\ BuffersRemoved \in Lists /\ Gone(BuffersRemoved) = BuffersOwn
      /\ Orderly(BuffersRemoved, left)
  BY BuffersList
<1>3. /\ ContextParts \in Lists /\ Gone(ContextParts) = ContextOwn
      /\ Orderly(ContextParts, left \ BuffersOwn)
  <2>1. /\ left \ BuffersOwn \in SUBSET Objects
        /\ Pipeline \notin left \ BuffersOwn
        /\ (left \ BuffersOwn) \cap {Record(b) : b \in Bos} = {}
    BY DEF BuffersOwn
  <2> HIDE DEF left
  <2> QED BY <2>1, ContextPartsList
<1> HIDE DEF left
<1>4. /\ context_destroy \in Lists
      /\ Gone(context_destroy) = BuffersOwn \cup ContextOwn
      /\ Orderly(context_destroy, left)
  BY <1>2, <1>3, JoinLists DEF context_destroy
<1> QED BY <1>1, <1>4, JoinLists DEF rr_context_destroy, left

\* video_deinit leaves nothing but what the loading screen had.
LEMMA DeinitList ==
  ASSUME NEW among \in SUBSET Objects, Animator \notin among,
         Surface(Loading) \notin among
  PROVE  /\ DeinitOrder \in Lists /\ Orderly(DeinitOrder, among)
         /\ Objects \ {Animator, Prime(Loading), Surface(Loading)}
              \subseteq Gone(DeinitOrder)
<1> DEFINE a == surface_destroy(Overlay)
           b == a \o surface_destroy(Picture)
           c == b \o rr_context_destroy
           d == c \o presenter_destroy
<1>1. /\ FrameBuffer(Overlay) \notin Objects
      /\ FrameBuffer(Picture) \notin Objects
      /\ Overlay \in 1 .. 5 /\ Picture \in 1 .. 5
      /\ Overlay # Loading /\ Picture # Loading
  BY Kinds DEF Objects, OneOfEach, Surfaces, Pool, Overlay, Picture, Loading
<1>2. /\ a \in Lists /\ Gone(a) = {Prime(Overlay), Surface(Overlay)}
      /\ Orderly(a, among)
  BY <1>1, SurfaceList
<1> HIDE DEF a
<1>3. /\ b \in Lists
      /\ Gone(b) = Gone(a) \cup {Prime(Picture), Surface(Picture)}
      /\ Orderly(b, among)
  <2>1. /\ surface_destroy(Picture) \in Lists
        /\ Gone(surface_destroy(Picture)) = {Prime(Picture), Surface(Picture)}
        /\ Orderly(surface_destroy(Picture), among \ Gone(a))
    BY <1>1, SurfaceList
  <2> QED BY <1>2, <2>1, JoinLists
<1> HIDE DEF b
<1>4. /\ c \in Lists
      /\ Gone(c) = Gone(b) \cup ({Pipeline} \cup BuffersOwn \cup ContextOwn)
      /\ Orderly(c, among)
  <2>1. /\ rr_context_destroy \in Lists
        /\ Gone(rr_context_destroy) =
             {Pipeline} \cup BuffersOwn \cup ContextOwn
        /\ Orderly(rr_context_destroy, among \ Gone(b))
    BY ContextList
  <2> QED BY <1>3, <2>1, JoinLists
<1> HIDE DEF c
<1>5. /\ d \in Lists /\ Gone(d) = Gone(c) \cup Presented
      /\ Orderly(d, among)
  <2>1. /\ presenter_destroy \in Lists
        /\ Gone(presenter_destroy) = Presented
        /\ Orderly(presenter_destroy, among \ Gone(c))
    BY PresenterList
  <2> QED BY <1>4, <2>1, JoinLists
<1>6. DeinitOrder = d \o display_destroy
  BY DEF DeinitOrder, a, b, c, d
<1> HIDE DEF d
<1>7. Surfaces \subseteq Gone(d) \cup {Surface(Loading)}
      /\ Device \in Gone(d)
  BY <1>2, <1>3, <1>4, <1>5
     DEF Surfaces, Presented, ContextOwn, Loading, Picture, Overlay
<1>8. /\ display_destroy \in Lists /\ Gone(display_destroy) = {Card}
      /\ Orderly(display_destroy, among \ Gone(d))
  BY <1>7, DisplayList
<1>9. /\ DeinitOrder \in Lists /\ Orderly(DeinitOrder, among)
      /\ Gone(DeinitOrder) = Gone(d) \cup {Card}
  BY <1>5, <1>6, <1>8, JoinLists
<1>10. ASSUME NEW o \in Objects \ {Animator, Prime(Loading), Surface(Loading)}
       PROVE  o \in Gone(DeinitOrder)
  <2> USE <1>2, <1>3, <1>4, <1>5, <1>9
  <2>1. CASE o \in OneOfEach
    BY <1>10, <2>1 DEF OneOfEach, ContextOwn, Presented
  <2>2. CASE o \in Surfaces
    BY <1>7, <1>10, <2>2
  <2>3. CASE o \in {FrameBuffer(i) : i \in Pool}
    BY <2>3 DEF Pool, Presented
  <2>4. CASE o \in {Prime(i) : i \in (1 .. 5) \cup Bos}
    <3>1. PICK i \in (1 .. 5) \cup Bos : o = Prime(i)
      BY <2>4
    <3>2. i \in Bos \/ i \in {1, 2, 3, 4, 5}
      BY <3>1
    <3> QED
      BY <1>10, <3>1, <3>2
         DEF Presented, BuffersOwn, Loading, Picture, Overlay
  <2>5. CASE o \in {Record(r) : r \in Bos} \cup {Scanout(r) : r \in Bos}
    BY <2>5 DEF BuffersOwn
  <2> QED BY <1>10, <2>1, <2>2, <2>3, <2>4, <2>5 DEF Objects
<1> QED BY <1>9, <1>10

LoadingOwn == {Animator, Prime(Loading), Surface(Loading)}
Base == {Card} \cup Presented
Handed == {"swapped", "settle", "fallback", "compose"}
Shown == {"running", "grown"} \cup Handed
OfContext == {"device", "egl", "config", "window", "target", "context", "post"}

\* What is destroyed next is destroyed before what it needs.
ObjectTypes ==
  /\ live \subseteq Objects /\ Closed(live)
  /\ todo \in Lists /\ Orderly(todo, live)
  /\ isOpenGL \in BOOLEAN

\* What there may be at a stage, but for what is about to be destroyed.
MayBe ==
  /\ stage \in {"start", "loadingCard", "down"} => live \subseteq Gone(todo)
  /\ stage = "loadingPresenter" => live = {Card}
  /\ stage = "loadingSurface" => live \subseteq Base
  /\ stage \in {"loadingMap", "animate"} =>
       live \subseteq Base \cup {Prime(Loading), Surface(Loading)}
  /\ stage = "configure" =>
       \/ live \subseteq Gone(todo)
       \/ /\ todo = << >> /\ RenderThread \in live
          /\ live \subseteq Base \cup LoadingOwn
  /\ stage = "card" =>
       \/ live = {}
       \/ /\ RenderThread \in live /\ RenderThread \notin Gone(todo)
          /\ live \subseteq Base \cup Gone(todo)
  /\ stage \in {"presenter", "device", "picture"} => live \subseteq Base
  /\ stage = "egl" => live \subseteq Base \cup {Device}
  /\ stage \in {"config", "window"} => live \subseteq Base \cup {Device, Egl}
  /\ stage \in {"target", "context", "post"} =>
       live \subseteq Base \cup ContextOwn
  /\ stage = "exited" => live \subseteq Base \cup Gone(todo)
  /\ stage \in Shown \cup {"stop"} => live \cap LoadingOwn = {}

\* When something is being destroyed, and what then.
Doomed ==
  /\ todo # << >> =>
       stage \in {"configure", "card", "running", "grown", "down", "exited"}
  /\ stage \in Shown \cup {"stop"} =>
       Gone(todo) \subseteq {Prime(Picture), Surface(Picture),
                             Prime(Overlay), Surface(Overlay)}
  /\ stage = "running" /\ ~isOpenGL => Surface(Picture) \notin Gone(todo)

\* What there must be at a stage.
MustBe ==
  /\ stage = "presenter" => Card \in live
  /\ stage \in {"loadingSurface", "loadingMap", "animate", "picture"}
               \cup OfContext \cup Shown => RenderThread \in live
  /\ stage \in {"loadingMap", "animate"} => Surface(Loading) \in live
  /\ stage = "egl" => Device \in live
  /\ stage \in {"config", "window", "target"} => Egl \in live
  /\ stage = "target" => Window \in live
  /\ stage = "context" => EglSurface \in live
  /\ stage = "post" => Context \in live
  /\ stage \in OfContext \cup Handed => isOpenGL
  /\ stage = "picture" => ~isOpenGL
  /\ stage \in Shown /\ isOpenGL => Context \in live
  /\ stage = "running" /\ ~isOpenGL => Surface(Picture) \in live

\* The buffers of a hardware core: what it holds, what the plane shows.
Buffers ==
  /\ hand \in Bos \cup {0} /\ scanned \in Bos \cup {0}
  /\ hand # 0 => hand # scanned
  /\ locked = {hand, scanned} \ {0}
  /\ plane = IF stage = "settle" THEN hand ELSE scanned
  /\ plane # 0 => Scanout(plane) \in live
  /\ stage \notin Handed \cup {"aborted"} => hand = 0
  /\ stage \in Handed => hand \in Bos /\ Record(hand) \in live
  /\ stage \notin Shown \cup {"stop", "aborted"} \/ stage = "compose" =>
       scanned = 0

ResInv == ObjectTypes /\ MayBe /\ Doomed /\ MustBe /\ Buffers

LEMMA ResInvInit == Go2ResInit => ResInv
<1> SUFFICES ASSUME Go2ResInit PROVE ResInv
  OBVIOUS
<1>1. /\ todo \in Lists /\ Gone(todo) = {} /\ Orderly(todo, live)
  BY NoList DEF Go2ResInit
<1> QED
  BY <1>1
     DEF Go2ResInit, ResInv, ObjectTypes, MayBe, Doomed, MustBe, Buffers,
         Closed, OfContext, Shown, Handed

\* The invariant says what the property does.
LEMMA ResInvLast == ResInv => OwnersLast
<1> SUFFICES ASSUME ResInv PROVE OwnersLast
  OBVIOUS
<1> USE DEF ResInv
<1>1. \A o \in live : NeedsOf(o) \subseteq live
  BY DEF ObjectTypes, Closed
<1>2. PlaneAlive
  BY DEF PlaneAlive, Buffers
<1>3. ASSUME todo = << >> PROVE Gone(todo) = {}
  BY <1>3, NoList
<1>4. At("exited") => {Device, Egl} \cap live = {}
  BY <1>3, Kinds DEF At, MayBe, Base, Presented
<1>5. At("card") =>
        \/ live = {}
        \/ {Card, RenderThread} \subseteq live /\ Surface(Loading) \notin live
  <2> SUFFICES ASSUME At("card"), live # {}
               PROVE  {Card, RenderThread} \subseteq live
                      /\ Surface(Loading) \notin live
    OBVIOUS
  <2>1. RenderThread \in live /\ live \subseteq Base
    BY <1>3 DEF At, MayBe
  <2>2. FrameBuffer(1) \in live
    BY <1>1, <2>1, Needs
  <2>3. Surface(1) \in live
    BY <1>1, <2>2, Needs
  <2>4. Card \in live
    BY <1>1, <2>3, Needs
  <2> QED BY <2>1, <2>4, Kinds DEF Base, Presented, Loading
<1>6. At("down") => live = {} /\ locked = {}
  BY <1>3 DEF At, MayBe, Buffers, Handed, Shown
<1> QED BY <1>1, <1>2, <1>4, <1>5, <1>6 DEF OwnersLast, NothingLeftOver

\* The next of the list is destroyed.
LEMMA ReleaseInv == ASSUME ResInv, Release PROVE ResInv'
<1> USE DEF ResInv
<1>1. /\ todo # << >> /\ live' = live \ Head(todo) /\ todo' = Tail(todo)
      /\ UNCHANGED <<stage, isOpenGL, hand, locked, scanned, plane>>
  BY DEF Release, flowVars
<1>2. /\ todo' \in Lists /\ Gone(todo) = Head(todo) \cup Gone(todo')
      /\ Orderly(todo', live') /\ Closed(live')
  BY <1>1, NextOfList DEF ObjectTypes
<1>3. ObjectTypes'
  BY <1>1, <1>2 DEF ObjectTypes
<1>4. stage \in {"configure", "card", "running", "grown", "down", "exited"}
  BY <1>1 DEF Doomed
<1>5. \A o \in live : o \in live' \/ o \in Gone(todo)
  BY <1>1, <1>2
<1>6. MayBe'
  BY <1>1, <1>2, <1>4, <1>5 DEF MayBe, Shown, Handed
<1>7. Doomed'
  BY <1>1, <1>2, <1>4 DEF Doomed
<1>8. MustBe'
  <2>1. stage \in {"running", "grown"} =>
          /\ RenderThread \in live => RenderThread \in live'
          /\ Context \in live => Context \in live'
    BY <1>5, Kinds DEF Doomed, Shown
  <2>2. stage = "running" /\ ~isOpenGL => Surface(Picture) \in live'
    BY <1>5 DEF Doomed, MustBe
  <2> QED BY <1>1, <1>4, <2>1, <2>2 DEF MustBe, OfContext, Shown, Handed
<1>9. Buffers'
  <2>1. plane # 0 => stage \in {"running", "grown"}
    BY <1>4 DEF Buffers, Shown, Handed
  <2>2. plane # 0 => Scanout(plane) \in live'
    BY <1>5, <2>1, Kinds DEF Doomed, Shown, Buffers
  <2> QED BY <1>1, <1>4, <2>2 DEF Buffers, Shown, Handed
<1> QED BY <1>3, <1>6, <1>7, <1>8, <1>9

-----------------------------------------------------------------------------
(* What the steps make and what they undo.                                 *)

LEMMA CreatedIs ==
  /\ display_create = {Card}
  /\ presenter_create = {RenderThread, FrameBuffer(1), Surface(1),
                         FrameBuffer(2), Surface(2)}
  /\ \A i : surface_create(i) = {Surface(i)} /\ surface_map(i) = {Prime(i)}
  /\ surface_blit(Loading, {1}) = {Prime(Loading), Prime(1)}
  /\ \A i : surface_blit(i, Pool) = {Prime(i), Prime(1), Prime(2)}
  /\ create_go2_post_pipeline = {Pipeline}
<1>1. presenter_create = {RenderThread, FrameBuffer(1), Surface(1),
                          FrameBuffer(2), Surface(2)}
  <2>1. \A o : o \in presenter_create <=>
          \/ \E i \in {1, 2} : o \in {Surface(i)} \cup {FrameBuffer(i)}
          \/ o = RenderThread
    <3> DEFINE pair(i) == surface_create(i) \cup frame_buffer_create(i)
               pairs == UNION {pair(i) : i \in Pool}
    <3>1. \A o : o \in pairs <=> \E i \in Pool : o \in pair(i)
      <4> HIDE DEF pair
      <4> QED BY Zenon
    <3>2. presenter_create = {RenderThread} \cup pairs
      BY DEF presenter_create
    <3>3. \A i : pair(i) = {Surface(i)} \cup {FrameBuffer(i)}
      BY DEF surface_create, frame_buffer_create
    <3>4. \A o : o \in presenter_create <=>
            (\E i \in Pool : o \in pair(i)) \/ o = RenderThread
      <4> HIDE DEF pair, pairs
      <4> QED BY <3>1, <3>2
    <3> HIDE DEF pair
    <3> QED BY <3>3, <3>4 DEF Pool
  <2> QED BY <2>1
<1>2. ASSUME NEW i, NEW onto
      PROVE  surface_blit(i, onto) = {Prime(j) : j \in {i} \cup onto}
  BY DEF surface_blit, surface_prime_fd
<1>3. \A i : {Prime(j) : j \in {i} \cup Pool} = {Prime(i), Prime(1), Prime(2)}
  BY DEF Pool
<1>4. {Prime(j) : j \in {Loading} \cup {1}} = {Prime(Loading), Prime(1)}
  OBVIOUS
<1> QED
  BY <1>1, <1>2, <1>3, <1>4
     DEF display_create, surface_create, surface_map, surface_prime_fd,
         create_go2_post_pipeline

LEMMA Known ==
  /\ OneOfEach \subseteq Objects /\ ContextOwn \subseteq Objects
  /\ Presented \subseteq Objects /\ Base \subseteq Objects
  /\ \A i \in 1 .. 5 : Surface(i) \in Objects /\ Prime(i) \in Objects
  /\ \A b \in Bos : /\ Prime(b) \in Objects /\ Record(b) \in Objects
                    /\ Scanout(b) \in Objects
<1>1. 1 \in Pool /\ 2 \in Pool
  BY DEF Pool
<1>2. /\ OneOfEach \subseteq Objects
      /\ \A i \in 1 .. 5 : Surface(i) \in Objects /\ Prime(i) \in Objects
      /\ \A b \in Bos : /\ Prime(b) \in Objects /\ Record(b) \in Objects
                        /\ Scanout(b) \in Objects
      /\ \A i \in Pool : FrameBuffer(i) \in Objects
  BY DEF Objects, Surfaces
<1> QED BY <1>1, <1>2 DEF Presented, Base, OneOfEach, ContextOwn

\* What the presenter's thread needs there is, and so is the context's.
LEMMA PresenterThere ==
  ASSUME ResInv, RenderThread \in live
  PROVE  {Card, FrameBuffer(1), Surface(1), FrameBuffer(2), Surface(2)}
           \subseteq live
<1>1. \A o \in live : NeedsOf(o) \subseteq live
  BY DEF ResInv, ObjectTypes, Closed
<1>2. FrameBuffer(1) \in live /\ FrameBuffer(2) \in live
  BY <1>1, Needs
<1>3. Surface(1) \in live /\ Surface(2) \in live
  BY <1>1, <1>2, Needs
<1> QED BY <1>1, <1>2, <1>3, Needs

LEMMA ContextThere ==
  ASSUME ResInv, Context \in live
  PROVE  ContextOwn \subseteq live
<1>1. \A o \in live : NeedsOf(o) \subseteq live
  BY DEF ResInv, ObjectTypes, Closed
<1>2. Egl \in live /\ EglSurface \in live
  BY <1>1, Needs
<1>3. Window \in live /\ Device \in live
  BY <1>1, <1>2, Needs
<1> QED BY <1>2, <1>3 DEF ContextOwn

\* Something is made, of which everything it needs is there.
LEMMA Made ==
  ASSUME ResInv, todo = << >>, NEW objects \in SUBSET Objects,
         \A o \in objects : NeedsOf(o) \subseteq live \cup objects,
         live' = live \cup objects, todo' = << >>, isOpenGL' = isOpenGL
  PROVE  ObjectTypes' /\ Gone(todo) = {} /\ Gone(todo') = {}
<1>1. todo' \in Lists /\ Gone(todo') = {} /\ Orderly(todo', live')
  BY NoList
<1>2. live' \subseteq Objects /\ Closed(live')
  BY DEF ResInv, ObjectTypes, Closed
<1> QED BY <1>1, <1>2 DEF ResInv, ObjectTypes

\* A list is begun.
LEMMA Unwound ==
  ASSUME ResInv, NEW list \in Lists, Orderly(list, live),
         todo' = list, UNCHANGED <<live, isOpenGL>>
  PROVE  ObjectTypes'
  BY DEF ResInv, ObjectTypes

LEMMA NothingUnwound ==
  ASSUME ResInv, todo = << >>, todo' = << >>, UNCHANGED <<live, isOpenGL>>
  PROVE  ObjectTypes' /\ Gone(todo) = {} /\ Gone(todo') = {}
  BY NoList, Unwound

\* Before the core has drawn there are no buffers.
LEMMA NoBuffers ==
  ASSUME ResInv, stage \notin Shown \cup {"stop", "aborted"},
         stage' \notin Handed, UNCHANGED <<hand, locked, scanned, plane>>
  PROVE  Buffers'
  BY DEF ResInv, Buffers, Shown, Handed

\* A program that gives up closes the presenter and the card.
LEMMA GiveUp ==
  ASSUME ResInv, NEW first \in Lists, Orderly(first, live),
         live \ Gone(first) \subseteq Base
  PROVE  LET list == first \o presenter_destroy \o display_destroy
         IN  list \in Lists /\ Orderly(list, live) /\ live \subseteq Gone(list)
<1> DEFINE more == first \o presenter_destroy
<1>1. live \ Gone(first) \in SUBSET Objects
      /\ Animator \notin live \ Gone(first)
  BY Kinds, Known DEF Base, Presented
<1>2. /\ presenter_destroy \in Lists /\ Gone(presenter_destroy) = Presented
      /\ Orderly(presenter_destroy, live \ Gone(first))
  BY <1>1, PresenterList
<1>3. /\ more \in Lists /\ Gone(more) = Gone(first) \cup Presented
      /\ Orderly(more, live)
  BY <1>2, JoinLists
<1> HIDE DEF more
<1>4. live \ Gone(more) \subseteq {Card}
  BY <1>3 DEF Base
<1>5. /\ live \ Gone(more) \in SUBSET Objects
      /\ Device \notin live \ Gone(more)
      /\ (live \ Gone(more)) \cap Surfaces = {}
  BY <1>4, Kinds, Known DEF OneOfEach, Surfaces
<1>6. /\ display_destroy \in Lists /\ Gone(display_destroy) = {Card}
      /\ Orderly(display_destroy, live \ Gone(more))
  BY <1>5, DisplayList
<1>7. /\ more \o display_destroy \in Lists
      /\ Gone(more \o display_destroy) = Gone(more) \cup {Card}
      /\ Orderly(more \o display_destroy, live)
  BY <1>3, <1>6, JoinLists
<1> QED BY <1>4, <1>7 DEF more

LEMMA GiveUpAtOnce ==
  ASSUME ResInv, live \subseteq Base
  PROVE  LET list == presenter_destroy \o display_destroy
         IN  list \in Lists /\ Orderly(list, live) /\ live \subseteq Gone(list)
<1>1. live \in SUBSET Objects /\ Animator \notin live
  BY Kinds, Known DEF Base, Presented
<1>2. /\ presenter_destroy \in Lists /\ Gone(presenter_destroy) = Presented
      /\ Orderly(presenter_destroy, live)
  BY <1>1, PresenterList
<1>3. live \ Presented \subseteq {Card}
  BY DEF Base
<1>4. /\ live \ Presented \in SUBSET Objects
      /\ Device \notin live \ Presented
      /\ (live \ Presented) \cap Surfaces = {}
  BY <1>3, Kinds, Known DEF OneOfEach, Surfaces
<1>5. /\ display_destroy \in Lists /\ Gone(display_destroy) = {Card}
      /\ Orderly(display_destroy, live \ Presented)
  BY <1>4, DisplayList
<1> QED BY <1>2, <1>3, <1>5, JoinLists

-----------------------------------------------------------------------------
(* The loading screen.                                                     *)

\* It ends with a list that leaves nothing.
LEMMA LoadingFails ==
  ASSUME ResInv, stage \notin Shown \cup {"stop", "aborted"},
         NEW list \in Lists, Orderly(list, live), live \subseteq Gone(list),
         Unwind("configure", list)
  PROVE  ResInv'
<1>1. /\ stage' = "configure" /\ todo' = list
      /\ UNCHANGED <<live, isOpenGL, hand, locked, scanned, plane>>
  BY DEF Unwind, Then, flowVars
<1>2. ObjectTypes'
  BY <1>1, Unwound
<1>3. Buffers'
  BY <1>1, NoBuffers DEF Handed
<1>4. MayBe' /\ Doomed' /\ MustBe'
  BY <1>1 DEF MayBe, Doomed, MustBe, Shown, Handed, OfContext
<1> QED BY <1>2, <1>3, <1>4 DEF ResInv

LEMMA StartupInv == ASSUME ResInv, Startup PROVE ResInv'
<1> USE DEF ResInv
<1>1. /\ todo = << >> /\ stage \notin Shown \cup {"stop", "aborted"}
      /\ Gone(todo) = {}
  BY NoList
     DEF Startup, NoLoading, LoadingStarts, LoadingCard, LoadingPresenter,
         LoadingSurface, LoadingShown, Animate, OpenCard, MakeBuffers, At,
         Shown, Handed
<1>2. ASSUME NEW s \in {"loadingCard", "configure"}, Unwind(s, << >>),
             live = {}
      PROVE  ResInv'
  <2>1. /\ stage' = s /\ todo' = << >> /\ live' = {}
        /\ UNCHANGED <<live, isOpenGL, hand, locked, scanned, plane>>
    BY <1>2 DEF Unwind, Then, flowVars
  <2>2. ObjectTypes'
    BY <1>1, <2>1, NothingUnwound
  <2>3. Buffers'
    BY <1>1, <1>2, <2>1, NoBuffers DEF Handed
  <2>4. MayBe' /\ Doomed' /\ MustBe'
    BY <1>2, <2>1, NoList
       DEF MayBe, Doomed, MustBe, Shown, Handed, OfContext
  <2> QED BY <2>2, <2>3, <2>4
<1>3. CASE NoLoading \/ LoadingStarts
  BY <1>1, <1>2, <1>3 DEF NoLoading, LoadingStarts, At, MayBe
<1>4. CASE LoadingCard
  <2>1. stage = "loadingCard" /\ live = {}
    BY <1>1, <1>4 DEF LoadingCard, OpenCard, At, MayBe
  <2>2. CASE Unwind("configure", << >>)
    BY <1>2, <2>1, <2>2
  <2>3. CASE Make({Card}, "loadingPresenter")
    <3>1. /\ stage' = "loadingPresenter" /\ todo' = << >> /\ live' = {Card}
          /\ UNCHANGED <<isOpenGL, hand, locked, scanned, plane>>
      BY <2>1, <2>3 DEF Make, Then, flowVars
    <3>2. ObjectTypes'
      <4>1. {Card} \in SUBSET Objects /\ live' = live \cup {Card}
        BY <2>1, <3>1, Known DEF OneOfEach
      <4> QED BY <1>1, <3>1, <4>1, Made, Needs
    <3>3. Buffers'
      BY <1>1, <3>1, NoBuffers DEF Handed
    <3>4. MayBe' /\ Doomed' /\ MustBe'
      BY <3>1 DEF MayBe, Doomed, MustBe, Shown, Handed, OfContext
    <3> QED BY <3>2, <3>3, <3>4
  <2> QED BY <1>4, <2>2, <2>3, CreatedIs DEF LoadingCard, OpenCard
<1>5. CASE LoadingPresenter
  <2>1. stage = "loadingPresenter" /\ live = {Card} /\ live \subseteq Base
    BY <1>5 DEF LoadingPresenter, MakeBuffers, At, MayBe, Base
  <2>2. CASE Make(presenter_create, "loadingSurface")
    <3>1. /\ stage' = "loadingSurface" /\ todo' = << >>
          /\ live' = live \cup presenter_create
          /\ UNCHANGED <<isOpenGL, hand, locked, scanned, plane>>
      BY <2>2 DEF Make, Then, flowVars
    <3>2. ObjectTypes'
      <4>1. presenter_create \in SUBSET Objects
        BY CreatedIs, Known DEF Presented
      <4>2. \A o \in presenter_create :
              NeedsOf(o) \subseteq live \cup presenter_create
        BY <2>1, CreatedIs, Needs
      <4> QED BY <1>1, <3>1, <4>1, <4>2, Made
    <3>3. Buffers'
      BY <1>1, <3>1, NoBuffers DEF Handed
    <3>4. live' \subseteq Base /\ RenderThread \in live'
      BY <2>1, <3>1, CreatedIs DEF Base, Presented
    <3>5. MayBe' /\ Doomed' /\ MustBe'
      BY <3>1, <3>4 DEF MayBe, Doomed, MustBe, Shown, Handed, OfContext
    <3> QED BY <3>2, <3>3, <3>5
  <2>3. CASE Unwind("configure", presenter_destroy \o display_destroy)
    BY <1>1, <2>1, <2>3, GiveUpAtOnce, LoadingFails
  <2> QED BY <1>5, <2>2, <2>3 DEF LoadingPresenter, MakeBuffers
<1>6. CASE LoadingSurface
  <2>1. /\ stage = "loadingSurface" /\ live \subseteq Base
        /\ RenderThread \in live
    BY <1>6 DEF LoadingSurface, At, MayBe, MustBe
  <2>2. CASE Make({Surface(Loading)}, "loadingMap")
    <3>1. /\ stage' = "loadingMap" /\ todo' = << >>
          /\ live' = live \cup {Surface(Loading)}
          /\ UNCHANGED <<isOpenGL, hand, locked, scanned, plane>>
      BY <2>2 DEF Make, Then, flowVars
    <3>2. ObjectTypes'
      <4>1. {Surface(Loading)} \in SUBSET Objects
        BY Known DEF Loading
      <4>2. NeedsOf(Surface(Loading)) \subseteq live
        BY <2>1, Needs, PresenterThere
      <4> QED BY <1>1, <3>1, <4>1, <4>2, Made
    <3>3. Buffers'
      BY <1>1, <3>1, NoBuffers DEF Handed
    <3>4. MayBe' /\ Doomed' /\ MustBe'
      BY <2>1, <3>1 DEF MayBe, Doomed, MustBe, Shown, Handed, OfContext
    <3> QED BY <3>2, <3>3, <3>4
  <2>3. CASE Unwind("configure", presenter_destroy \o display_destroy)
    BY <1>1, <2>1, <2>3, GiveUpAtOnce, LoadingFails
  <2> QED BY <1>6, <2>2, <2>3, CreatedIs DEF LoadingSurface
<1>7. ASSUME stage \in {"loadingMap", "animate"}
      PROVE  /\ live \subseteq Base \cup {Prime(Loading), Surface(Loading)}
             /\ RenderThread \in live /\ Surface(Loading) \in live
             /\ Animator \notin live
  <2>1. /\ live \subseteq Base \cup {Prime(Loading), Surface(Loading)}
        /\ RenderThread \in live /\ Surface(Loading) \in live
    BY <1>7 DEF MayBe, MustBe
  <2> QED BY <2>1, Kinds DEF Base, Presented
<1>8. CASE LoadingShown
  <2>1. stage = "loadingMap"
    BY <1>8 DEF LoadingShown, At
  <2>2. CASE Make({Prime(Loading), Prime(1)}, "animate")
    <3>1. /\ stage' = "animate" /\ todo' = << >>
          /\ live' = live \cup {Prime(Loading), Prime(1)}
          /\ UNCHANGED <<isOpenGL, hand, locked, scanned, plane>>
      BY <2>2 DEF Make, Then, flowVars
    <3>2. ObjectTypes'
      <4>1. {Prime(Loading), Prime(1)} \in SUBSET Objects
        BY Known DEF Loading
      <4>2. /\ NeedsOf(Prime(Loading)) \subseteq live
            /\ NeedsOf(Prime(1)) \subseteq live
        BY <1>7, <2>1, Needs, PresenterThere DEF Loading
      <4> QED BY <1>1, <3>1, <4>1, <4>2, Made
    <3>3. Buffers'
      BY <1>1, <3>1, NoBuffers DEF Handed
    <3>4. live' \subseteq Base \cup {Prime(Loading), Surface(Loading)}
      BY <1>7, <2>1, <3>1 DEF Base, Presented
    <3>5. MayBe' /\ Doomed' /\ MustBe'
      BY <1>7, <2>1, <3>1, <3>4
         DEF MayBe, Doomed, MustBe, Shown, Handed, OfContext
    <3> QED BY <3>2, <3>3, <3>5
  <2>3. CASE Unwind("configure",
                    surface_destroy(Loading) \o presenter_destroy
                      \o display_destroy)
    <3>1. Loading \in 1 .. 5 /\ FrameBuffer(Loading) \notin live
          /\ Animator \notin live /\ live \in SUBSET Objects
      BY <1>7, <2>1, Kinds DEF Base, Presented, Loading, ObjectTypes
    <3>2. /\ surface_destroy(Loading) \in Lists
          /\ Gone(surface_destroy(Loading)) =
               {Prime(Loading), Surface(Loading)}
          /\ Orderly(surface_destroy(Loading), live)
      BY <3>1, SurfaceList
    <3>3. live \ Gone(surface_destroy(Loading)) \subseteq Base
      BY <1>7, <2>1, <3>2
    <3> QED BY <1>1, <2>3, <3>2, <3>3, GiveUp, LoadingFails
  <2>4. surface_map(Loading) \cup surface_blit(Loading, {1}) =
          {Prime(Loading), Prime(1)}
    BY CreatedIs
  <2> QED BY <1>8, <2>2, <2>3, <2>4 DEF LoadingShown
<1>9. CASE Animate
  <2>1. stage = "animate"
    BY <1>9 DEF Animate, At
  <2>2. CASE Make({Animator}, "configure")
    <3>1. /\ stage' = "configure" /\ todo' = << >>
          /\ live' = live \cup {Animator}
          /\ UNCHANGED <<isOpenGL, hand, locked, scanned, plane>>
      BY <2>2 DEF Make, Then, flowVars
    <3>2. ObjectTypes'
      <4>1. {Animator} \in SUBSET Objects
        BY Known DEF OneOfEach
      <4>2. NeedsOf(Animator) \subseteq live
        BY <1>7, <2>1, Needs
      <4> QED BY <1>1, <3>1, <4>1, <4>2, Made
    <3>3. Buffers'
      BY <1>1, <3>1, NoBuffers DEF Handed
    <3>4. live' \subseteq Base \cup LoadingOwn /\ RenderThread \in live'
      BY <1>7, <2>1, <3>1 DEF LoadingOwn
    <3>5. MayBe' /\ Doomed' /\ MustBe'
      BY <3>1, <3>4 DEF MayBe, Doomed, MustBe, Shown, Handed, OfContext
    <3> QED BY <3>2, <3>3, <3>5
  <2>3. CASE Unwind("configure", stop_startup_loading \o presenter_destroy
                                   \o display_destroy)
    <3>1. live \in SUBSET Objects
      BY DEF ObjectTypes
    <3>2. /\ stop_startup_loading \in Lists
          /\ Gone(stop_startup_loading) =
               {Animator, Prime(Loading), Surface(Loading)}
          /\ Orderly(stop_startup_loading, live)
      BY <3>1, LoadingList
    <3>3. live \ Gone(stop_startup_loading) \subseteq Base
      BY <1>7, <2>1, <3>2
    <3> QED BY <1>1, <2>3, <3>2, <3>3, GiveUp, LoadingFails
  <2> QED BY <1>9, <2>2, <2>3 DEF Animate
<1> QED
  BY <1>3, <1>4, <1>5, <1>6, <1>8, <1>9 DEF Startup

-----------------------------------------------------------------------------
(* The configuration.                                                      *)

\* Something is made, for the stage that comes.
LEMMA ConfigureMakes ==
  ASSUME ResInv, todo = << >>, stage \notin Shown \cup {"stop", "aborted"},
         NEW objects \in SUBSET Objects,
         \A o \in objects : NeedsOf(o) \subseteq live \cup objects,
         NEW s, s \notin Handed,
         live' = live \cup objects, stage' = s, todo' = << >>,
         UNCHANGED <<isOpenGL, hand, locked, scanned, plane>>
  PROVE  ObjectTypes' /\ Buffers' /\ Gone(todo) = {} /\ Gone(todo') = {}
  BY Made, NoBuffers

LEMMA ConfigureMakesOne ==
  ASSUME ResInv, todo = << >>, stage \notin Shown \cup {"stop", "aborted"},
         NEW part \in OneOfEach, NeedsOf(part) \subseteq live,
         NEW s, s \notin Handed,
         live' = live \cup {part}, stage' = s, todo' = << >>,
         UNCHANGED <<isOpenGL, hand, locked, scanned, plane>>
  PROVE  ObjectTypes' /\ Buffers' /\ Gone(todo) = {} /\ Gone(todo') = {}
<1> DEFINE objects == {part}
<1>1. /\ objects \in SUBSET Objects /\ live' = live \cup objects
      /\ \A o \in objects : NeedsOf(o) \subseteq live \cup objects
  BY Known
<1> HIDE DEF objects
<1> QED BY <1>1, ConfigureMakes

\* What there is of a context that failed is destroyed, or left.
LEMMA ConfigureFails ==
  ASSUME ResInv, todo = << >>, stage \notin Shown \cup {"stop", "aborted"},
         NEW list \in Lists, Orderly(list, live),
         NEW s \in {"exited", "aborted"}, Unwind(s, list),
         s = "exited" => live \subseteq Base \cup Gone(list),
         s = "aborted" => list = << >>
  PROVE  ResInv'
<1>1. /\ stage' = s /\ todo' = list
      /\ UNCHANGED <<live, isOpenGL, hand, locked, scanned, plane>>
  BY DEF Unwind, Then, flowVars
<1>2. ObjectTypes'
  BY <1>1, Unwound
<1>3. Buffers'
  BY <1>1, NoBuffers DEF Handed
<1>4. MayBe' /\ Doomed' /\ MustBe'
  BY <1>1 DEF MayBe, Doomed, MustBe, Shown, Handed, OfContext
<1> QED BY <1>2, <1>3, <1>4 DEF ResInv

\* The presenter and the card, which the loading screen may have made.
LEMMA DisplayConfigured ==
  ASSUME ResInv, Configure \/ ConfigureCard \/ ConfigurePresenter
  PROVE  ResInv'
<1> USE DEF ResInv
<1>1. /\ todo = << >> /\ stage \notin Shown \cup {"stop", "aborted"}
      /\ Gone(todo) = {}
  BY NoList
     DEF Configure, ConfigureCard, ConfigurePresenter, OpenCard, KeepCard,
         MakeBuffers, KeepBuffers, At, Shown, Handed
<1>2. CASE Configure
  <2>1. /\ stage = "configure" /\ stage' = "card"
        /\ todo' = stop_startup_loading
        /\ UNCHANGED <<live, isOpenGL, hand, locked, scanned, plane>>
    BY <1>2 DEF Configure, At, Unwind, Then, flowVars
  <2>2. /\ stop_startup_loading \in Lists
        /\ Gone(stop_startup_loading) = LoadingOwn
        /\ Orderly(stop_startup_loading, live)
    BY LoadingList DEF ObjectTypes, LoadingOwn
  <2>3. ObjectTypes' /\ Buffers'
    BY <1>1, <2>1, <2>2, Unwound, NoBuffers DEF Handed
  <2>4. RenderThread \notin LoadingOwn
    BY Kinds DEF LoadingOwn
  <2>5. MayBe' /\ Doomed' /\ MustBe'
    BY <1>1, <2>1, <2>2, <2>4
       DEF MayBe, Doomed, MustBe, Shown, Handed, OfContext
  <2> QED BY <2>3, <2>5
<1>3. CASE ConfigureCard
  <2>1. stage = "card" /\ (live = {} \/ RenderThread \in live)
        /\ live \subseteq Base
    BY <1>1, <1>3 DEF ConfigureCard, OpenCard, KeepCard, At, MayBe
  <2>2. /\ stage' = "presenter" /\ todo' = << >> /\ Card \in live'
        /\ live' = live \cup {Card}
        /\ UNCHANGED <<isOpenGL, hand, locked, scanned, plane>>
    BY <1>3, CreatedIs
       DEF ConfigureCard, OpenCard, KeepCard, Make, Unwind, Then, flowVars
  <2>3. ObjectTypes' /\ Buffers'
    <3>1. Card \in OneOfEach /\ NeedsOf(Card) \subseteq live
      BY Needs DEF OneOfEach
    <3> QED BY <1>1, <2>2, <3>1, ConfigureMakesOne DEF Handed
  <2>4. live' \subseteq Base
    BY <2>1, <2>2 DEF Base
  <2>5. MayBe' /\ Doomed' /\ MustBe'
    BY <2>2, <2>4 DEF MayBe, Doomed, MustBe, Shown, Handed, OfContext
  <2> QED BY <2>3, <2>5
<1>4. CASE ConfigurePresenter
  <2>1. stage = "presenter" /\ live \subseteq Base /\ Card \in live
    BY <1>4 DEF ConfigurePresenter, MakeBuffers, KeepBuffers, At, MayBe, MustBe
  <2>2. /\ stage' = AfterPresenter /\ todo' = << >> /\ RenderThread \in live'
        /\ live' = live \cup presenter_create
        /\ UNCHANGED <<isOpenGL, hand, locked, scanned, plane>>
    <3>1. RenderThread \in presenter_create
          /\ (RenderThread \in live => presenter_create \subseteq live)
      BY CreatedIs, PresenterThere
    <3> QED
      BY <1>4, <3>1
         DEF ConfigurePresenter, MakeBuffers, KeepBuffers, Make, Unwind, Then,
             flowVars
  <2>3. stage' \in {"device", "picture"} /\ (stage' = "device" <=> isOpenGL)
    BY <2>2 DEF AfterPresenter
  <2>4. ObjectTypes' /\ Buffers'
    <3>1. presenter_create \in SUBSET Objects
      BY CreatedIs, Known DEF Presented
    <3>2. \A o \in presenter_create :
            NeedsOf(o) \subseteq live \cup presenter_create
      BY <2>1, CreatedIs, Needs
    <3> QED BY <1>1, <2>2, <2>3, <3>1, <3>2, ConfigureMakes DEF Handed
  <2>5. live' \subseteq Base
    BY <2>1, <2>2, CreatedIs DEF Base, Presented
  <2>6. MayBe' /\ Doomed' /\ MustBe'
    BY <2>2, <2>3, <2>5
       DEF MayBe, Doomed, MustBe, Shown, Handed, OfContext
  <2> QED BY <2>4, <2>6
<1> QED BY <1>2, <1>3, <1>4

\* The context's parts, each on those before.
LEMMA ContextConfigured ==
  ASSUME ResInv,
         \/ CreateDevice \/ InitializeEgl \/ FindConfig \/ CreateWindow
         \/ CreateTarget \/ CreateContext
  PROVE  ResInv'
<1> USE DEF ResInv
<1>1. /\ todo = << >> /\ stage \notin Shown \cup {"stop", "aborted"}
      /\ Gone(todo) = {} /\ RenderThread \in live /\ isOpenGL
      /\ stage \in OfContext
  BY NoList
     DEF CreateDevice, InitializeEgl, FindConfig, CreateWindow, CreateTarget,
         CreateContext, At, Shown, Handed, OfContext, MustBe
<1>2. \A part \in OneOfEach : {part} \in SUBSET Objects
  BY Known
<1>3. << >> \in Lists /\ Orderly(<< >>, live)
  BY NoList
<1>4. ASSUME Unwind("aborted", << >>) PROVE ResInv'
  BY <1>1, <1>3, <1>4, ConfigureFails
<1>5. CASE CreateDevice
  <2>1. stage = "device" /\ live \subseteq Base
    BY <1>5 DEF CreateDevice, At, MayBe
  <2>2. CASE Unwind("exited", << >>)
    BY <1>1, <1>3, <2>1, <2>2, ConfigureFails
  <2>3. CASE Make({Device}, "egl")
    <3>1. /\ stage' = "egl" /\ todo' = << >> /\ live' = live \cup {Device}
          /\ UNCHANGED <<isOpenGL, hand, locked, scanned, plane>>
      BY <2>3 DEF Make, Then, flowVars
    <3>2. NeedsOf(Device) \subseteq live /\ Device \in OneOfEach
      BY <1>1, <1>2, Needs, PresenterThere DEF OneOfEach
    <3>3. ObjectTypes' /\ Buffers'
      BY <1>1, <3>1, <3>2, ConfigureMakesOne DEF Handed
    <3>4. MayBe' /\ Doomed' /\ MustBe'
      BY <1>1, <2>1, <3>1
         DEF MayBe, Doomed, MustBe, Shown, Handed, OfContext
    <3> QED BY <3>3, <3>4
  <2> QED BY <1>5, <2>2, <2>3 DEF CreateDevice
<1>6. CASE InitializeEgl
  <2>1. stage = "egl" /\ live \subseteq Base \cup {Device} /\ Device \in live
    BY <1>6 DEF InitializeEgl, At, MayBe, MustBe
  <2>2. CASE Unwind("exited", << {Device} >>)
    <3>1. /\ << {Device} >> \in Lists /\ Gone(<< {Device} >>) = {Device}
          /\ Orderly(<< {Device} >>, live)
      <4>1. \A o \in live : o \notin {Egl, Window}
        BY <2>1, Kinds DEF Base, Presented
      <4>2. \A o \in live : NeedsOf(o) \cap {Device} = {}
        BY <4>1, Needers DEF ObjectTypes
      <4> QED BY <1>2, <4>2, OneList DEF OneOfEach
    <3> QED BY <1>1, <2>1, <2>2, <3>1, ConfigureFails
  <2>3. CASE Make({Egl}, "config")
    <3>1. /\ stage' = "config" /\ todo' = << >> /\ live' = live \cup {Egl}
          /\ UNCHANGED <<isOpenGL, hand, locked, scanned, plane>>
      BY <2>3 DEF Make, Then, flowVars
    <3>2. NeedsOf(Egl) \subseteq live /\ Egl \in OneOfEach
      BY <1>2, <2>1, Needs DEF OneOfEach
    <3>3. ObjectTypes' /\ Buffers'
      BY <1>1, <3>1, <3>2, ConfigureMakesOne DEF Handed
    <3>4. MayBe' /\ Doomed' /\ MustBe'
      BY <1>1, <2>1, <3>1
         DEF MayBe, Doomed, MustBe, Shown, Handed, OfContext
    <3> QED BY <3>3, <3>4
  <2> QED BY <1>6, <2>2, <2>3 DEF InitializeEgl
<1>7. CASE FindConfig
  <2>1. /\ stage = "config" /\ live \subseteq Base \cup {Device, Egl}
        /\ Egl \in live
    BY <1>7 DEF FindConfig, At, MayBe, MustBe
  <2>2. CASE Unwind("window", << >>)
    <3>1. /\ stage' = "window" /\ todo' = << >> /\ live' = live \cup {}
          /\ UNCHANGED <<live, isOpenGL, hand, locked, scanned, plane>>
      BY <2>2 DEF Unwind, Then, flowVars
    <3>2. ObjectTypes' /\ Buffers'
      BY <1>1, <3>1, NothingUnwound, NoBuffers DEF Handed
    <3>3. MayBe' /\ Doomed' /\ MustBe'
      BY <1>1, <2>1, <3>1
         DEF MayBe, Doomed, MustBe, Shown, Handed, OfContext
    <3> QED BY <3>2, <3>3
  <2>3. CASE Unwind("exited", << {Egl}, {Device} >>)
    <3> DEFINE list == << {Egl}, {Device} >>
    <3>1. /\ list \in Lists /\ list # << >> /\ Head(list) = {Egl}
          /\ Tail(list) = << {Device} >>
      BY <1>2 DEF Lists, OneOfEach
    <3>2. \A o \in live : o \notin {EglSurface, Context, Window}
      BY <2>1, Kinds DEF Base, Presented
    <3>3. \A o \in live : NeedsOf(o) \cap {Egl} = {}
      BY <3>2, Needers DEF ObjectTypes
    <3>4. \A o \in live \ {Egl} : NeedsOf(o) \cap {Device} = {}
      BY <3>2, Needers DEF ObjectTypes
    <3>5. /\ Gone(<< {Device} >>) = {Device}
          /\ Orderly(<< {Device} >>, live \ {Egl})
      BY <1>2, <3>4, OneList DEF OneOfEach
    <3> HIDE DEF list
    <3>6. Orderly(list, live)
      BY <3>1, <3>3, <3>5, PartFirst
    <3>7. Gone(list) = {Egl, Device}
      BY <3>1, <3>5, HeadAndTail
    <3> QED BY <1>1, <2>1, <2>3, <3>1, <3>6, <3>7, ConfigureFails DEF list
  <2> QED BY <1>4, <1>7, <2>2, <2>3 DEF FindConfig
<1>8. CASE CreateWindow
  <2>1. /\ stage = "window" /\ live \subseteq Base \cup {Device, Egl}
        /\ Egl \in live
    BY <1>8 DEF CreateWindow, At, MayBe, MustBe
  <2>2. CASE Make({Window}, "target")
    <3>1. /\ stage' = "target" /\ todo' = << >> /\ live' = live \cup {Window}
          /\ UNCHANGED <<isOpenGL, hand, locked, scanned, plane>>
      BY <2>2 DEF Make, Then, flowVars
    <3>2. NeedsOf(Window) \subseteq live /\ Window \in OneOfEach
      BY <1>2, <2>1, Needs DEF OneOfEach, ObjectTypes, Closed
    <3>3. ObjectTypes' /\ Buffers'
      BY <1>1, <3>1, <3>2, ConfigureMakesOne DEF Handed
    <3>4. live' \subseteq Base \cup ContextOwn
      BY <2>1, <3>1 DEF ContextOwn
    <3>5. MayBe' /\ Doomed' /\ MustBe'
      BY <1>1, <2>1, <3>1, <3>4
         DEF MayBe, Doomed, MustBe, Shown, Handed, OfContext
    <3> QED BY <3>3, <3>5
  <2> QED BY <1>4, <1>8, <2>2 DEF CreateWindow
<1>9. CASE CreateTarget
  <2>1. /\ stage = "target" /\ live \subseteq Base \cup ContextOwn
        /\ Egl \in live /\ Window \in live
    BY <1>9 DEF CreateTarget, At, MayBe, MustBe
  <2>2. CASE Make({EglSurface}, "context")
    <3>1. /\ stage' = "context" /\ todo' = << >>
          /\ live' = live \cup {EglSurface}
          /\ UNCHANGED <<isOpenGL, hand, locked, scanned, plane>>
      BY <2>2 DEF Make, Then, flowVars
    <3>2. NeedsOf(EglSurface) \subseteq live /\ EglSurface \in OneOfEach
      BY <1>2, <2>1, Needs DEF OneOfEach
    <3>3. ObjectTypes' /\ Buffers'
      BY <1>1, <3>1, <3>2, ConfigureMakesOne DEF Handed
    <3>4. live' \subseteq Base \cup ContextOwn
      BY <2>1, <3>1 DEF ContextOwn
    <3>5. MayBe' /\ Doomed' /\ MustBe'
      BY <1>1, <2>1, <3>1, <3>4
         DEF MayBe, Doomed, MustBe, Shown, Handed, OfContext
    <3> QED BY <3>3, <3>5
  <2> QED BY <1>4, <1>9, <2>2 DEF CreateTarget
<1>10. CASE CreateContext
  <2>1. /\ stage = "context" /\ live \subseteq Base \cup ContextOwn
        /\ EglSurface \in live
    BY <1>10 DEF CreateContext, At, MayBe, MustBe
  <2>2. CASE Make({Context}, "post")
    <3>1. /\ stage' = "post" /\ todo' = << >>
          /\ live' = live \cup {Context}
          /\ UNCHANGED <<isOpenGL, hand, locked, scanned, plane>>
      BY <2>2 DEF Make, Then, flowVars
    <3>2. NeedsOf(Context) \subseteq live /\ Context \in OneOfEach
      BY <1>2, <2>1, Needs DEF OneOfEach, ObjectTypes, Closed
    <3>3. ObjectTypes' /\ Buffers'
      BY <1>1, <3>1, <3>2, ConfigureMakesOne DEF Handed
    <3>4. live' \subseteq Base \cup ContextOwn
      BY <2>1, <3>1 DEF ContextOwn
    <3>5. MayBe' /\ Doomed' /\ MustBe'
      BY <1>1, <2>1, <3>1, <3>4
         DEF MayBe, Doomed, MustBe, Shown, Handed, OfContext
    <3> QED BY <3>3, <3>5
  <2> QED BY <1>4, <1>10, <2>2 DEF CreateContext
<1> QED BY <1>5, <1>6, <1>7, <1>8, <1>9, <1>10

-----------------------------------------------------------------------------
(* The picture is shown.                                                   *)

\* Something may be made on the way to a stage in which it is.
LEMMA ShownMakes ==
  ASSUME ResInv, todo = << >>, NEW objects \in SUBSET Objects,
         \A o \in objects : NeedsOf(o) \subseteq live \cup objects,
         objects \cap LoadingOwn = {}, live \cap LoadingOwn = {},
         RenderThread \in live, isOpenGL => Context \in live,
         live' = live \cup objects, stage' \in Shown, todo' = << >>,
         isOpenGL' = isOpenGL, stage' \in Handed => isOpenGL,
         stage' = "running" /\ ~isOpenGL => Surface(Picture) \in live'
  PROVE  ObjectTypes' /\ MayBe' /\ Doomed' /\ MustBe'
<1>1. ObjectTypes' /\ Gone(todo') = {}
  BY Made
<1>2. MayBe' /\ Doomed'
  BY <1>1 DEF MayBe, Doomed, Shown, Handed
<1>3. MustBe'
  BY DEF MustBe, Shown, Handed, OfContext
<1> QED BY <1>1, <1>2, <1>3

LEMMA ShownStays ==
  ASSUME ResInv, todo = << >>, live \cap LoadingOwn = {},
         RenderThread \in live, isOpenGL => Context \in live,
         stage' \in Shown, UNCHANGED <<live, todo, isOpenGL>>,
         stage' \in Handed => isOpenGL,
         stage' = "running" /\ ~isOpenGL => Surface(Picture) \in live
  PROVE  ObjectTypes' /\ MayBe' /\ Doomed' /\ MustBe'
<1> DEFINE none == {}
<1>1. /\ none \in SUBSET Objects /\ none \cap LoadingOwn = {}
      /\ \A o \in none : NeedsOf(o) \subseteq live \cup none
      /\ live' = live \cup none /\ todo' = << >>
  OBVIOUS
<1> HIDE DEF none
<1> QED BY <1>1, ShownMakes

\* What is not the loading screen's.
LEMMA Apart ==
  /\ Pipeline \notin LoadingOwn /\ Card \notin LoadingOwn
  /\ \A i \in (1 .. 5) \cup Bos : i # Loading =>
       Surface(i) \notin LoadingOwn /\ Prime(i) \notin LoadingOwn
  /\ \A i : Record(i) \notin LoadingOwn /\ Scanout(i) \notin LoadingOwn
  /\ Base \cap LoadingOwn = {} /\ ContextOwn \cap LoadingOwn = {}
  /\ Picture \in 1 .. 5 /\ Overlay \in 1 .. 5 /\ Picture # Loading
  /\ Overlay # Loading /\ Picture # Overlay
  /\ \A b \in Bos : b # Loading
  BY Kinds, Go2ResAssumption
     DEF Go2ResAssumption, LoadingOwn, Base, Presented, ContextOwn, Loading,
         Picture, Overlay

LEMMA ShowingStarts ==
  ASSUME ResInv, CreatePipeline \/ CreatePicture
  PROVE  ResInv'
<1> USE DEF ResInv
<1>1. /\ todo = << >> /\ stage \notin Shown \cup {"stop", "aborted"}
      /\ RenderThread \in live
  BY DEF CreatePipeline, CreatePicture, At, Shown, Handed, MustBe, OfContext
<1>2. CASE CreatePipeline
  <2>1. /\ stage = "post" /\ live \subseteq Base \cup ContextOwn
        /\ Context \in live /\ isOpenGL
    BY <1>2 DEF CreatePipeline, At, MayBe, MustBe, OfContext
  <2>2. live \cap LoadingOwn = {}
    BY <2>1, Apart
  <2>3. /\ stage' = "running" /\ todo' = << >>
        /\ live' = live \/ live' = live \cup {Pipeline}
        /\ UNCHANGED <<isOpenGL, hand, locked, scanned, plane>>
    BY <1>2, CreatedIs DEF CreatePipeline, Make, Unwind, Then, flowVars
  <2>4. stage' \in Shown /\ stage' \notin Handed
    BY <2>3 DEF Shown, Handed
  <2>5. Buffers'
    BY <1>1, <2>3, <2>4, NoBuffers
  <2>6. CASE live' = live
    BY <1>1, <2>1, <2>2, <2>3, <2>4, <2>5, <2>6, ShownStays
  <2>7. CASE live' = live \cup {Pipeline}
    <3> DEFINE objects == {Pipeline}
    <3>1. /\ objects \in SUBSET Objects /\ objects \cap LoadingOwn = {}
          /\ \A o \in objects : NeedsOf(o) \subseteq live \cup objects
          /\ live' = live \cup objects
      BY <2>1, <2>7, Apart, Known, Needs DEF OneOfEach
    <3> HIDE DEF objects
    <3> QED BY <1>1, <2>1, <2>2, <2>3, <2>4, <2>5, <3>1, ShownMakes
  <2> QED BY <2>3, <2>6, <2>7
<1>3. CASE CreatePicture
  <2>1. stage = "picture" /\ live \subseteq Base /\ ~isOpenGL
    BY <1>3 DEF CreatePicture, At, MayBe, MustBe
  <2>2. CASE Unwind("aborted", << >>)
    BY <1>1, <2>2, NoList, ConfigureFails
  <2>3. CASE Make({Surface(Picture)}, "running")
    <3> DEFINE objects == {Surface(Picture)}
    <3>1. /\ stage' = "running" /\ todo' = << >>
          /\ live' = live \cup objects /\ Surface(Picture) \in live'
          /\ UNCHANGED <<isOpenGL, hand, locked, scanned, plane>>
      BY <2>3 DEF Make, Then, flowVars
    <3>2. stage' \in Shown /\ stage' \notin Handed
      BY <3>1 DEF Shown, Handed
    <3>3. Buffers'
      BY <1>1, <3>1, <3>2, NoBuffers
    <3>4. /\ objects \in SUBSET Objects /\ objects \cap LoadingOwn = {}
          /\ \A o \in objects : NeedsOf(o) \subseteq live \cup objects
          /\ live \cap LoadingOwn = {}
      BY <1>1, <2>1, Apart, Known, Needs, PresenterThere
    <3> HIDE DEF objects
    <3> QED BY <1>1, <2>1, <3>1, <3>2, <3>3, <3>4, ShownMakes
  <2> QED BY <1>3, <2>2, <2>3, CreatedIs DEF CreatePicture
<1> QED BY <1>2, <1>3

\* Nothing changes about the buffers but what is made.
LEMMA BuffersLeft ==
  ASSUME ResInv, stage = "running", stage' \in {"running", "grown", "stop"},
         live \subseteq live', UNCHANGED <<hand, locked, scanned, plane>>
  PROVE  Buffers'
  BY DEF ResInv, Buffers, Shown, Handed

LEMMA SoftwareInv ==
  ASSUME ResInv,
         \/ SoftwareFrame \/ Grow \/ Regrow \/ DrawOverlay \/ ResizeOverlay
         \/ LatePipeline \/ Leave
  PROVE  ResInv'
<1> USE DEF ResInv
<1>1. /\ todo = << >> /\ Gone(todo) = {} /\ stage \in {"running", "grown"}
      /\ RenderThread \in live /\ live \cap LoadingOwn = {}
      /\ isOpenGL => Context \in live
      /\ isOpenGL \in BOOLEAN
  BY NoList
     DEF SoftwareFrame, Grow, Regrow, DrawOverlay, ResizeOverlay,
         LatePipeline, Leave, At, Shown, MustBe, MayBe, ObjectTypes
<1>2. /\ "running" \in Shown \ Handed /\ "grown" \in Shown \ Handed
      /\ "stop" \notin Shown
  BY DEF Shown, Handed
<1>3. Surface(1) \in live /\ Surface(2) \in live /\ Card \in live
  BY <1>1, PresenterThere
<1>4. ASSUME NEW objects \in SUBSET Objects, objects \cap LoadingOwn = {},
             \A o \in objects : NeedsOf(o) \subseteq live \cup objects,
             stage = "running", Make(objects, "running")
      PROVE  ResInv'
  <2>1. /\ stage' = "running" /\ todo' = << >> /\ live' = live \cup objects
        /\ UNCHANGED <<isOpenGL, hand, locked, scanned, plane>>
    BY <1>4 DEF Make, Then, flowVars
  <2>2. ~isOpenGL => Surface(Picture) \in live'
    BY <1>2, <1>4, <2>1 DEF MustBe
  <2>3. Buffers'
    BY <1>4, <2>1, BuffersLeft
  <2> QED BY <1>1, <1>2, <1>4, <2>1, <2>2, <2>3, ShownMakes
\* The lists that destroy a surface nobody else needs.
<1>5. ASSUME NEW i \in {Picture, Overlay}
      PROVE  /\ surface_destroy(i) \in Lists
             /\ Gone(surface_destroy(i)) = {Prime(i), Surface(i)}
             /\ Orderly(surface_destroy(i), live)
  <2>1. i \in 1 .. 5 /\ i # Loading /\ FrameBuffer(i) \notin Objects
    BY Kinds, Apart
       DEF Objects, OneOfEach, Surfaces, Pool, Picture, Overlay, Loading
  <2> QED BY <2>1, SurfaceList DEF ObjectTypes
<1>6. CASE SoftwareFrame
  <2> DEFINE objects == {Prime(Picture), Prime(1), Prime(2)}
  <2>1. /\ stage = "running" /\ ~isOpenGL
        /\ surface_map(Picture) \cup surface_blit(Picture, Pool) = objects
        /\ Make(objects, "running")
    BY <1>6, CreatedIs DEF SoftwareFrame, At
  <2>2. /\ objects \in SUBSET Objects /\ objects \cap LoadingOwn = {}
        /\ \A o \in objects : NeedsOf(o) \subseteq live
    <3>1. Surface(Picture) \in live
      BY <1>1, <2>1 DEF MustBe
    <3> QED BY <1>3, <3>1, Apart, Known, Needs DEF Picture, Loading
  <2> HIDE DEF objects
  <2> QED BY <1>4, <2>1, <2>2
<1>7. CASE Grow
  <2>1. /\ stage = "running" /\ ~isOpenGL /\ stage' = "grown"
        /\ todo' = surface_destroy(Picture)
        /\ UNCHANGED <<live, isOpenGL, hand, locked, scanned, plane>>
    BY <1>7 DEF Grow, At, Then, flowVars
  <2>2. ObjectTypes'
    BY <1>5, <2>1, Unwound
  <2>3. Buffers'
    BY <2>1, BuffersLeft
  <2>4. MayBe' /\ Doomed'
    BY <1>1, <1>2, <1>5, <2>1 DEF MayBe, Doomed
  <2>5. MustBe'
    BY <1>1, <1>2, <2>1 DEF MustBe, Handed, OfContext
  <2> QED BY <2>2, <2>3, <2>4, <2>5
<1>8. CASE Regrow
  <2>1. stage = "grown"
    BY <1>8 DEF Regrow, At
  <2>2. CASE Make(surface_create(Picture), "running")
    <3> DEFINE objects == {Surface(Picture)}
    <3>1. /\ stage' = "running" /\ todo' = << >>
          /\ live' = live \cup objects /\ Surface(Picture) \in live'
          /\ UNCHANGED <<isOpenGL, hand, locked, scanned, plane>>
      BY <2>2, CreatedIs DEF Make, Then, flowVars
    <3>2. Buffers'
      BY <2>1, <3>1 DEF Buffers, Shown, Handed
    <3>3. /\ objects \in SUBSET Objects /\ objects \cap LoadingOwn = {}
          /\ \A o \in objects : NeedsOf(o) \subseteq live \cup objects
      BY <1>3, Apart, Known, Needs
    <3> HIDE DEF objects
    <3> QED BY <1>1, <1>2, <3>1, <3>2, <3>3, ShownMakes
  <2>3. CASE Unwind("stop", << >>)
    <3>1. /\ stage' = "stop" /\ todo' = << >>
          /\ UNCHANGED <<live, isOpenGL, hand, locked, scanned, plane>>
      BY <2>3 DEF Unwind, Then, flowVars
    <3>2. ObjectTypes' /\ Gone(todo') = {}
      BY <1>1, <3>1, NothingUnwound
    <3>3. MayBe' /\ Doomed' /\ MustBe' /\ Buffers'
      BY <1>1, <2>1, <3>1, <3>2
         DEF MayBe, Doomed, MustBe, Buffers, Shown, Handed, OfContext
    <3> QED BY <3>2, <3>3
  <2> QED BY <1>8, <2>2, <2>3 DEF Regrow
<1>9. CASE DrawOverlay
  <2> DEFINE objects == {Surface(Overlay), Prime(Overlay), Prime(1), Prime(2)}
  <2>1. stage = "running" /\ Make(objects, "running")
    <3>1. surface_create(Overlay) \cup surface_blit(Overlay, Pool) = objects
      BY CreatedIs
    <3> QED BY <1>9, <3>1 DEF DrawOverlay, At
  <2>2. /\ objects \in SUBSET Objects /\ objects \cap LoadingOwn = {}
        /\ \A o \in objects : NeedsOf(o) \subseteq live \cup objects
    BY <1>3, Apart, Known, Needs DEF Overlay, Loading
  <2> HIDE DEF objects
  <2> QED BY <1>4, <2>1, <2>2
<1>10. CASE ResizeOverlay
  <2>1. /\ stage = "running" /\ stage' = "running"
        /\ todo' = surface_destroy(Overlay)
        /\ UNCHANGED <<live, isOpenGL, hand, locked, scanned, plane>>
    BY <1>10 DEF ResizeOverlay, At, Then, flowVars
  <2>2. ObjectTypes'
    BY <1>5, <2>1, Unwound
  <2>3. Buffers'
    BY <2>1, BuffersLeft
  <2>4. MayBe' /\ MustBe'
    BY <1>1, <1>2, <2>1 DEF MayBe, MustBe, Shown, Handed, OfContext
  <2>5. Surface(Picture) \notin {Prime(Overlay), Surface(Overlay)}
    BY Kinds, Apart
  <2>6. Doomed'
    BY <1>5, <2>1, <2>5 DEF Doomed
  <2> QED BY <2>2, <2>3, <2>4, <2>6
<1>11. CASE LatePipeline
  <2>1. /\ stage = "running" /\ stage' = "running" /\ todo' = << >>
        /\ isOpenGL
        /\ live' = live \/ live' = live \cup {Pipeline}
        /\ UNCHANGED <<isOpenGL, hand, locked, scanned, plane>>
    BY <1>11, CreatedIs DEF LatePipeline, At, Then
  <2>2. Buffers'
    BY <2>1, BuffersLeft
  <2>3. CASE live' = live
    BY <1>1, <1>2, <2>1, <2>2, <2>3, ShownStays
  <2>4. CASE live' = live \cup {Pipeline}
    <3> DEFINE objects == {Pipeline}
    <3>1. /\ objects \in SUBSET Objects /\ objects \cap LoadingOwn = {}
          /\ \A o \in objects : NeedsOf(o) \subseteq live \cup objects
          /\ live' = live \cup objects
      BY <1>1, <2>1, <2>4, Apart, Known, Needs DEF OneOfEach
    <3> HIDE DEF objects
    <3> QED BY <1>1, <1>2, <2>1, <2>2, <3>1, ShownMakes
  <2> QED BY <2>1, <2>3, <2>4
<1>12. CASE Leave
  <2>1. /\ stage = "running" /\ stage' = "stop" /\ todo' = << >>
        /\ UNCHANGED <<live, isOpenGL, hand, locked, scanned, plane>>
    BY <1>12 DEF Leave, At, Unwind, Then, flowVars
  <2>2. ObjectTypes' /\ Gone(todo') = {}
    BY <1>1, <2>1, NothingUnwound
  <2>3. MayBe' /\ Doomed' /\ MustBe' /\ Buffers'
    BY <1>1, <2>1, <2>2
       DEF MayBe, Doomed, MustBe, Buffers, Shown, Handed, OfContext
  <2> QED BY <2>2, <2>3
<1> QED BY <1>6, <1>7, <1>8, <1>9, <1>10, <1>11, <1>12

\* A hardware core's picture, on its way to the plane or to the presenter.
LEMMA HardwareInv ==
  ASSUME ResInv,
         \/ \E b \in Bos : LockFront(b)
         \/ ShowDirect \/ NotDirect \/ Settle \/ FallBack \/ ComposeFrame
  PROVE  ResInv'
<1> USE DEF ResInv
<1>1. /\ todo = << >> /\ Gone(todo) = {} /\ stage \in Shown
      /\ RenderThread \in live /\ live \cap LoadingOwn = {} /\ isOpenGL
      /\ Context \in live /\ todo' = << >> /\ isOpenGL' = isOpenGL
  BY NoList
     DEF LockFront, ShowDirect, NotDirect, Settle, FallBack, ComposeFrame, At,
         Shown, Handed, MustBe, MayBe, Then
<1>2. /\ {"running"} \cup Handed \subseteq Shown /\ "running" \notin Handed
      /\ "swapped" \in Handed /\ "settle" \in Handed
      /\ "fallback" \in Handed /\ "compose" \in Handed
      /\ \A s \in Handed : s \notin {"aborted", "stop"}
      /\ "aborted" \notin Shown
  BY DEF Shown, Handed
<1>3. Surface(1) \in live /\ Surface(2) \in live /\ ContextOwn \subseteq live
  BY <1>1, PresenterThere, ContextThere
<1>4. 0 \notin Bos
  BY Go2ResAssumption DEF Go2ResAssumption
<1>5. ASSUME NEW b \in Bos, LockFront(b) PROVE ResInv'
  <2>1. /\ stage = "running" /\ b \notin locked /\ hand' = b
        /\ locked' = locked \cup {b}
        /\ live' = live \/ live' = live \cup {Record(b)}
        /\ \/ stage' = "swapped" /\ Record(b) \in live'
           \/ stage' = "aborted"
        /\ UNCHANGED <<scanned, plane>>
    BY <1>5 DEF LockFront, At, Then, Recorded
  <2>2. PICK objects \in {{}, {Record(b)}} : live' = live \cup objects
    BY <2>1
  <2>3. /\ objects \in SUBSET Objects /\ objects \cap LoadingOwn = {}
        /\ \A o \in objects : NeedsOf(o) \subseteq live \cup objects
    BY <1>3, Apart, Known, Needs DEF ContextOwn
  <2>4. Buffers'
    <3>1. hand = 0 /\ locked = {scanned} \ {0} /\ plane = scanned
          /\ scanned \in Bos \cup {0}
          /\ (plane # 0 => Scanout(plane) \in live)
      BY <2>1, <1>2 DEF Buffers
    <3>2. b # scanned /\ b # 0
      BY <1>4, <2>1, <3>1
    <3>3. stage' # "settle" /\ stage' # "compose" /\ live \subseteq live'
          /\ stage' \in Handed \cup {"aborted"}
          /\ (stage' \in Handed => Record(b) \in live')
      BY <1>2, <2>1
    <3> QED
      BY <1>2, <2>1, <3>1, <3>2, <3>3 DEF Buffers
  <2>5. CASE stage' = "swapped"
    BY <1>1, <1>2, <2>2, <2>3, <2>4, <2>5, ShownMakes
  <2>6. CASE stage' = "aborted"
    <3>1. ObjectTypes' /\ Gone(todo') = {}
      BY <1>1, <2>2, <2>3, Made
    <3>2. MayBe' /\ Doomed' /\ MustBe'
      BY <1>1, <2>6 DEF MayBe, Doomed, MustBe, Shown, Handed, OfContext
    <3> QED BY <2>4, <3>1, <3>2
  <2> QED BY <2>1, <2>5, <2>6
<1>6. CASE ShowDirect
  <2> DEFINE objects == {Scanout(hand)}
  <2>1. /\ stage = "swapped" /\ stage' = "settle"
        /\ live' = live \cup objects /\ plane' = hand
        /\ UNCHANGED <<hand, locked, scanned>>
    BY <1>6 DEF ShowDirect, At, Then
  <2>2. hand \in Bos /\ Record(hand) \in live
    BY <1>2, <2>1 DEF Buffers
  <2>3. /\ objects \in SUBSET Objects /\ objects \cap LoadingOwn = {}
        /\ \A o \in objects : NeedsOf(o) \subseteq live \cup objects
    BY <2>2, Apart, Known, Needs
  <2>4. Buffers'
    BY <1>2, <1>4, <2>1, <2>2 DEF Buffers
  <2>5. stage' \in Shown /\ stage' \in Handed /\ stage' # "running"
    BY <1>2, <2>1
  <2> HIDE DEF objects
  <2> QED BY <1>1, <2>1, <2>3, <2>4, <2>5, ShownMakes
<1>7. CASE NotDirect
  <2>1. /\ stage = "swapped" /\ stage' = "fallback"
        /\ live' = live \/ live' = live \cup {Scanout(hand)}
        /\ UNCHANGED <<hand, locked, scanned, plane>>
    BY <1>7 DEF NotDirect, At, Then
  <2>2. hand \in Bos /\ Record(hand) \in live
    BY <1>2, <2>1 DEF Buffers
  <2>3. PICK objects \in {{}, {Scanout(hand)}} : live' = live \cup objects
    BY <2>1
  <2>4. /\ objects \in SUBSET Objects /\ objects \cap LoadingOwn = {}
        /\ \A o \in objects : NeedsOf(o) \subseteq live \cup objects
    BY <2>2, Apart, Known, Needs
  <2>5. Buffers'
    BY <1>2, <1>4, <2>1, <2>2 DEF Buffers
  <2>6. stage' \in Shown /\ stage' \in Handed /\ stage' # "running"
    BY <1>2, <2>1
  <2> QED BY <1>1, <2>3, <2>4, <2>5, <2>6, ShownMakes
<1>8. CASE Settle
  <2>1. /\ stage = "settle" /\ stage' = "running"
        /\ locked' = locked \ {scanned} /\ scanned' = hand /\ hand' = 0
        /\ UNCHANGED <<live, plane>>
    BY <1>8 DEF Settle, At, Then
  <2>2. hand \in Bos /\ plane = hand /\ Scanout(plane) \in live
    BY <1>2, <1>4, <2>1 DEF Buffers
  <2>3. Buffers'
    <3>1. locked' = {hand}
      BY <1>4, <2>1, <2>2 DEF Buffers
    <3> QED BY <1>2, <1>4, <2>1, <2>2, <3>1 DEF Buffers
  <2> QED BY <1>1, <1>2, <2>1, <2>3, ShownStays
<1>9. CASE FallBack
  <2>1. /\ stage = "fallback" /\ stage' = "compose"
        /\ UNCHANGED <<live, hand>>
        /\ IF scanned # 0
           THEN plane' = 0 /\ scanned' = 0 /\ locked' = locked \ {scanned}
           ELSE UNCHANGED <<plane, scanned, locked>>
    BY <1>9 DEF FallBack, At, Then, DirectDisabled, ReleaseScanned
  <2>2. /\ hand \in Bos /\ Record(hand) \in live /\ plane = scanned
        /\ hand # scanned /\ locked = {hand, scanned} \ {0}
    BY <1>2, <1>4, <2>1 DEF Buffers
  <2>3. plane' = 0 /\ scanned' = 0 /\ locked' = {hand}
    BY <1>4, <2>1, <2>2
  <2>4. Buffers'
    BY <1>2, <1>4, <2>1, <2>2, <2>3 DEF Buffers
  <2>5. stage' \in Shown /\ stage' \in Handed /\ stage' # "running"
    BY <1>2, <2>1
  <2> QED BY <1>1, <2>1, <2>4, <2>5, ShownStays
<1>10. CASE ComposeFrame
  <2> DEFINE objects == {Prime(hand), Prime(1), Prime(2)}
  <2>1. /\ stage = "compose" /\ stage' = "running"
        /\ live' = live \cup objects
        /\ locked' = locked \ {hand} /\ hand' = 0
        /\ UNCHANGED <<scanned, plane>>
    BY <1>10, CreatedIs DEF ComposeFrame, At, Then
  <2>2. hand \in Bos /\ Record(hand) \in live
    BY <1>2, <2>1 DEF Buffers
  <2>3. /\ objects \in SUBSET Objects /\ objects \cap LoadingOwn = {}
        /\ \A o \in objects : NeedsOf(o) \subseteq live \cup objects
    <3>1. \A i \in {hand, 1, 2} :
            /\ Prime(i) \in Objects /\ Prime(i) \notin LoadingOwn
            /\ NeedsOf(Prime(i)) \subseteq live
      <4>1. /\ Prime(hand) \in Objects /\ Prime(hand) \notin LoadingOwn
            /\ NeedsOf(Prime(hand)) \subseteq live
        <5>1. hand # Loading
          BY <2>2, Apart
        <5>2. Prime(hand) \notin LoadingOwn
          BY <2>2, <5>1, Apart
        <5>3. Prime(hand) \in Objects
          BY <2>2, Known
        <5>4. NeedsOf(Prime(hand)) \subseteq live
          BY <2>2, Needs
        <5> QED BY <5>2, <5>3, <5>4
      <4>2. \A i \in {1, 2} :
              /\ Prime(i) \in Objects /\ Prime(i) \notin LoadingOwn
              /\ NeedsOf(Prime(i)) \subseteq live
        BY <1>3, Apart, Known, Needs DEF Loading
      <4> QED BY <4>1, <4>2
    <3> QED BY <3>1
  <2>4. Buffers'
    <3>1. scanned = 0 /\ plane = 0 /\ locked = {hand}
      BY <1>2, <1>4, <2>1, <2>2 DEF Buffers
    <3> QED BY <1>2, <1>4, <2>1, <3>1 DEF Buffers
  <2> HIDE DEF objects
  <2> QED BY <1>1, <1>2, <2>1, <2>3, <2>4, ShownMakes
<1> QED BY <1>5, <1>6, <1>7, <1>8, <1>9, <1>10

LEMMA DeinitInv == ASSUME ResInv, Deinit PROVE ResInv'
<1> USE DEF ResInv
<1>1. /\ stage = "stop" /\ stage' = "down" /\ todo' = DeinitOrder
      /\ UNCHANGED <<live, isOpenGL, hand>>
      /\ IF scanned # 0
         THEN plane' = 0 /\ scanned' = 0 /\ locked' = locked \ {scanned}
         ELSE UNCHANGED <<plane, scanned, locked>>
  BY DEF Deinit, At, Then, DirectDisabled, ReleaseScanned
<1>2. live \cap LoadingOwn = {} /\ live \subseteq Objects
  BY <1>1 DEF MayBe, ObjectTypes
<1>3. /\ DeinitOrder \in Lists /\ Orderly(DeinitOrder, live)
      /\ live \subseteq Gone(DeinitOrder)
  BY <1>2, DeinitList DEF LoadingOwn
<1>4. ObjectTypes'
  BY <1>1, <1>3, Unwound
<1>5. /\ hand = 0 /\ plane = scanned /\ locked = {scanned} \ {0}
  BY <1>1 DEF Buffers, Handed
<1>6. Buffers'
  BY <1>1, <1>5 DEF Buffers, Shown, Handed
<1>7. MayBe' /\ Doomed' /\ MustBe'
  BY <1>1, <1>3 DEF MayBe, Doomed, MustBe, Shown, Handed, OfContext
<1> QED BY <1>4, <1>6, <1>7

LEMMA ResInvNext == ResInv /\ [Go2ResNext]_resVars => ResInv'
<1> SUFFICES ASSUME ResInv, [Go2ResNext]_resVars PROVE ResInv'
  OBVIOUS
<1>1. CASE UNCHANGED resVars
  BY <1>1
     DEF ResInv, ObjectTypes, MayBe, Doomed, MustBe, Buffers, resVars,
         flowVars
<1>2. CASE Configuring
  BY <1>2, DisplayConfigured, ContextConfigured, ShowingStarts
     DEF Configuring
<1>3. CASE Running
  BY <1>3, SoftwareInv, HardwareInv DEF Running
<1> QED
  BY <1>1, <1>2, <1>3, ReleaseInv, StartupInv, SoftwareInv, DeinitInv
     DEF Go2ResNext

\* No object outlives what it needs, and none is left over.
THEOREM OwnersHold == Go2ResSpec => []OwnersLast
  BY ResInvInit, ResInvNext, ResInvLast, PTL DEF Go2ResSpec

-----------------------------------------------------------------------------
(* The benchmark.                                                          *)

\* What a thread holds of the window's pictures: one it has posted and not
\* counted, one it has counted and not by its kind, those of the queue.
Uncounted(thread) ==
  IF thread.at \in {"drawing", "flipping"} THEN thread.of ELSE 0
Unsorted(thread) == IF thread.at = "counted" THEN thread.of ELSE 0
Queued ==
  IF Len(shown) = 0 THEN 0
  ELSE IF Len(shown) = 1 THEN shown[1] ELSE shown[1] + shown[2]

PostSteps == {"idle", "given", "drawing", "flipping", "counted"}
ThreadSteps == [at : PostSteps, of : {0, 1}]
Unstarted == {"warmup", "loop", "core", "returning", "frame"}

BenchTypes ==
  /\ limit \in Nat /\ clock \in Nat /\ opened \in Nat /\ closed \in Nat
  /\ started \in BOOLEAN /\ completed \in BOOLEAN /\ failed \in BOOLEAN
  /\ collecting \in BOOLEAN /\ measured \in BOOLEAN /\ going \in BOOLEAN
  /\ generation \in {0, 1}
  /\ mainPc \in Unstarted \cup {"stop", "report", "done"}
  /\ core_frames \in Nat /\ samples \in Nat
  /\ presented \in Int /\ direct \in Int /\ fallback \in Int /\ owed \in Int
  /\ poster \in ThreadSteps /\ shower \in ThreadSteps
  /\ poster.at \in {"idle", "given"} => poster.of = 0
  /\ shower.at \in {"idle", "flipping", "counted"}
  /\ shower.at = "idle" => shower.of = 0
  /\ shown \in Seq({0, 1}) /\ Len(shown) <= 2

\* The window is open or closed as main's place says.
WindowStage ==
  /\ collecting => started /\ ~completed /\ ~failed
  /\ measured => started
  /\ mainPc = "warmup" => ~started
  /\ ~started => core_frames = 0 /\ ~completed
  /\ completed =>
       /\ started /\ mainPc \in {"stop", "report", "done"}
       /\ \/ closed - opened >= Duration
          \/ limit # 0 /\ core_frames = limit

\* A frame that is measured was begun in a window with room for it.
FramesCounted ==
  /\ limit # 0 => core_frames <= limit
  /\ mainPc \in {"core", "returning"} /\ measured /\ limit # 0 =>
       core_frames < limit
  /\ core_frames <= samples \/ (mainPc = "frame" /\ measured
                                  /\ core_frames <= samples + 1)

\* The pictures of the window are counted, or still with somebody, who is
\* done when the report is made.
PicturesStage ==
  /\ generation = 0 <=> ~started \/ mainPc = "done"
  /\ ~started => owed = 0 /\ presented = 0 /\ direct = 0 /\ fallback = 0
  /\ generation = 0 =>
       /\ poster.of = 0 /\ shower.of = 0
       /\ \A i \in 1 .. Len(shown) : shown[i] = 0
  /\ owed = presented + Uncounted(poster) + Uncounted(shower) + Queued
  /\ presented = direct + fallback + Unsorted(poster) + Unsorted(shower)
  /\ mainPc \in {"report", "done"} =>
       poster.at = "idle" /\ shower.at = "idle" /\ shown = << >>
  /\ mainPc # "done" => outcome = "none"
  /\ outcome \in {"none", "invalid", "ok", "unwritten"}
  /\ outcome \in {"ok", "unwritten"} => completed /\ presented = owed

BenchInv == BenchTypes /\ WindowStage /\ FramesCounted /\ PicturesStage

LEMMA BenchInvInit == BenchInit => BenchInv
<1> SUFFICES ASSUME BenchInit PROVE BenchInv
  OBVIOUS
<1>1. Resting \in ThreadSteps /\ Resting.at = "idle" /\ Resting.of = 0
  BY DEF Resting, Step, ThreadSteps, PostSteps
<1>2. << >> \in Seq({0, 1}) /\ Len(<< >>) = 0
  OBVIOUS
<1>3. limit \in Nat
  BY BenchAssumption DEF BenchAssumption, BenchInit
<1>4. BenchTypes
  <2>1. poster = Resting /\ shower = Resting /\ shown = << >>
    BY DEF BenchInit
  <2>2. shown \in Seq({0, 1}) /\ Len(shown) <= 2
    BY <1>2, <2>1
  <2>3. started \in BOOLEAN /\ completed \in BOOLEAN /\ failed \in BOOLEAN
        /\ collecting \in BOOLEAN /\ measured \in BOOLEAN
        /\ going \in BOOLEAN
    BY DEF BenchInit
  <2>4. /\ clock \in Nat /\ opened \in Nat /\ closed \in Nat
        /\ generation \in {0, 1}
        /\ mainPc \in Unstarted \cup {"stop", "report", "done"}
        /\ core_frames \in Nat /\ samples \in Nat
        /\ presented \in Int /\ direct \in Int /\ fallback \in Int
        /\ owed \in Int
    BY DEF BenchInit, Unstarted
  <2> QED BY <1>1, <1>3, <2>1, <2>2, <2>3, <2>4 DEF BenchTypes
<1>5. WindowStage /\ FramesCounted
  BY <1>4 DEF BenchInit, BenchTypes, WindowStage, FramesCounted
<1>6. PicturesStage
  BY <1>1, <1>2 DEF BenchInit, PicturesStage, Uncounted, Unsorted, Queued
<1> QED BY <1>4, <1>5, <1>6 DEF BenchInv

\* What a step of the window does to the counters, wherever it is taken.
LEMMA WindowStep ==
  ASSUME BenchInv, benchmark_update_window, mainPc \in {"warmup", "loop"},
         mainPc = "warmup" => ~started,
         UNCHANGED <<optionVars, clock, failed, showVars, outcome>>
  PROVE  /\ opened' \in Nat /\ closed' \in Nat
         /\ started' \in BOOLEAN /\ completed' \in BOOLEAN
         /\ collecting' \in BOOLEAN /\ generation' \in {0, 1}
         /\ collecting' => started' /\ ~completed' /\ ~failed'
         /\ mainPc = "warmup" => ~completed'
         /\ started => started'
         /\ ~started' => core_frames' = 0 /\ ~completed'
         /\ completed' =>
              /\ started'
              /\ \/ closed' - opened' >= Duration
                 \/ limit' # 0 /\ core_frames' = limit'
         /\ core_frames' \in Nat /\ samples' \in Nat
         /\ presented' \in Int /\ direct' \in Int /\ fallback' \in Int
         /\ core_frames' <= samples' /\ (limit # 0 => core_frames' <= limit)
         /\ collecting' /\ limit # 0 => core_frames' < limit
<1> USE DEF BenchInv, BenchTypes, WindowStage, FramesCounted, optionVars,
            showVars
<1>1. CASE Opens /\ OpenWindow
  BY <1>1 DEF OpenWindow, Opens
<1>2. CASE Closes /\ CloseWindow
  <2>1. closed' = clock /\ opened' = opened /\ started /\ started'
        /\ completed' /\ collecting' = FALSE /\ generation' = generation
        /\ core_frames' = core_frames /\ samples' = samples
        /\ UNCHANGED <<presented, direct, fallback>>
    BY <1>2 DEF CloseWindow, Closes, counterVars
  <2>2. (limit # 0 /\ core_frames >= limit) \/ clock >= opened + Duration
    BY <1>2 DEF Closes, LimitReached
  <2>3. limit' = limit /\ (limit # 0 => core_frames <= limit)
    OBVIOUS
  <2>4. Duration \in Nat
    BY BenchAssumption DEF BenchAssumption
  <2>5. closed' - opened' >= Duration \/ (limit' # 0 /\ core_frames' = limit')
    BY <2>1, <2>2, <2>3, <2>4
  <2> QED BY <2>1, <2>3, <2>5
<1>3. CASE ~Opens /\ ~Closes /\ UNCHANGED <<windowVars, counterVars>>
  BY <1>3 DEF Closes, LimitReached, windowVars, counterVars
<1> QED BY <1>1, <1>2, <1>3 DEF benchmark_update_window

\* The pictures are not a matter of the window's: those of another time are
\* none, and those of the window stay with who has them.
LEMMA WindowPictures ==
  ASSUME BenchInv, benchmark_update_window, mainPc \in {"warmup", "loop"},
         mainPc' \in {"loop", "core", "stop"},
         UNCHANGED <<optionVars, clock, failed, showVars, outcome>>
  PROVE  PicturesStage'
<1> USE DEF BenchInv, BenchTypes, PicturesStage, optionVars, showVars
<1>1. /\ Uncounted(poster)' = Uncounted(poster)
      /\ Uncounted(shower)' = Uncounted(shower)
      /\ Unsorted(poster)' = Unsorted(poster)
      /\ Unsorted(shower)' = Unsorted(shower) /\ Queued' = Queued
  BY DEF Uncounted, Unsorted, Queued
<1>2. CASE Opens /\ OpenWindow
  <2>1. generation = 0 /\ owed = 0 /\ presented = 0 /\ direct = 0
        /\ fallback = 0 /\ generation' = 1 /\ started'
        /\ presented' = 0 /\ direct' = 0 /\ fallback' = 0
    BY <1>2 DEF OpenWindow, Opens
  <2> QED BY <1>1, <2>1
<1>3. CASE Closes /\ CloseWindow
  BY <1>1, <1>3 DEF CloseWindow, Closes, counterVars
<1>4. CASE ~Opens /\ ~Closes /\ UNCHANGED <<windowVars, counterVars>>
  BY <1>1, <1>4 DEF windowVars, counterVars
<1> QED BY <1>2, <1>3, <1>4 DEF benchmark_update_window

\* Main's steps that leave the pictures alone.
LEMMA PicturesLeft ==
  ASSUME BenchInv, mainPc \notin {"report", "done"},
         mainPc' \notin {"report", "done"},
         UNCHANGED <<started, completed, generation, presented, direct,
                     fallback, showVars, outcome>>
  PROVE  PicturesStage'
  BY DEF BenchInv, PicturesStage, showVars, Uncounted, Unsorted, Queued

\* What becomes of the window at the top of the loop.
LEMMA TopInv ==
  ASSUME BenchInv, BeginWarmup \/ LoopTop
  PROVE  BenchInv'
<1> USE DEF BenchInv
<1>1. CASE BeginWarmup
  <2>1. /\ mainPc = "warmup" /\ mainPc' = "loop" /\ ~started
        /\ UNCHANGED <<optionVars, clock, failed, going, measured, showVars,
                       outcome>>
    BY <1>1 DEF BeginWarmup, WindowStage
  <2>2. CASE benchmark_update_window
    <3>1. PicturesStage'
      BY <2>1, <2>2, WindowPictures
    <3>2. BenchTypes' /\ WindowStage' /\ FramesCounted'
      BY <2>1, <2>2, WindowStep
         DEF BenchTypes, WindowStage, FramesCounted, optionVars, showVars,
             Unstarted
    <3> QED BY <3>1, <3>2
  <2>3. CASE UNCHANGED <<windowVars, counterVars>>
    <3>1. PicturesStage'
      BY <2>1, <2>3, PicturesLeft DEF windowVars, counterVars
    <3>2. BenchTypes' /\ WindowStage' /\ FramesCounted'
      BY <2>1, <2>3
         DEF BenchTypes, WindowStage, FramesCounted, optionVars, showVars,
             windowVars, counterVars, Unstarted
    <3> QED BY <3>1, <3>2
  <2> QED BY <1>1, <2>2, <2>3 DEF BeginWarmup
<1>2. CASE LoopTop
  <2>1. /\ mainPc = "loop" /\ benchmark_update_window
        /\ going' = ~completed' /\ measured' = collecting'
        /\ mainPc' = IF completed' THEN "stop" ELSE "core"
        /\ UNCHANGED <<optionVars, clock, failed, showVars, outcome>>
    BY <1>2 DEF LoopTop
  <2>2. mainPc' \in {"core", "stop"}
    BY <2>1
  <2>3. PicturesStage'
    BY <2>1, <2>2, WindowPictures
  <2>4. BenchTypes'
    BY <2>1, <2>2, WindowStep DEF BenchTypes, optionVars, showVars, Unstarted
  <2>5. WindowStage' /\ FramesCounted'
    BY <2>1, <2>2, WindowStep
       DEF WindowStage, FramesCounted, optionVars, showVars
  <2> QED BY <2>3, <2>4, <2>5
<1> QED BY <1>1, <1>2

\* The rest of main's loop, and the clock.
LEMMA LoopInv ==
  ASSUME BenchInv,
         \/ LoopEnds \/ VideoCallback \/ CoreEnds \/ Paused \/ FrameEnd
         \/ UpdateFails \/ Quit
  PROVE  BenchInv'
<1> USE DEF BenchInv, optionVars, showVars, windowVars, counterVars
<1>1. CASE VideoCallback
  <2>1. Uncounted(poster) = 0 /\ Uncounted(poster)' = 0
        /\ Unsorted(poster) = 0 /\ Unsorted(poster)' = 0
        /\ Uncounted(shower)' = Uncounted(shower)
        /\ Unsorted(shower)' = Unsorted(shower) /\ Queued' = Queued
        /\ poster' \in ThreadSteps /\ poster'.of = 0 /\ poster'.at = "given"
        /\ poster.of = 0
    BY <1>1
       DEF VideoCallback, Step, Uncounted, Unsorted, Queued, BenchTypes,
           ThreadSteps, PostSteps
  <2>2. PicturesStage'
    BY <1>1, <2>1 DEF VideoCallback, PicturesStage
  <2>3. BenchTypes' /\ WindowStage' /\ FramesCounted'
    BY <1>1, <2>1
       DEF VideoCallback, BenchTypes, WindowStage, FramesCounted, Unstarted
  <2> QED BY <2>2, <2>3
<1>2. ASSUME LoopEnds \/ CoreEnds \/ Paused \/ FrameEnd \/ UpdateFails \/ Quit
      PROVE  PicturesStage'
  <2>1. /\ mainPc \notin {"report", "done"}
        /\ mainPc' \notin {"report", "done"}
        /\ UNCHANGED <<started, completed, generation, presented, direct,
                       fallback, showVars, outcome>>
    BY <1>2 DEF LoopEnds, CoreEnds, Paused, FrameEnd, UpdateFails, Quit
  <2> QED BY <2>1, PicturesLeft
<1>3. ASSUME LoopEnds \/ CoreEnds \/ Paused \/ FrameEnd \/ UpdateFails \/ Quit
      PROVE  BenchTypes' /\ WindowStage' /\ FramesCounted'
  <2> USE DEF BenchTypes, WindowStage, FramesCounted, Unstarted
  <2>1. CASE LoopEnds
    BY <2>1 DEF LoopEnds
  <2>2. CASE CoreEnds
    BY <2>2 DEF CoreEnds
  <2>3. CASE Paused
    BY <2>3 DEF Paused
  <2>4. CASE FrameEnd
    BY <2>4 DEF FrameEnd
  <2>5. CASE UpdateFails
    BY <2>5 DEF UpdateFails
  <2>6. CASE Quit
    BY <2>6 DEF Quit
  <2> QED BY <1>3, <2>1, <2>2, <2>3, <2>4, <2>5, <2>6
<1> QED BY <1>1, <1>2, <1>3

LEMMA QueuedInt == ASSUME BenchTypes PROVE Queued \in Int
<1>1. Len(shown) \in Nat /\ \A i \in 1 .. Len(shown) : shown[i] \in {0, 1}
  BY DEF BenchTypes
<1>2. Len(shown) # 0 => shown[1] \in {0, 1}
  BY <1>1
<1>3. Len(shown) # 0 /\ Len(shown) # 1 => shown[2] \in {0, 1}
  <2>1. \A n \in Nat : n # 0 /\ n # 1 => 2 \in 1 .. n
    OBVIOUS
  <2> QED BY <1>1, <2>1, Zenon
<1> QED BY <1>2, <1>3 DEF Queued

\* A step of a thread leaves the window and main's frames alone.
LEMMA OthersLeft ==
  ASSUME BenchInv,
         UNCHANGED <<optionVars, clock, windowVars, failed, mainPc, going,
                     measured, core_frames, samples, outcome>>
  PROVE  WindowStage' /\ FramesCounted'
  BY DEF BenchInv, WindowStage, FramesCounted, optionVars, windowVars

\* The posts: a picture goes from its poster to the queue and to the render
\* thread, and is nobody's if the plane refuses it.
LEMMA PostInv == ASSUME BenchInv, PostStep PROVE BenchInv'
<1> USE DEF BenchInv
<1>1. WindowStage' /\ FramesCounted'
  BY OthersLeft DEF PostStep, counterVars
<1>2. UNCHANGED <<limit, clock, opened, closed, started, completed, failed,
                  collecting, measured, going, generation, mainPc,
                  core_frames, samples, presented, direct, fallback, outcome>>
  BY DEF PostStep, optionVars, windowVars, counterVars
<1>3. /\ poster \in ThreadSteps /\ shower \in ThreadSteps
      /\ shown \in Seq({0, 1}) /\ Len(shown) <= 2 /\ owed \in Int
      /\ poster.at \in {"idle", "given"} => poster.of = 0
      /\ shower.at \in {"idle", "flipping", "counted"}
      /\ shower.at = "idle" => shower.of = 0
      /\ poster.of \in {0, 1} /\ shower.of \in {0, 1}
      /\ presented \in Int
  BY DEF BenchTypes, ThreadSteps
<1>4. mainPc \notin {"report", "done"}
  BY DEF PostStep, Post, PostQueued, PostDirect, DirectFails, QueuePicture,
         TakePicture, PicturesStage
\* It is enough to know whose the picture is.
<1>5. SUFFICES
        /\ poster' \in ThreadSteps /\ shower' \in ThreadSteps
        /\ shown' \in Seq({0, 1}) /\ Len(shown') <= 2 /\ owed' \in Int
        /\ poster'.at \in {"idle", "given"} => poster'.of = 0
        /\ shower'.at \in {"idle", "flipping", "counted"}
        /\ shower'.at = "idle" => shower'.of = 0
        /\ generation = 0 =>
             /\ poster'.of = 0 /\ shower'.of = 0
             /\ \A i \in 1 .. Len(shown') : shown'[i] = 0
        /\ ~started => owed' = 0
        /\ owed' = presented + Uncounted(poster') + Uncounted(shower')
                     + Queued'
        /\ Unsorted(poster') = Unsorted(poster)
        /\ Unsorted(shower') = Unsorted(shower)
  <2>1. BenchTypes'
    BY <1>2, <1>5 DEF BenchTypes
  <2>2. PicturesStage'
    BY <1>2, <1>4, <1>5 DEF PicturesStage, Uncounted, Unsorted
  <2> QED BY <1>1, <2>1, <2>2
<1>6. Capture \in {0, 1} /\ (generation = 0 => Capture = 0)
      /\ Owes(Capture) = Capture
  BY DEF Capture, Owes, BenchTypes
<1>7. ~started => generation = 0 /\ owed = 0
  BY DEF PicturesStage
<1>8. /\ owed = presented + Uncounted(poster) + Uncounted(shower) + Queued
      /\ generation = 0 =>
             /\ poster.of = 0 /\ shower.of = 0
             /\ \A i \in 1 .. Len(shown) : shown[i] = 0
  BY DEF PicturesStage
<1>9. Queued \in Int /\ Uncounted(shower) \in Int /\ Uncounted(poster) \in Int
  BY <1>3, QueuedInt DEF Uncounted
<1>a. CASE PostQueued \/ PostDirect
  <2>1. PICK at \in {"drawing", "flipping"} : poster' = Step(at, Capture)
    BY <1>a DEF PostQueued, PostDirect
  <2>2. poster.at = "given" /\ owed' = owed + Capture
        /\ UNCHANGED <<shown, shower>>
    BY <1>6, <1>a DEF PostQueued, PostDirect
  <2>3. /\ poster' \in ThreadSteps /\ poster'.of = Capture
        /\ poster'.at \in {"drawing", "flipping"}
    BY <1>6, <2>1 DEF Step, ThreadSteps, PostSteps
  <2>4. Uncounted(poster) = 0 /\ Uncounted(poster') = Capture
        /\ Unsorted(poster) = 0 /\ Unsorted(poster') = 0
    BY <2>2, <2>3 DEF Uncounted, Unsorted
  <2>5. Queued' = Queued
    BY <2>2 DEF Queued
  <2>6. owed' = presented + Uncounted(poster') + Uncounted(shower') + Queued'
    BY <1>3, <1>6, <1>8, <1>9, <2>2, <2>4, <2>5
  <2>7. owed' \in Int /\ (~started => owed' = 0)
    BY <1>3, <1>6, <1>7, <2>2
  <2>8. UNCHANGED <<shown, shower>>
    BY <2>2
  <2> QED BY <1>3, <1>6, <1>8, <2>3, <2>4, <2>6, <2>7, <2>8
<1>b. CASE DirectFails
  <2>1. poster.at = "flipping" /\ owed' = owed - poster.of
        /\ poster' = Step("given", 0) /\ UNCHANGED <<shown, shower>>
    BY <1>3, <1>b DEF DirectFails, Owes
  <2>2. poster' \in ThreadSteps /\ poster'.of = 0 /\ poster'.at = "given"
    BY <2>1 DEF Step, ThreadSteps, PostSteps
  <2>3. Uncounted(poster) = poster.of /\ Uncounted(poster') = 0
        /\ Unsorted(poster) = 0 /\ Unsorted(poster') = 0
    BY <2>1, <2>2 DEF Uncounted, Unsorted
  <2>4. Queued' = Queued
    BY <2>1 DEF Queued
  <2>5. owed' = presented + Uncounted(poster') + Uncounted(shower') + Queued'
    BY <1>3, <1>8, <1>9, <2>1, <2>3, <2>4
  <2>6. owed' \in Int /\ (~started => owed' = 0)
    BY <1>3, <1>7, <1>8, <2>1
  <2>7. UNCHANGED <<shown, shower>>
    BY <2>1
  <2> QED BY <1>3, <1>8, <2>2, <2>3, <2>5, <2>6, <2>7
<1>c. CASE QueuePicture
  <2>1. /\ poster.at = "drawing" /\ Len(shown) < 2
        /\ shown' = Append(shown, poster.of) /\ poster' = Resting
        /\ UNCHANGED <<shower, owed>>
    BY <1>c DEF QueuePicture
  <2>2. poster' \in ThreadSteps /\ poster'.of = 0 /\ poster'.at = "idle"
    BY <2>1 DEF Resting, Step, ThreadSteps, PostSteps
  <2>3. Uncounted(poster) = poster.of /\ Uncounted(poster') = 0
        /\ Unsorted(poster) = 0 /\ Unsorted(poster') = 0
    BY <2>1, <2>2 DEF Uncounted, Unsorted
  <2>4. shown' \in Seq({0, 1}) /\ Len(shown') = Len(shown) + 1
        /\ Len(shown) \in {0, 1}
        /\ shown'[Len(shown) + 1] = poster.of
        /\ \A i \in 1 .. Len(shown) : shown'[i] = shown[i]
    <3> DEFINE s == shown
               n == Len(shown)
               x == poster.of
    <3>1. s \in Seq({0, 1}) /\ x \in {0, 1} /\ n = Len(s) /\ n < 2
          /\ shown' = Append(s, x)
      BY <1>3, <2>1
    <3>2. n \in Nat
      BY <3>1
    <3> HIDE DEF s, n, x
    <3>3. Append(s, x) \in Seq({0, 1}) /\ Len(Append(s, x)) = n + 1
      BY <3>1
    <3>4. n \in {0, 1}
      BY <3>1, <3>2
    <3>5. Append(s, x)[n + 1] = x /\ \A i \in 1 .. n : Append(s, x)[i] = s[i]
      BY <3>1, <3>2
    <3> QED BY <3>1, <3>3, <3>4, <3>5 DEF s, n, x
  <2>5. Queued' = Queued + poster.of
    BY <1>3, <2>4 DEF Queued
  <2>6. generation = 0 => \A i \in 1 .. Len(shown') : shown'[i] = 0
    BY <1>8, <2>4
  <2>7. owed' = presented + Uncounted(poster') + Uncounted(shower') + Queued'
    BY <1>3, <1>8, <1>9, <2>1, <2>3, <2>5
  <2>8. UNCHANGED <<shower, owed>>
    BY <2>1
  <2>9. Len(shown') <= 2
    BY <2>4
  <2> QED BY <1>3, <1>7, <1>8, <2>2, <2>3, <2>4, <2>6, <2>7, <2>8, <2>9
<1>d. CASE TakePicture
  <2>1. /\ shower.at = "idle" /\ shown # << >>
        /\ shower' = Step("flipping", Head(shown)) /\ shown' = Tail(shown)
        /\ UNCHANGED <<poster, owed>>
    BY <1>d DEF TakePicture
  <2>2. Head(shown) = shown[1] /\ shown[1] \in {0, 1}
        /\ shown' \in Seq({0, 1}) /\ Len(shown') = Len(shown) - 1
        /\ Len(shown) \in {1, 2}
        /\ \A i \in 1 .. Len(shown') : shown'[i] = shown[i + 1]
    <3> DEFINE s == shown
    <3>1. s \in Seq({0, 1}) /\ s # << >> /\ Len(s) <= 2
          /\ shown' = Tail(s)
      BY <1>3, <2>1
    <3> HIDE DEF s
    <3>2. Len(s) \in {1, 2}
      <4>1. Len(s) \in Nat /\ Len(s) # 0
        BY <3>1
      <4>2. Len(s) <= 2
        BY <3>1
      <4>3. \A n \in Nat : n # 0 /\ n <= 2 => n \in {1, 2}
        OBVIOUS
      <4> QED BY <4>1, <4>2, <4>3, Zenon
    <3>3. Head(s) = s[1] /\ s[1] \in {0, 1}
      BY <3>1, <3>2
    <3>4. Tail(s) \in Seq({0, 1}) /\ Len(Tail(s)) = Len(s) - 1
      BY <3>1
    <3>5. \A i \in 1 .. Len(Tail(s)) : Tail(s)[i] = s[i + 1]
      BY <3>1, <3>2, <3>4
    <3> QED BY <3>1, <3>2, <3>3, <3>4, <3>5 DEF s
  <2>3. /\ shower' \in ThreadSteps /\ shower'.of = shown[1]
        /\ shower'.at = "flipping"
    BY <2>1, <2>2 DEF Step, ThreadSteps, PostSteps
  <2>4. Uncounted(shower) = 0 /\ Uncounted(shower') = shown[1]
        /\ Unsorted(shower) = 0 /\ Unsorted(shower') = 0
    BY <2>1, <2>3 DEF Uncounted, Unsorted
  <2>5. Queued = shown[1] + Queued'
    BY <1>3, <2>2 DEF Queued
  <2>6. generation = 0 =>
          shown[1] = 0 /\ \A i \in 1 .. Len(shown') : shown'[i] = 0
    BY <1>8, <2>2
  <2>7. Queued' \in Int
    BY <2>2 DEF Queued
  <2>8. owed' = presented + Uncounted(poster') + Uncounted(shower') + Queued'
    BY <1>3, <1>8, <1>9, <2>1, <2>2, <2>4, <2>5, <2>7
  <2>9. Len(shown') <= 2
    BY <2>2
  <2> QED BY <1>3, <1>7, <1>8, <2>1, <2>2, <2>3, <2>4, <2>6, <2>8, <2>9
<1> QED BY <1>a, <1>b, <1>c, <1>d DEF PostStep, Post

\* Whoever counts a picture takes it off what is uncounted, then off what is
\* not sorted by its kind.
LEMMA CountInv ==
  ASSUME BenchInv, PosterShows \/ RenderShows
  PROVE  BenchInv'
<1> USE DEF BenchInv
<1>1. WindowStage' /\ FramesCounted'
  BY OthersLeft DEF PosterShows, RenderShows
<1>2. UNCHANGED <<limit, clock, opened, closed, started, completed, failed,
                  collecting, measured, going, generation, mainPc,
                  core_frames, samples, outcome, shown, owed>>
  BY DEF PosterShows, RenderShows, optionVars, windowVars
<1>3. /\ poster \in ThreadSteps /\ shower \in ThreadSteps /\ owed \in Int
      /\ poster.at \in {"idle", "given"} => poster.of = 0
      /\ shower.at \in {"idle", "flipping", "counted"}
      /\ shower.at = "idle" => shower.of = 0
      /\ poster.of \in {0, 1} /\ shower.of \in {0, 1}
      /\ presented \in Int /\ direct \in Int /\ fallback \in Int
      /\ generation \in {0, 1}
  BY DEF BenchTypes, ThreadSteps
<1>4. \A thread \in {poster, shower} :
        thread.at \in {"flipping", "counted"} =>
          mainPc \notin {"report", "done"}
  BY DEF PicturesStage
<1>5. /\ owed = presented + Uncounted(poster) + Uncounted(shower) + Queued
      /\ presented = direct + fallback + Unsorted(poster) + Unsorted(shower)
      /\ generation = 0 => poster.of = 0 /\ shower.of = 0
      /\ ~started => generation = 0 /\ presented = 0 /\ direct = 0
                       /\ fallback = 0 /\ owed = 0
  BY DEF PicturesStage
<1>6. Queued' = Queued
  BY <1>2 DEF Queued
\* One thread's step: the sum of what it holds and what is counted stays.
<1>7. ASSUME NEW thread \in {poster, shower},
             NEW kind \in {"direct", "fallback"}, PictureShown(thread, kind)
      PROVE  /\ thread.at \in {"flipping", "counted"}
             /\ AfterStep(thread) \in ThreadSteps
             /\ AfterStep(thread).at \in {"counted", "idle"}
             /\ AfterStep(thread).at = "idle" => AfterStep(thread).of = 0
             /\ generation = 0 => AfterStep(thread).of = 0
             /\ presented' \in Int /\ direct' \in Int /\ fallback' \in Int
             /\ Uncounted(AfterStep(thread)) = 0
             /\ Unsorted(AfterStep(thread)) \in Int
             /\ Uncounted(thread) \in Int /\ Unsorted(thread) \in Int
             /\ presented' = presented + Uncounted(thread)
             /\ direct' + fallback' + Unsorted(AfterStep(thread))
                  = direct + fallback + Unsorted(thread) + Uncounted(thread)
             /\ ~started => presented' = 0 /\ direct' = 0 /\ fallback' = 0
  <2> DEFINE after == AfterStep(thread)
  <2>1. /\ thread \in ThreadSteps /\ thread.of \in {0, 1}
        /\ generation = 0 => thread.of = 0
        /\ ~started => thread.of = 0
    BY <1>3, <1>5
  <2>2. Ours(thread.of) <=> thread.of = 1
    BY <1>3, <2>1 DEF Ours
  <2>3. CASE thread.at = "flipping"
    <3>1. presented' = presented + thread.of /\ UNCHANGED <<direct, fallback>>
      BY <1>3, <1>7, <2>1, <2>2, <2>3 DEF PictureShown
    <3>2. after = Step("counted", thread.of)
      BY <2>1, <2>2, <2>3 DEF AfterStep
    <3>3. after \in ThreadSteps /\ after.at = "counted" /\ after.of = thread.of
      BY <2>1, <3>2 DEF Step, ThreadSteps, PostSteps
    <3>4. /\ Uncounted(thread) = thread.of /\ Unsorted(thread) = 0
          /\ Uncounted(after) = 0 /\ Unsorted(after) = thread.of
      BY <2>3, <3>3 DEF Uncounted, Unsorted
    <3> HIDE DEF after
    <3> QED BY <1>3, <1>5, <2>1, <2>3, <3>1, <3>3, <3>4 DEF after
  <2>4. CASE thread.at = "counted"
    <3>1. /\ presented' = presented
          /\ direct' \in Int /\ fallback' \in Int
          /\ direct' + fallback' = direct + fallback + thread.of
          /\ thread.of = 0 => direct' = direct /\ fallback' = fallback
      <4>1. CASE kind = "direct"
        BY <1>3, <1>7, <2>1, <2>4, <4>1 DEF PictureShown
      <4>2. CASE kind = "fallback"
        BY <1>3, <1>7, <2>1, <2>4, <4>2 DEF PictureShown
      <4> QED BY <4>1, <4>2
    <3>2. after = Step("idle", 0)
      BY <2>4 DEF AfterStep, Resting
    <3>3. after \in ThreadSteps /\ after.at = "idle" /\ after.of = 0
      BY <3>2 DEF Step, ThreadSteps, PostSteps
    <3>4. /\ Uncounted(thread) = 0 /\ Unsorted(thread) = thread.of
          /\ Uncounted(after) = 0 /\ Unsorted(after) = 0
      BY <2>4, <3>3 DEF Uncounted, Unsorted
    <3> HIDE DEF after
    <3> QED BY <1>3, <1>5, <2>1, <2>4, <3>1, <3>3, <3>4 DEF after
  <2> QED BY <1>7, <2>3, <2>4 DEF PictureShown
<1>8. CASE PosterShows
  <2>1. PictureShown(poster, "direct") /\ poster' = AfterStep(poster)
        /\ shower' = shower
    BY <1>8 DEF PosterShows
  <2>2. /\ poster.at \in {"flipping", "counted"}
        /\ AfterStep(poster) \in ThreadSteps
        /\ AfterStep(poster).at \in {"counted", "idle"}
        /\ AfterStep(poster).at = "idle" => AfterStep(poster).of = 0
        /\ generation = 0 => AfterStep(poster).of = 0
        /\ presented' \in Int /\ direct' \in Int /\ fallback' \in Int
        /\ Uncounted(AfterStep(poster)) = 0
        /\ Unsorted(AfterStep(poster)) \in Int
        /\ Uncounted(poster) \in Int /\ Unsorted(poster) \in Int
        /\ presented' = presented + Uncounted(poster)
        /\ direct' + fallback' + Unsorted(AfterStep(poster))
             = direct + fallback + Unsorted(poster) + Uncounted(poster)
        /\ ~started => presented' = 0 /\ direct' = 0 /\ fallback' = 0
    BY <1>7, <2>1
  <2>3. BenchTypes'
    <3>1. /\ poster' \in ThreadSteps /\ shower' \in ThreadSteps
          /\ poster'.at \in {"idle", "given"} => poster'.of = 0
          /\ shower'.at \in {"idle", "flipping", "counted"}
          /\ shower'.at = "idle" => shower'.of = 0
      BY <1>3, <2>1, <2>2
    <3>2. presented' \in Int /\ direct' \in Int /\ fallback' \in Int
      BY <2>2
    <3> QED BY <1>2, <3>1, <3>2 DEF BenchTypes
  <2>4. Uncounted(shower) \in Int /\ Unsorted(shower) \in Int /\ Queued \in Int
    BY <1>3, QueuedInt DEF Uncounted, Unsorted
  <2>5. owed' = presented' + Uncounted(poster') + Uncounted(shower') + Queued'
    BY <1>2, <1>3, <1>5, <1>6, <2>1, <2>2, <2>4
  <2>6. presented' =
          direct' + fallback' + Unsorted(poster') + Unsorted(shower')
    BY <1>3, <1>5, <2>1, <2>2, <2>4
  <2>7. mainPc \notin {"report", "done"}
    BY <1>4, <2>2
  <2>8. /\ poster'.at = "idle" => poster'.of = 0
        /\ generation = 0 => poster'.of = 0
        /\ ~started => presented' = 0 /\ direct' = 0 /\ fallback' = 0
    BY <2>1, <2>2
  <2>9. PicturesStage'
    <3>1. ~started => owed' = 0 /\ generation = 0
      BY <1>2, <1>5
    <3>2. generation = 0 =>
            shower.of = 0 /\ poster.of = 0
            /\ \A i \in 1 .. Len(shown) : shown[i] = 0
      BY DEF PicturesStage
    <3>3. /\ generation = 0 <=> ~started \/ mainPc = "done"
          /\ mainPc # "done" => outcome = "none"
          /\ outcome \in {"none", "invalid", "ok", "unwritten"}
      BY DEF PicturesStage
    <3> QED
      BY <1>2, <2>1, <2>5, <2>6, <2>7, <2>8, <3>1, <3>2, <3>3
         DEF PicturesStage
  <2> QED BY <1>1, <2>3, <2>9
<1>9. CASE RenderShows
  <2>1. PictureShown(shower, "fallback") /\ shower' = AfterStep(shower)
        /\ poster' = poster
    BY <1>9 DEF RenderShows
  <2>2. /\ shower.at \in {"flipping", "counted"}
        /\ AfterStep(shower) \in ThreadSteps
        /\ AfterStep(shower).at \in {"counted", "idle"}
        /\ AfterStep(shower).at = "idle" => AfterStep(shower).of = 0
        /\ generation = 0 => AfterStep(shower).of = 0
        /\ presented' \in Int /\ direct' \in Int /\ fallback' \in Int
        /\ Uncounted(AfterStep(shower)) = 0
        /\ Unsorted(AfterStep(shower)) \in Int
        /\ Uncounted(shower) \in Int /\ Unsorted(shower) \in Int
        /\ presented' = presented + Uncounted(shower)
        /\ direct' + fallback' + Unsorted(AfterStep(shower))
             = direct + fallback + Unsorted(shower) + Uncounted(shower)
        /\ ~started => presented' = 0 /\ direct' = 0 /\ fallback' = 0
    BY <1>7, <2>1
  <2>3. BenchTypes'
    <3>1. /\ poster' \in ThreadSteps /\ shower' \in ThreadSteps
          /\ poster'.at \in {"idle", "given"} => poster'.of = 0
          /\ shower'.at \in {"idle", "flipping", "counted"}
          /\ shower'.at = "idle" => shower'.of = 0
      BY <1>3, <2>1, <2>2
    <3>2. presented' \in Int /\ direct' \in Int /\ fallback' \in Int
      BY <2>2
    <3> QED BY <1>2, <3>1, <3>2 DEF BenchTypes
  <2>4. Uncounted(poster) \in Int /\ Unsorted(poster) \in Int /\ Queued \in Int
    BY <1>3, QueuedInt DEF Uncounted, Unsorted
  <2>5. owed' = presented' + Uncounted(poster') + Uncounted(shower') + Queued'
    BY <1>2, <1>3, <1>5, <1>6, <2>1, <2>2, <2>4
  <2>6. presented' =
          direct' + fallback' + Unsorted(poster') + Unsorted(shower')
    BY <1>3, <1>5, <2>1, <2>2, <2>4
  <2>7. mainPc \notin {"report", "done"}
    BY <1>4, <2>2
  <2>8. /\ shower'.at = "idle" => shower'.of = 0
        /\ generation = 0 => shower'.of = 0
        /\ ~started => presented' = 0 /\ direct' = 0 /\ fallback' = 0
    BY <2>1, <2>2
  <2>9. PicturesStage'
    <3>1. ~started => owed' = 0 /\ generation = 0
      BY <1>2, <1>5
    <3>2. generation = 0 =>
            shower.of = 0 /\ poster.of = 0
            /\ \A i \in 1 .. Len(shown) : shown[i] = 0
      BY DEF PicturesStage
    <3>3. /\ generation = 0 <=> ~started \/ mainPc = "done"
          /\ mainPc # "done" => outcome = "none"
          /\ outcome \in {"none", "invalid", "ok", "unwritten"}
      BY DEF PicturesStage
    <3> QED
      BY <1>2, <2>1, <2>5, <2>6, <2>7, <2>8, <3>1, <3>2, <3>3
         DEF PicturesStage
  <2> QED BY <1>1, <2>3, <2>9
<1> QED BY <1>8, <1>9

\* The end.
LEMMA EndInv == ASSUME BenchInv, StopVideo \/ Report PROVE BenchInv'
<1> USE DEF BenchInv, optionVars, windowVars, counterVars, showVars
<1>1. Uncounted(poster)' = Uncounted(poster)
      /\ Uncounted(shower)' = Uncounted(shower)
      /\ Unsorted(poster)' = Unsorted(poster)
      /\ Unsorted(shower)' = Unsorted(shower) /\ Queued' = Queued
  BY DEF StopVideo, Report, Uncounted, Unsorted, Queued
<1>2. CASE StopVideo
  <2>1. BenchTypes' /\ WindowStage' /\ FramesCounted'
    BY <1>2 DEF StopVideo, BenchTypes, WindowStage, FramesCounted
  <2>2. PicturesStage'
    BY <1>1, <1>2 DEF StopVideo, PresenterDrained, PicturesStage
  <2> QED BY <2>1, <2>2
<1>3. CASE Report
  <2>1. BenchTypes' /\ WindowStage' /\ FramesCounted'
    BY <1>3 DEF Report, BenchTypes, WindowStage, FramesCounted
  <2>2. poster.at = "idle" /\ shower.at = "idle" /\ shown = << >>
    BY <1>3 DEF Report, PicturesStage
  <2>3. /\ Uncounted(poster) = 0 /\ Uncounted(shower) = 0 /\ Queued = 0
        /\ Unsorted(poster) = 0 /\ Unsorted(shower) = 0
    BY <2>2 DEF Uncounted, Unsorted, Queued
  <2>4. presented = direct + fallback /\ presented = owed
    BY <2>3 DEF PicturesStage, BenchTypes
  <2>5. /\ outcome' \in {"invalid", "ok", "unwritten"}
        /\ outcome' \in {"ok", "unwritten"} => completed
    BY <1>3, <2>4 DEF Report, Valid
  <2>6. poster.of = 0 /\ shower.of = 0
    BY <1>3, <2>2 DEF BenchTypes, PicturesStage, ThreadSteps
  <2>7. UNCHANGED <<started, completed, presented, direct, fallback, owed,
                    poster, shower, shown>>
        /\ generation' = 0 /\ mainPc' = "done" /\ mainPc = "report"
    BY <1>3 DEF Report
  <2>8. PicturesStage'
    BY <1>1, <2>2, <2>4, <2>5, <2>6, <2>7 DEF PicturesStage
  <2> QED BY <2>1, <2>8
<1> QED BY <1>2, <1>3

LEMMA BenchInvNext == BenchInv /\ [BenchNext]_benchVars => BenchInv'
<1> SUFFICES ASSUME BenchInv, [BenchNext]_benchVars PROVE BenchInv'
  OBVIOUS
<1>1. CASE Tick \/ UNCHANGED benchVars
  <2>1. /\ UNCHANGED <<optionVars, windowVars, failed, mainPc, going, measured,
                       counterVars, showVars, outcome>>
        /\ clock' \in Nat
    BY <1>1 DEF Tick, benchVars, BenchInv, BenchTypes
  <2> QED
    BY <2>1
       DEF BenchInv, BenchTypes, WindowStage, FramesCounted, PicturesStage,
           Uncounted, Unsorted, Queued, optionVars, windowVars, counterVars,
           showVars
<1> QED
  BY <1>1, TopInv, LoopInv, PostInv, CountInv, EndInv DEF BenchNext

\* The report is about the window that was asked for.
THEOREM ReportHolds == BenchSpec => []ReportTrue
<1>1. BenchInv => ReportTrue
  BY DEF BenchInv, BenchTypes, WindowStage, FramesCounted, PicturesStage,
         ReportTrue, PicturesCounted, WindowKept, ConfirmPressed
<1> QED BY <1>1, BenchInvInit, BenchInvNext, PTL DEF BenchSpec

-----------------------------------------------------------------------------
(* The picture of the SDL2 platform.                                       *)

SdlShapes == {1, 2} \X {"RGB565", "RGB888", "RGBA8888"}
SdlSurfaces ==
  [generation : Nat \ {0}, shape : SdlShapes, contents : Contents]
SdlTextures ==
  [made : {TRUE}, shape : SdlShapes, generation : Nat, contents : Contents,
   blend : {"blend", "none"}]
SdlOverlays ==
  [surface : Addresses, generation : Nat, shape : SdlShapes,
   contents : Contents]
NoOverlay == [surface |-> NoAddress]
SdlFilters == {"linear", "nearest"}
SdlContexts ==
  [made : {TRUE}, fbo : BOOLEAN, works : BOOLEAN, program : BOOLEAN,
   failed : BOOLEAN, overlay : SdlOverlays \cup {NoOverlay},
   filter : SdlFilters, post_texture_filter : SdlFilters \cup {"unknown"}]

PixTypes ==
  /\ heap \in [Addresses -> SdlSurfaces \cup {NoSurface}]
  /\ slotOf \in [SdlSlots -> Addresses \cup {NoAddress}]
  /\ next_surface_generation \in Nat \ {0}
  /\ textures \in [Addresses -> SdlTextures \cup {NoTexture}]
  /\ shownBy = "context" => context \in SdlContexts
  /\ video_filter \in SdlFilters /\ video_shader \in {"off", "crt"}
  /\ vsync_enabled \in BOOLEAN /\ vsync_applied \in BOOLEAN
  /\ interval \in BOOLEAN

\* Each slot's surface is at an address of its own, with a shape the slot may
\* have, and older than the counter.
SlotsPlaced ==
  \A s \in SdlSlots :
    SlotMade(s) => /\ SurfaceIn(s) \in SdlSurfaces
                   /\ SurfaceIn(s).shape \in ShapeFor(s)
SlotsApart ==
  \A s, t \in SdlSlots : SlotMade(s) /\ slotOf[s] = slotOf[t] => s = t
GenerationsPast ==
  \A a \in Addresses : heap[a].generation < next_surface_generation

\* What was uploaded from an address has the contents that are there, unless
\* they are of another generation.
CopyTrue(copy, a) ==
  /\ copy.generation < next_surface_generation
  /\ heap[a] # NoSurface /\ copy.generation = heap[a].generation
       => copy.contents = heap[a].contents
TexturesTrue(ts) ==
  \A a \in Addresses :
    ts[a].made => /\ CopyTrue(ts[a], a)
                  /\ ts[a].blend = Blending(ts[a].shape)
ContextTrue(ctx) ==
  /\ ctx.overlay # NoOverlay => CopyTrue(ctx.overlay, ctx.overlay.surface)
  /\ ctx.post_texture_filter \in {"unknown", ctx.filter}

PixInv ==
  /\ PixTypes /\ SlotsPlaced /\ SlotsApart /\ GenerationsPast
  /\ TexturesTrue(textures)
  /\ shownBy = "context" => ContextTrue(context)
  /\ WindowTrue

LEMMA SdlInit == SdlVideoInit => PixInv
<1> SUFFICES ASSUME SdlVideoInit PROVE PixInv
  OBVIOUS
<1>1. NoSurface.generation = 0 /\ ~NoTexture.made
  BY DEF NoSurface, NoTexture
<1>2. PixTypes
  <2>1. /\ heap \in [Addresses -> SdlSurfaces \cup {NoSurface}]
        /\ slotOf \in [SdlSlots -> Addresses \cup {NoAddress}]
        /\ textures \in [Addresses -> SdlTextures \cup {NoTexture}]
    BY Zenon DEF SdlVideoInit
  <2>2. next_surface_generation \in Nat \ {0} /\ shownBy # "context"
    BY DEF SdlVideoInit
  <2>3. /\ video_filter \in SdlFilters /\ video_shader \in {"off", "crt"}
        /\ vsync_applied \in BOOLEAN /\ vsync_enabled \in BOOLEAN
        /\ interval \in BOOLEAN
    BY DEF SdlVideoInit, SdlFilters
  <2> QED BY <2>1, <2>2, <2>3 DEF PixTypes
<1>3. SlotsPlaced /\ SlotsApart
  BY DEF SdlVideoInit, SlotsPlaced, SlotsApart, SlotMade
<1>4. GenerationsPast /\ TexturesTrue(textures)
  BY <1>1 DEF SdlVideoInit, GenerationsPast, TexturesTrue
<1> QED BY <1>2, <1>3, <1>4 DEF PixInv, SdlVideoInit, WindowTrue, DeviceOpen

\* The shapes of a slot are some, and of the slots that are drawn over others
\* one.
LEMMA SlotShapes ==
  ASSUME NEW slot \in SdlSlots
  PROVE  /\ ShapeFor(slot) \subseteq SdlShapes
         /\ (CHOOSE s \in ShapeFor(slot) : TRUE) \in ShapeFor(slot)
         /\ \A s \in ShapeFor(slot) :
              Blending(s) = IF slot \in {"decoration", "corner"}
                            THEN "blend" ELSE "none"
<1>1. /\ ShapeFor("base") = {1, 2} \X {"RGB565"}
      /\ ShapeFor("full") = {1, 2} \X {"RGB565"}
      /\ ShapeFor("background") = { <<1, "RGB888">> }
      /\ ShapeFor("decoration") = { <<1, "RGBA8888">> }
      /\ ShapeFor("corner") = { <<1, "RGBA8888">> }
  BY DEF ShapeFor
<1>2. slot \in {"base", "full", "background", "decoration", "corner"}
  BY DEF SdlSlots
<1>3. \E s : s \in ShapeFor(slot)
  <2>1. <<1, "RGB565">> \in {1, 2} \X {"RGB565"}
    OBVIOUS
  <2> QED BY <1>1, <1>2, <2>1
<1>4. ShapeFor(slot) \subseteq SdlShapes
  BY <1>1, <1>2 DEF SdlShapes
<1>5. ASSUME NEW s \in ShapeFor(slot)
      PROVE  Blending(s) = IF slot \in {"decoration", "corner"}
                           THEN "blend" ELSE "none"
  BY <1>1, <1>2 DEF Blending
<1> QED BY <1>3, <1>4, <1>5

\* A surface that is none has no generation.
LEMMA SurfaceIsSome ==
  ASSUME NEW surface \in SdlSurfaces
  PROVE  surface # NoSurface /\ surface.generation # 0
  <1>1. NoSurface.generation = 0
    BY DEF NoSurface
  <1> QED BY <1>1 DEF SdlSurfaces

\* What a surface made or drawn in anew does to the rest: its generation is
\* new, so that no texture stands for it.
LEMMA NewSurface ==
  ASSUME PixInv, NEW freed \in [Addresses -> SdlSurfaces \cup {NoSurface}],
         \A a \in Addresses : freed[a] \in {heap[a], NoSurface},
         NEW where \in SUBSET Addresses,
         heap' \in [Addresses -> SdlSurfaces \cup {NoSurface}],
         \A a \in Addresses \ where : heap'[a] = freed[a],
         \A a \in where :
           /\ heap'[a].generation >= next_surface_generation
           /\ heap'[a].generation < next_surface_generation',
         next_surface_generation' \in Nat \ {0},
         next_surface_generation' >= next_surface_generation,
         textures' = textures, context' = context, shownBy' = shownBy
  PROVE  /\ GenerationsPast' /\ TexturesTrue(textures)'
         /\ (shownBy = "context" => ContextTrue(context))'
<1>1. ASSUME NEW copy, copy.generation \in Nat, NEW a \in Addresses,
             CopyTrue(copy, a)
      PROVE  CopyTrue(copy, a)'
  <2>1. CASE a \in where
    BY <1>1, <2>1 DEF CopyTrue, PixInv, PixTypes
  <2>2. CASE a \notin where
    BY <1>1, <2>2 DEF CopyTrue, PixInv, PixTypes
  <2> QED BY <2>1, <2>2
<1>2. GenerationsPast'
  <2>1. NoSurface.generation = 0
    BY DEF NoSurface
  <2> SUFFICES ASSUME NEW a \in Addresses
               PROVE  heap'[a].generation < next_surface_generation'
    BY DEF GenerationsPast
  <2>2. CASE a \in where
    BY <2>2
  <2>3. CASE a \notin where /\ freed[a] = NoSurface
    BY <2>1, <2>3
  <2>4. CASE a \notin where /\ freed[a] = heap[a] /\ heap[a] # NoSurface
    BY <2>4 DEF PixInv, PixTypes, GenerationsPast, SdlSurfaces
  <2> QED BY <2>2, <2>3, <2>4
<1>3. TexturesTrue(textures)'
  <2> SUFFICES ASSUME NEW a \in Addresses, textures[a].made
               PROVE  /\ CopyTrue(textures[a], a)'
                      /\ textures[a].blend = Blending(textures[a].shape)
    BY DEF TexturesTrue
  <2>1. textures[a] # NoTexture
    BY DEF NoTexture
  <2>2. textures[a] \in SdlTextures
    BY <2>1 DEF PixInv, PixTypes
  <2>3. textures[a].generation \in Nat
    BY <2>2 DEF SdlTextures
  <2>4. /\ CopyTrue(textures[a], a)
        /\ textures[a].blend = Blending(textures[a].shape)
    BY DEF PixInv, TexturesTrue
  <2> QED BY <1>1, <2>3, <2>4
<1>4. ASSUME shownBy = "context" PROVE ContextTrue(context)'
  <2>1. context \in SdlContexts /\ ContextTrue(context)
    BY <1>4 DEF PixInv, PixTypes
  <2>2. ASSUME context.overlay # NoOverlay
        PROVE  CopyTrue(context.overlay, context.overlay.surface)'
    <3>1. context.overlay \in SdlOverlays
      BY <2>1, <2>2 DEF SdlContexts
    <3>2. context.overlay.generation \in Nat
          /\ context.overlay.surface \in Addresses
      BY <3>1 DEF SdlOverlays
    <3>3. CopyTrue(context.overlay, context.overlay.surface)
      BY <2>1, <2>2 DEF ContextTrue
    <3> QED BY <1>1, <3>2, <3>3
  <2> QED BY <2>1, <2>2 DEF ContextTrue
<1> QED BY <1>2, <1>3, <1>4

\* Which surfaces go with some slots.
LEMMA DestroyedIs ==
  ASSUME PixInv, NEW slots \in SUBSET SdlSlots
  PROVE  /\ Destroyed(slots) \in [Addresses -> SdlSurfaces \cup {NoSurface}]
         /\ \A a \in Addresses : Destroyed(slots)[a] \in {heap[a], NoSurface}
         /\ \A t \in SdlSlots \ slots :
              SlotMade(t) => Destroyed(slots)[slotOf[t]] = heap[slotOf[t]]
  <1>1. /\ heap \in [Addresses -> SdlSurfaces \cup {NoSurface}]
        /\ slotOf \in [SdlSlots -> Addresses \cup {NoAddress}]
    BY DEF PixInv, PixTypes
  <1>2. /\ Destroyed(slots) \in [Addresses -> SdlSurfaces \cup {NoSurface}]
        /\ \A a \in Addresses : Destroyed(slots)[a] \in {heap[a], NoSurface}
    BY <1>1 DEF Destroyed
  <1>3. ASSUME NEW t \in SdlSlots \ slots, SlotMade(t)
        PROVE  Destroyed(slots)[slotOf[t]] = heap[slotOf[t]]
    <2>1. slotOf[t] \in Addresses
      BY <1>1, <1>3 DEF SlotMade
    <2>2. \A s \in slots : slotOf[s] # slotOf[t]
      BY <1>3 DEF PixInv, SlotsApart
    <2> QED BY <2>1, <2>2 DEF Destroyed
  <1> QED BY <1>2, <1>3

\* What leaves the window and its synchronization as they are.
LEMMA WindowStays ==
  ASSUME PixInv, UNCHANGED <<shownBy, vsyncVars, sdlWindowVars>>
  PROVE  WindowTrue'
  BY DEF PixInv, WindowTrue, DeviceOpen, vsyncVars, sdlWindowVars

LEMMA ReplaceSurfaceStep == PixInv /\ ReplaceSurface => PixInv'
<1> SUFFICES ASSUME PixInv, ReplaceSurface PROVE PixInv'
  OBVIOUS
<1>0. PICK slot \in {"base", "full", "corner"} :
        \E shape \in ShapeFor(slot), a \in Free(Destroyed({slot})) :
          Created(Destroyed({slot}), a, slot, shape, next_surface_generation)
  BY DEF ReplaceSurface
<1>1. PICK shape \in ShapeFor(slot), a \in Free(Destroyed({slot})) :
        Created(Destroyed({slot}), a, slot, shape, next_surface_generation)
  BY <1>0
<1> DEFINE freed == Destroyed({slot})
           made == [generation |-> next_surface_generation, shape |-> shape,
                    contents |-> Unpainted]
<1>2. /\ slot \in SdlSlots /\ shape \in SdlShapes /\ a \in Addresses
      /\ freed[a] = NoSurface
  BY SlotShapes DEF SdlSlots, Free
<1>3. /\ freed \in [Addresses -> SdlSurfaces \cup {NoSurface}]
      /\ \A b \in Addresses : freed[b] \in {heap[b], NoSurface}
      /\ \A t \in SdlSlots \ {slot} :
           SlotMade(t) => freed[slotOf[t]] = heap[slotOf[t]]
  BY <1>2, DestroyedIs
<1>4. /\ heap' = [freed EXCEPT ![a] = made]
      /\ slotOf' = [slotOf EXCEPT ![slot] = a]
  BY <1>1 DEF Created
<1>5. made \in SdlSurfaces /\ made.generation = next_surface_generation
  BY <1>2, SdlVideoAssumption DEF PixInv, PixTypes, SdlSurfaces
<1>6. /\ next_surface_generation' = next_surface_generation + 1
      /\ next_surface_generation \in Nat \ {0}
      /\ UNCHANGED <<shownBy, cacheVars, sdlFilterVars, vsyncVars,
                     sdlWindowVars>>
  BY DEF ReplaceSurface, PixInv, PixTypes
<1> HIDE DEF freed, made
<1>7. /\ heap' \in [Addresses -> SdlSurfaces \cup {NoSurface}]
      /\ heap'[a] = made
      /\ \A b \in Addresses \ {a} : heap'[b] = freed[b]
  BY <1>2, <1>3, <1>4, <1>5
<1>8. /\ slotOf' \in [SdlSlots -> Addresses \cup {NoAddress}]
      /\ slotOf'[slot] = a
      /\ \A t \in SdlSlots \ {slot} : slotOf'[t] = slotOf[t]
  BY <1>2, <1>4 DEF PixInv, PixTypes
<1>9. PixTypes'
  BY <1>6, <1>7, <1>8
     DEF PixInv, PixTypes, cacheVars, sdlFilterVars, vsyncVars
<1>10. GenerationsPast' /\ TexturesTrue(textures)'
       /\ (shownBy = "context" => ContextTrue(context))'
  <2> DEFINE where == {a}
  <2>1. /\ where \in SUBSET Addresses
        /\ \A b \in Addresses \ where : heap'[b] = freed[b]
        /\ \A b \in where : /\ heap'[b].generation >= next_surface_generation
                            /\ heap'[b].generation < next_surface_generation'
    BY <1>2, <1>5, <1>6, <1>7
  <2>2. /\ next_surface_generation' \in Nat \ {0}
        /\ next_surface_generation' >= next_surface_generation
        /\ textures' = textures /\ context' = context /\ shownBy' = shownBy
    BY <1>6 DEF cacheVars
  <2> HIDE DEF where
  <2> QED BY <1>3, <1>7, <2>1, <2>2, NewSurface
<1>11. ASSUME NEW t \in SdlSlots \ {slot}, SlotMade(t)
       PROVE  /\ slotOf[t] # a /\ heap'[slotOf[t]] = heap[slotOf[t]]
              /\ slotOf[t] \in Addresses
  <2>1. SurfaceIn(t) \in SdlSurfaces
    BY <1>11 DEF PixInv, SlotsPlaced
  <2>2. heap[slotOf[t]] # NoSurface
    BY <2>1, SurfaceIsSome DEF SurfaceIn
  <2>3. slotOf[t] \in Addresses
    BY <1>11 DEF PixInv, PixTypes, SlotMade
  <2> QED BY <1>2, <1>3, <1>7, <1>11, <2>2, <2>3
<1>12. SlotsPlaced'
  <2> SUFFICES ASSUME NEW t \in SdlSlots, SlotMade(t)'
               PROVE  SurfaceIn(t)' \in SdlSurfaces
                      /\ SurfaceIn(t)'.shape \in ShapeFor(t)
    BY DEF SlotsPlaced
  <2>1. CASE t = slot
    <3>1. SurfaceIn(t)' = made
      BY <1>7, <1>8, <2>1 DEF SurfaceIn
    <3>2. made.shape = shape
      BY DEF made
    <3> QED BY <1>1, <1>5, <2>1, <3>1, <3>2
  <2>2. CASE t # slot
    <3>1. SlotMade(t)
      BY <1>8, <2>2 DEF SlotMade
    <3>2. SurfaceIn(t)' = SurfaceIn(t)
      BY <1>8, <1>11, <2>2, <3>1 DEF SurfaceIn
    <3> QED BY <3>1, <3>2 DEF PixInv, SlotsPlaced
  <2> QED BY <2>1, <2>2
<1>13. SlotsApart'
  BY <1>2, <1>8, <1>11 DEF PixInv, SlotsApart, SlotMade
<1> QED BY <1>6, <1>9, <1>10, <1>12, <1>13, WindowStays DEF PixInv

LEMMA ReplaceDecorationStep == PixInv /\ ReplaceDecoration => PixInv'
<1> SUFFICES ASSUME PixInv, ReplaceDecoration PROVE PixInv'
  OBVIOUS
<1> DEFINE g == next_surface_generation
           ShapeOf(slot) == CHOOSE s \in ShapeFor(slot) : TRUE
           freed == Destroyed(Pair)
<1>1. PICK c \in Contents, a \in Free(heap), b \in Free(heap) :
        /\ a # b
        /\ heap' = [freed EXCEPT
                      ![a] = [generation |-> g + 2, contents |-> c,
                              shape |-> ShapeOf("decoration")],
                      ![b] = [generation |-> g + 3, contents |-> c,
                              shape |-> ShapeOf("background")]]
        /\ slotOf' = [slotOf EXCEPT !["decoration"] = a, !["background"] = b]
  BY DEF ReplaceDecoration
<1>2. /\ {"decoration", "background"} \subseteq SdlSlots
      /\ Pair = {"decoration", "background"}
  BY DEF SdlSlots, Pair
<1>3. a \in Addresses /\ b \in Addresses /\ heap[a] = NoSurface
      /\ heap[b] = NoSurface
  BY DEF Free
<1>4. /\ freed \in [Addresses -> SdlSurfaces \cup {NoSurface}]
      /\ \A d \in Addresses : freed[d] \in {heap[d], NoSurface}
      /\ \A t \in SdlSlots \ Pair :
           SlotMade(t) => freed[slotOf[t]] = heap[slotOf[t]]
  BY <1>2, DestroyedIs
<1>5. /\ ShapeOf("decoration") \in ShapeFor("decoration")
      /\ ShapeOf("background") \in ShapeFor("background")
      /\ ShapeOf("decoration") \in SdlShapes
      /\ ShapeOf("background") \in SdlShapes
  BY <1>2, SlotShapes
<1>6. /\ next_surface_generation' = g + 4 /\ g \in Nat \ {0}
      /\ UNCHANGED <<shownBy, cacheVars, sdlFilterVars, vsyncVars,
                     sdlWindowVars>>
  BY DEF ReplaceDecoration, PixInv, PixTypes
<1>7. /\ heap'[a] \in SdlSurfaces /\ heap'[b] \in SdlSurfaces
      /\ heap'[a].generation = g + 2 /\ heap'[b].generation = g + 3
      /\ heap'[a].shape \in ShapeFor("decoration")
      /\ heap'[b].shape \in ShapeFor("background")
  <2> HIDE DEF ShapeOf, freed
  <2>1. /\ heap'[a] = [generation |-> g + 2, contents |-> c,
                       shape |-> ShapeOf("decoration")]
        /\ heap'[b] = [generation |-> g + 3, contents |-> c,
                       shape |-> ShapeOf("background")]
    BY <1>1, <1>3, <1>4
  <2> QED BY <1>5, <1>6, <2>1 DEF SdlSurfaces
<1> HIDE DEF ShapeOf, freed, g
<1>8. /\ heap' \in [Addresses -> SdlSurfaces \cup {NoSurface}]
      /\ \A d \in Addresses \ {a, b} : heap'[d] = freed[d]
  <2>1. /\ DOMAIN heap' = Addresses
        /\ heap' = [d \in Addresses |-> heap'[d]]
        /\ \A d \in Addresses \ {a, b} : heap'[d] = freed[d]
    BY <1>1, <1>3, <1>4
  <2> QED BY <1>4, <1>7, <2>1
<1>9. /\ slotOf' \in [SdlSlots -> Addresses \cup {NoAddress}]
      /\ slotOf'["decoration"] = a /\ slotOf'["background"] = b
      /\ \A t \in SdlSlots \ Pair : slotOf'[t] = slotOf[t]
  BY <1>1, <1>2, <1>3 DEF PixInv, PixTypes
<1>10. PixTypes'
  BY <1>6, <1>8, <1>9
     DEF PixInv, PixTypes, cacheVars, sdlFilterVars, vsyncVars, g
<1>11. GenerationsPast' /\ TexturesTrue(textures)'
       /\ (shownBy = "context" => ContextTrue(context))'
  <2> DEFINE where == {a, b}
  <2>1. /\ where \in SUBSET Addresses
        /\ \A d \in Addresses \ where : heap'[d] = freed[d]
        /\ \A d \in where : /\ heap'[d].generation >= next_surface_generation
                            /\ heap'[d].generation < next_surface_generation'
    BY <1>3, <1>6, <1>7, <1>8 DEF g
  <2>2. /\ next_surface_generation' \in Nat \ {0}
        /\ next_surface_generation' >= next_surface_generation
        /\ textures' = textures /\ context' = context /\ shownBy' = shownBy
    BY <1>6 DEF cacheVars, g
  <2> HIDE DEF where
  <2> QED BY <1>4, <1>8, <2>1, <2>2, NewSurface
<1>12. ASSUME NEW t \in SdlSlots \ Pair, SlotMade(t)
       PROVE  /\ slotOf[t] # a /\ slotOf[t] # b
              /\ heap'[slotOf[t]] = heap[slotOf[t]]
              /\ slotOf[t] \in Addresses
  <2>1. SurfaceIn(t) \in SdlSurfaces
    BY <1>12 DEF PixInv, SlotsPlaced
  <2>2. heap[slotOf[t]] # NoSurface
    BY <2>1, SurfaceIsSome DEF SurfaceIn
  <2>3. slotOf[t] \in Addresses
    BY <1>12 DEF PixInv, PixTypes, SlotMade
  <2> QED BY <1>3, <1>4, <1>8, <1>12, <2>2, <2>3
<1>13. SlotsPlaced'
  <2> SUFFICES ASSUME NEW t \in SdlSlots, SlotMade(t)'
               PROVE  SurfaceIn(t)' \in SdlSurfaces
                      /\ SurfaceIn(t)'.shape \in ShapeFor(t)
    BY DEF SlotsPlaced
  <2>1. CASE t \in Pair
    BY <1>2, <1>7, <1>9, <2>1 DEF SurfaceIn
  <2>2. CASE t \notin Pair
    <3>1. SlotMade(t)
      BY <1>9, <2>2 DEF SlotMade
    <3>2. SurfaceIn(t)' = SurfaceIn(t)
      BY <1>9, <1>12, <2>2, <3>1 DEF SurfaceIn
    <3> QED BY <3>1, <3>2 DEF PixInv, SlotsPlaced
  <2> QED BY <2>1, <2>2
<1>14. SlotsApart'
  BY <1>1, <1>2, <1>9, <1>12 DEF PixInv, SlotsApart, SlotMade
<1> QED BY <1>6, <1>10, <1>11, <1>13, <1>14, WindowStays DEF PixInv

LEMMA RemoveDecorationStep == PixInv /\ RemoveDecoration => PixInv'
<1> SUFFICES ASSUME PixInv, RemoveDecoration PROVE PixInv'
  OBVIOUS
<1>1. /\ heap' = Destroyed(Pair)
      /\ slotOf' = [s \in SdlSlots |->
                      IF s \in Pair THEN NoAddress ELSE slotOf[s]]
      /\ UNCHANGED <<next_surface_generation, shownBy, cacheVars,
                     sdlFilterVars, vsyncVars, sdlWindowVars>>
  BY DEF RemoveDecoration
<1>2. Pair \in SUBSET SdlSlots
  BY DEF SdlSlots, Pair
<1>3. /\ heap' \in [Addresses -> SdlSurfaces \cup {NoSurface}]
      /\ \A d \in Addresses : heap'[d] \in {heap[d], NoSurface}
      /\ \A t \in SdlSlots \ Pair :
           SlotMade(t) => heap'[slotOf[t]] = heap[slotOf[t]]
  BY <1>1, <1>2, DestroyedIs
<1>4. PixTypes'
  BY <1>1, <1>3 DEF PixInv, PixTypes, cacheVars, sdlFilterVars, vsyncVars
<1>5. GenerationsPast' /\ TexturesTrue(textures)'
      /\ (shownBy = "context" => ContextTrue(context))'
  <2> DEFINE freed == heap'
             where == {}
  <2>1. /\ freed \in [Addresses -> SdlSurfaces \cup {NoSurface}]
        /\ \A d \in Addresses : freed[d] \in {heap[d], NoSurface}
        /\ \A d \in Addresses \ where : heap'[d] = freed[d]
        /\ where \in SUBSET Addresses
        /\ \A d \in where : /\ heap'[d].generation >= next_surface_generation
                            /\ heap'[d].generation < next_surface_generation'
    BY <1>3
  <2>2. /\ next_surface_generation' \in Nat \ {0}
        /\ next_surface_generation' >= next_surface_generation
        /\ textures' = textures /\ context' = context /\ shownBy' = shownBy
    BY <1>1 DEF cacheVars, PixInv, PixTypes
  <2> HIDE DEF where, freed
  <2> QED BY <1>3, <2>1, <2>2, NewSurface
<1>6. SlotsPlaced'
  BY <1>1, <1>3 DEF PixInv, SlotsPlaced, SlotMade, SurfaceIn
<1>7. SlotsApart'
  BY <1>1 DEF PixInv, SlotsApart, SlotMade
<1> QED BY <1>1, <1>4, <1>5, <1>6, <1>7, WindowStays DEF PixInv

LEMMA DrawInStep ==
  ASSUME PixInv, NEW slot \in SdlSlots, DrawIn(slot) PROVE PixInv'
<1> DEFINE a == slotOf[slot]
<1>1. PICK c \in Contents :
        heap' = [heap EXCEPT ![a] =
                   [Mapped(SurfaceIn(slot)) EXCEPT !.contents = c]]
  BY DEF DrawIn
<1>2. /\ a \in Addresses /\ heap[a] \in SdlSurfaces
      /\ heap[a].shape \in ShapeFor(slot)
  BY DEF DrawIn, SlotMade, PixInv, PixTypes, SlotsPlaced, SurfaceIn
<1>3. /\ next_surface_generation' = next_surface_generation + 1
      /\ next_surface_generation \in Nat \ {0}
      /\ UNCHANGED <<slotOf, shownBy, cacheVars, sdlFilterVars, vsyncVars,
                     sdlWindowVars>>
  BY DEF DrawIn, PixInv, PixTypes
<1>4. /\ heap'[a] \in SdlSurfaces
      /\ heap'[a].generation = next_surface_generation
      /\ heap'[a].shape = heap[a].shape
      /\ \A d \in Addresses \ {a} : heap'[d] = heap[d]
      /\ heap' \in [Addresses -> SdlSurfaces \cup {NoSurface}]
  <2> DEFINE new == [Mapped(SurfaceIn(slot)) EXCEPT !.contents = c]
  <2>1. /\ new \in SdlSurfaces /\ new.generation = next_surface_generation
        /\ new.shape = heap[a].shape
    BY <1>2, <1>3 DEF Mapped, SurfaceIn, SdlSurfaces
  <2> HIDE DEF new
  <2> QED BY <1>1, <1>2, <2>1 DEF PixInv, PixTypes, new
<1> HIDE DEF a
<1>5. PixTypes'
  BY <1>3, <1>4 DEF PixInv, PixTypes, cacheVars, sdlFilterVars, vsyncVars
<1>6. GenerationsPast' /\ TexturesTrue(textures)'
      /\ (shownBy = "context" => ContextTrue(context))'
  <2> DEFINE freed == heap
             where == {a}
  <2>1. /\ freed \in [Addresses -> SdlSurfaces \cup {NoSurface}]
        /\ \A d \in Addresses : freed[d] \in {heap[d], NoSurface}
        /\ \A d \in Addresses \ where : heap'[d] = freed[d]
        /\ where \in SUBSET Addresses
        /\ \A d \in where : /\ heap'[d].generation >= next_surface_generation
                            /\ heap'[d].generation < next_surface_generation'
    BY <1>2, <1>3, <1>4 DEF PixInv, PixTypes
  <2>2. /\ next_surface_generation' \in Nat \ {0}
        /\ next_surface_generation' >= next_surface_generation
        /\ textures' = textures /\ context' = context /\ shownBy' = shownBy
    BY <1>3 DEF cacheVars
  <2> HIDE DEF where, freed
  <2> QED BY <1>4, <2>1, <2>2, NewSurface
<1>7. SlotsPlaced'
  <2> SUFFICES ASSUME NEW t \in SdlSlots, SlotMade(t)'
               PROVE  SurfaceIn(t)' \in SdlSurfaces
                      /\ SurfaceIn(t)'.shape \in ShapeFor(t)
    BY DEF SlotsPlaced
  <2>1. /\ SlotMade(t) /\ slotOf[t] \in Addresses
        /\ SurfaceIn(t) \in SdlSurfaces /\ SurfaceIn(t).shape \in ShapeFor(t)
    BY <1>3 DEF PixInv, PixTypes, SlotsPlaced, SlotMade
  <2> QED BY <1>3, <1>4, <2>1 DEF SurfaceIn
<1>8. SlotsApart'
  BY <1>3 DEF PixInv, SlotsApart, SlotMade
<1> QED BY <1>3, <1>5, <1>6, <1>7, <1>8, WindowStays DEF PixInv

-----------------------------------------------------------------------------
(* What a present draws.                                                   *)

SdlSeen ==
  [what : SdlSlots \cup {"game"}, current : BOOLEAN,
   mode : Opacities \X {"blend", "none"}]
PresentSteps ==
  [textures : [Addresses -> SdlTextures \cup {NoTexture}],
   seen : Seq(SdlSeen)]
PresentTrue(step) ==
  step \in PresentSteps /\ TexturesTrue(step.textures) /\ AllTrue(step.seen)

LEMMA SeenAppended ==
  ASSUME NEW seen \in Seq(SdlSeen), AllTrue(seen), NEW p \in SdlSeen,
         SeenTrue(p)
  PROVE  Append(seen, p) \in Seq(SdlSeen) /\ AllTrue(Append(seen, p))
  BY DEF AllTrue

\* What is seenNow of a surface, with the contents it has.
LEMMA ShownTrue ==
  ASSUME PixInv, NEW slot \in SdlSlots, SlotMade(slot),
         NEW opacity \in Opacities, opacity = Opaque \/ slot = "full"
  PROVE  LET seenNow == Shows(slot, SurfaceIn(slot).contents,
                            <<opacity, IF opacity = Opaque
                                       THEN Blending(SurfaceIn(slot).shape)
                                       ELSE "blend">>)
         IN seenNow \in SdlSeen /\ SeenTrue(seenNow)
<1> DEFINE blend == IF opacity = Opaque THEN Blending(SurfaceIn(slot).shape)
                    ELSE "blend"
           seenNow == Shows(slot, SurfaceIn(slot).contents, <<opacity, blend>>)
<1>1. SurfaceIn(slot).shape \in ShapeFor(slot)
  BY DEF PixInv, SlotsPlaced
<1>2. Blending(SurfaceIn(slot).shape) =
        IF slot \in {"decoration", "corner"} THEN "blend" ELSE "none"
  BY <1>1, SlotShapes
<1>3. /\ blend \in {"blend", "none"}
      /\ blend = IF slot \in {"decoration", "corner"} \/ opacity = "half"
                 THEN "blend" ELSE "none"
  BY <1>2 DEF Opacities, Opaque
<1> HIDE DEF blend
<1>4. /\ seenNow.what = slot /\ seenNow.current = TRUE
      /\ seenNow.mode = <<opacity, blend>>
  BY DEF Shows
<1>5. seenNow \in SdlSeen
  BY <1>3 DEF SdlSeen, Shows
<1>6. SeenTrue(seenNow)
  BY <1>3, <1>4 DEF SeenTrue
<1> QED BY <1>5, <1>6 DEF blend

LEMMA RenderTrue ==
  ASSUME PixInv, NEW step, PresentTrue(step), NEW slot \in SdlSlots,
         NEW opacity \in Opacities, opacity = Opaque \/ slot = "full",
         NEW fails
  PROVE  PresentTrue(render_surface(step, slot, opacity, fails))
<1> DEFINE a == slotOf[slot]
           entry == EntryFor(step.textures, a)
           uploaded == Uploaded(entry, heap[a])
           left == [uploaded EXCEPT !.blend = Blending(entry.shape)]
           seenNow == Shows(slot, uploaded.contents,
                          <<opacity, IF opacity = Opaque THEN uploaded.blend
                                     ELSE "blend">>)
<1> DEFINE unmade == fails = <<slot, "texture">> /\ entry # step.textures[a]
           unwritten == fails = <<slot, "upload">>
                          /\ entry.generation # heap[a].generation
<1>1. render_surface(step, slot, opacity, fails) =
        IF ~SlotMade(slot) THEN step
        ELSE IF unmade THEN TextureLeft(step, a, NoTexture)
        ELSE IF unwritten THEN TextureLeft(step, a, entry)
        ELSE Rendered(step, slot, entry, opacity)
  BY DEF render_surface
<1>2. Rendered(step, slot, entry, opacity)
        = [textures |-> [step.textures EXCEPT ![a] = left],
           seen |-> Append(step.seen, seenNow)]
  BY DEF Rendered
<1> HIDE DEF unmade, unwritten
<1>3. CASE ~SlotMade(slot)
  BY <1>1, <1>3
<1>4. CASE SlotMade(slot)
  <2>1. /\ a \in Addresses /\ heap[a] \in SdlSurfaces
        /\ heap[a].shape \in ShapeFor(slot) /\ SurfaceIn(slot) = heap[a]
        /\ heap[a].generation < next_surface_generation
        /\ next_surface_generation \in Nat
    BY <1>4 DEF SlotMade, PixInv, PixTypes, SlotsPlaced, SurfaceIn,
                GenerationsPast
  <2>2. /\ Blending(heap[a].shape) \in {"blend", "none"}
        /\ heap[a].shape \in SdlShapes /\ Unpainted \in Contents
    BY <2>1, SlotShapes, SdlVideoAssumption
  <2>3. heap[a].generation # 0 /\ heap[a].generation \in Nat
        /\ heap[a].contents \in Contents
    BY <2>1, SurfaceIsSome DEF SdlSurfaces
  <2>4. /\ step = [textures |-> step.textures, seen |-> step.seen]
        /\ step.textures \in [Addresses -> SdlTextures \cup {NoTexture}]
        /\ step.seen \in Seq(SdlSeen)
        /\ TexturesTrue(step.textures) /\ AllTrue(step.seen)
    BY DEF PresentTrue, PresentSteps
  <2>5. /\ entry \in SdlTextures /\ entry.made
        /\ CopyTrue(entry, a) /\ entry.shape = heap[a].shape
        /\ entry.blend = Blending(entry.shape)
    <3>1. CASE /\ step.textures[a].made
               /\ step.textures[a].shape = heap[a].shape
      <4>1. entry = step.textures[a]
        BY <3>1 DEF EntryFor
      <4>2. entry # NoTexture
        BY <3>1, <4>1 DEF NoTexture
      <4> QED BY <2>1, <2>4, <3>1, <4>1, <4>2 DEF TexturesTrue
    <3>2. CASE ~(/\ step.textures[a].made
                 /\ step.textures[a].shape = heap[a].shape)
      <4>1. entry = [made |-> TRUE, shape |-> heap[a].shape,
                     generation |-> 0, contents |-> Unpainted,
                     blend |-> Blending(heap[a].shape)]
        BY <3>2 DEF EntryFor
      <4> HIDE DEF entry
      <4>2. entry.generation = 0 /\ entry.made /\ entry.shape = heap[a].shape
            /\ entry.blend = Blending(heap[a].shape)
        BY <4>1
      <4>3. entry \in SdlTextures
        BY <2>2, <4>1 DEF SdlTextures
      <4>4. CopyTrue(entry, a)
        BY <2>1, <2>3, <4>2 DEF CopyTrue
      <4> QED BY <4>2, <4>3, <4>4
    <3> QED BY <3>1, <3>2
  <2> HIDE DEF entry, a
  <2>6. /\ uploaded \in SdlTextures /\ uploaded.shape = heap[a].shape
        /\ uploaded.generation = heap[a].generation
        /\ uploaded.contents = heap[a].contents
        /\ uploaded.blend = Blending(heap[a].shape)
    <3>1. heap[a] # NoSurface
      BY <2>1, SurfaceIsSome
    <3>2. entry.generation = heap[a].generation
            => entry.contents = heap[a].contents
      BY <2>5, <3>1 DEF CopyTrue
    <3> QED BY <2>3, <2>5, <3>2 DEF Uploaded, SdlTextures
  <2> HIDE DEF uploaded
  <2>7. /\ left \in SdlTextures /\ left.shape = heap[a].shape
        /\ left.generation = heap[a].generation
        /\ left.contents = heap[a].contents
        /\ left.blend = Blending(heap[a].shape)
    BY <2>2, <2>5, <2>6 DEF SdlTextures
  <2>8. CopyTrue(left, a)
    BY <2>1, <2>7 DEF CopyTrue
  <2>9. seenNow \in SdlSeen /\ SeenTrue(seenNow)
    BY <1>4, <2>1, <2>6, ShownTrue DEF a
  <2> HIDE DEF left, seenNow
  <2>10. ASSUME NEW t \in SdlTextures \cup {NoTexture},
                t.made => CopyTrue(t, a) /\ t.blend = Blending(t.shape)
         PROVE  LET ts == [step.textures EXCEPT ![a] = t]
                IN /\ ts \in [Addresses -> SdlTextures \cup {NoTexture}]
                   /\ TexturesTrue(ts)
    BY <2>1, <2>4, <2>10 DEF TexturesTrue
  <2>11. PresentTrue([step EXCEPT !.textures[a] = NoTexture])
    <3>1. ~NoTexture.made
      BY DEF NoTexture
    <3> DEFINE ts == [step.textures EXCEPT ![a] = NoTexture]
    <3>2. [step EXCEPT !.textures[a] = NoTexture]
            = [textures |-> ts, seen |-> step.seen]
      BY <2>4
    <3>3. /\ ts \in [Addresses -> SdlTextures \cup {NoTexture}]
          /\ TexturesTrue(ts)
      BY <2>10, <3>1
    <3> HIDE DEF ts
    <3> QED BY <2>4, <3>2, <3>3 DEF PresentTrue, PresentSteps
  <2>12. PresentTrue([step EXCEPT !.textures[a] = entry])
    <3> DEFINE ts == [step.textures EXCEPT ![a] = entry]
    <3>1. [step EXCEPT !.textures[a] = entry]
            = [textures |-> ts, seen |-> step.seen]
      BY <2>4
    <3>2. /\ ts \in [Addresses -> SdlTextures \cup {NoTexture}]
          /\ TexturesTrue(ts)
      BY <2>5, <2>10
    <3> HIDE DEF ts
    <3> QED BY <2>4, <3>1, <3>2 DEF PresentTrue, PresentSteps
  <2>13. PresentTrue([textures |-> [step.textures EXCEPT ![a] = left],
                      seen |-> Append(step.seen, seenNow)])
    <3> DEFINE ts == [step.textures EXCEPT ![a] = left]
               more == Append(step.seen, seenNow)
               next == [textures |-> ts, seen |-> more]
    <3>1. /\ ts \in [Addresses -> SdlTextures \cup {NoTexture}]
          /\ TexturesTrue(ts)
      BY <2>7, <2>8, <2>10
    <3>2. more \in Seq(SdlSeen) /\ AllTrue(more)
      BY <2>4, <2>9, SeenAppended
    <3> HIDE DEF ts, more
    <3>3. next \in PresentSteps /\ next.textures = ts /\ next.seen = more
      BY <3>1, <3>2 DEF PresentSteps
    <3> HIDE DEF next
    <3>4. PresentTrue(next)
      BY <3>1, <3>2, <3>3 DEF PresentTrue
    <3> QED BY <3>4 DEF next, ts, more
  <2>14. \/ render_surface(step, slot, opacity, fails)
              = [step EXCEPT !.textures[a] = NoTexture]
         \/ render_surface(step, slot, opacity, fails)
              = [step EXCEPT !.textures[a] = entry]
         \/ render_surface(step, slot, opacity, fails)
              = [textures |-> [step.textures EXCEPT ![a] = left],
                 seen |-> Append(step.seen, seenNow)]
    BY <1>1, <1>4, <1>2 DEF TextureLeft
  <2> QED BY <2>11, <2>12, <2>13, <2>14
<1> QED BY <1>3, <1>4

\* Whatever a present shows, it shows as it is, and leaves true textures.
LEMMA PresentsTrue ==
  ASSUME PixInv, NEW step \in Presents PROVE PresentTrue(step)
<1>1. PresentTrue(NothingYet)
  <2>1. << >> \in Seq(SdlSeen) /\ AllTrue(<< >>)
    BY DEF AllTrue
  <2> QED BY <2>1 DEF PresentTrue, PresentSteps, NothingYet, PixInv, PixTypes
<1>2. /\ {"base", "background", "decoration", "full", "corner"} = SdlSlots
      /\ Opaque \in Opacities
  BY DEF SdlSlots, Opacities
<1>3. ASSUME NEW fails PROVE PresentTrue(rr_presenter_post(NothingYet, fails))
  BY <1>1, <1>2, RenderTrue DEF rr_presenter_post
<1>4. ASSUME NEW visible, NEW o \in Opacities, NEW fails
      PROVE  PresentTrue(post_multiple(NothingYet, visible, o, fails))
  <2> DEFINE behind == IF "decoration" \in visible
                       THEN render_surface(NothingYet, "background", Opaque,
                                           fails)
                       ELSE NothingYet
             base == render_surface(behind, "base", Opaque, fails)
             above == IF "decoration" \in visible
                         /\ SurfaceIn("decoration").shape[2] = "RGBA8888"
                      THEN render_surface(base, "decoration", Opaque, fails)
                      ELSE base
             full == IF "full" \in visible
                     THEN render_surface(above, "full", o, fails) ELSE above
             all == IF "corner" \in visible
                    THEN render_surface(full, "corner", Opaque, fails)
                    ELSE full
  <2>1. PresentTrue(behind)
    BY <1>1, <1>2, RenderTrue
  <2> HIDE DEF behind
  <2>2. PresentTrue(base)
    BY <1>2, <2>1, RenderTrue
  <2> HIDE DEF base
  <2>3. PresentTrue(above)
    BY <1>2, <2>2, RenderTrue
  <2> HIDE DEF above
  <2>4. PresentTrue(full)
    BY <1>2, <2>3, RenderTrue
  <2> HIDE DEF full
  <2>5. PresentTrue(all)
    BY <1>2, <2>4, RenderTrue
  <2>6. post_multiple(NothingYet, visible, o, fails) = all
    BY DEF post_multiple, behind, base, above, full
  <2> QED BY <2>5, <2>6
<1> QED BY <1>3, <1>4 DEF Presents

LEMMA PresentStep == PixInv /\ Present => PixInv'
<1> SUFFICES ASSUME PixInv, Present PROVE PixInv'
  OBVIOUS
<1>1. PICK step \in Presents : textures' = step.textures
  BY DEF Present
<1>2. PresentTrue(step)
  BY PresentsTrue
<1>3. /\ UNCHANGED <<surfaceVars, shownBy, context, sdlFilterVars, vsyncVars,
                     sdlWindowVars>>
      /\ heap' = heap /\ slotOf' = slotOf
      /\ next_surface_generation' = next_surface_generation
  BY DEF Present, surfaceVars
<1>4. textures' \in [Addresses -> SdlTextures \cup {NoTexture}]
  BY <1>1, <1>2 DEF PresentTrue, PresentSteps
<1>5. TexturesTrue(textures)'
  BY <1>1, <1>2, <1>3 DEF PresentTrue, TexturesTrue, CopyTrue
<1>6. PixTypes'
  BY <1>3, <1>4 DEF PixInv, PixTypes, sdlFilterVars, vsyncVars
<1>7. SlotsPlaced' /\ SlotsApart' /\ GenerationsPast'
  BY <1>3 DEF PixInv, SlotsPlaced, SlotsApart, GenerationsPast, SlotMade,
              SurfaceIn
<1>8. (shownBy = "context" => ContextTrue(context))'
  BY <1>3 DEF PixInv, ContextTrue, CopyTrue
<1> QED BY <1>3, <1>5, <1>6, <1>7, <1>8, WindowStays DEF PixInv

-----------------------------------------------------------------------------
(* What a swap does to OpenGL.                                             *)

GlValues == {"core", "window", "ours", "frame", "none", "unit0", "unit1"}
Gl == [draw : GlValues, read : GlValues, program : GlValues, vao : GlValues,
       array : GlValues, active : {"unit0", "unit1"}, unit0 : GlValues,
       unit1 : GlValues, viewport : GlValues, unpack : GlValues,
       blend : GlValues, scissor : GlValues]

\* All but the buffer of vertices is as it was.
GlKept(before, after) ==
  /\ after.draw = before.draw /\ after.read = before.read
  /\ after.program = before.program /\ after.vao = before.vao
  /\ after.active = before.active /\ after.unit0 = before.unit0
  /\ after.unit1 = before.unit1 /\ after.viewport = before.viewport
  /\ after.unpack = before.unpack /\ after.blend = before.blend
  /\ after.scissor = before.scissor

LEMMA CoreGl == ASSUME NEW active \in {"unit0", "unit1"}
  PROVE  OfCore(active) \in Gl
  BY DEF OfCore, Gl, GlValues

LEMMA BindIs ==
  ASSUME NEW g \in Gl, g.active = "unit0", NEW texture \in GlValues
  PROVE  /\ Bind(g, texture) \in Gl
         /\ Bind(g, texture) = [g EXCEPT !.unit0 = texture]
  BY DEF Bind, Gl

LEMMA RestoredOverlayNames ==
  ASSUME NEW before \in Gl, NEW bound \in Gl
  PROVE  RestoredNames(before, bound, OverlayNames) =
           [draw |-> before.draw, read |-> bound.read,
            program |-> before.program, vao |-> before.vao,
            array |-> before.array, active |-> before.active,
            unit0 |-> bound.unit0, unit1 |-> bound.unit1,
            viewport |-> before.viewport, unpack |-> before.unpack,
            blend |-> before.blend, scissor |-> bound.scissor]
  BY DEF RestoredNames, OverlayNames

LEMMA RestoredSwapNames ==
  ASSUME NEW before \in Gl, NEW bound \in Gl
  PROVE  RestoredNames(before, bound, SwapNames) =
           [draw |-> before.draw, read |-> before.read,
            program |-> before.program, vao |-> before.vao,
            array |-> bound.array, active |-> before.active,
            unit0 |-> bound.unit0, unit1 |-> bound.unit1,
            viewport |-> before.viewport, unpack |-> bound.unpack,
            blend |-> bound.blend, scissor |-> bound.scissor]
  BY DEF RestoredNames, SwapNames

\* A blit draws in the first unit, wherever the core has left it.
LEMMA BlitRestores ==
  ASSUME NEW before \in Gl, NEW during \in Gl, during.active = "unit0",
         during.unit1 = before.unit1, during.read = before.read,
         during.scissor = before.scissor
  PROVE  /\ GlRestored(before, during, OverlayNames) \in Gl
         /\ GlKept(before, GlRestored(before, during, OverlayNames))
<1>1. before.unit0 \in GlValues
  BY DEF Gl
<1> DEFINE bound == Bind(during, before.unit0)
<1>2. bound \in Gl /\ bound = [during EXCEPT !.unit0 = before.unit0]
  BY <1>1, BindIs
<1>3. /\ bound.unit0 = before.unit0 /\ bound.unit1 = before.unit1
      /\ bound.read = before.read /\ bound.scissor = before.scissor
  BY <1>2 DEF Gl
<1> HIDE DEF bound
<1>4. GlRestored(before, during, OverlayNames)
        = RestoredNames(before, bound, OverlayNames)
  BY DEF GlRestored, bound
<1> QED BY <1>2, <1>3, <1>4, RestoredOverlayNames DEF GlKept, Gl

-----------------------------------------------------------------------------
(* What a swap draws.                                                      *)

SwapSteps == [gl : Gl, context : SdlContexts, seen : Seq(SdlSeen)]
SwapTrue(step) ==
  /\ step \in SwapSteps /\ ContextTrue(step.context) /\ AllTrue(step.seen)
  /\ step.context.fbo = context.fbo

LEMMA StepIs ==
  ASSUME NEW gl \in Gl, NEW ctx \in SdlContexts, NEW seen \in Seq(SdlSeen)
  PROVE  /\ SwapStep(gl, ctx, seen) \in SwapSteps
         /\ SwapStep(gl, ctx, seen).gl = gl
         /\ SwapStep(gl, ctx, seen).context = ctx
         /\ SwapStep(gl, ctx, seen).seen = seen
  BY DEF SwapStep, SwapSteps

LEMMA StepHas ==
  ASSUME NEW step, SwapTrue(step)
  PROVE  /\ step.gl \in Gl /\ step.context \in SdlContexts
         /\ step.seen \in Seq(SdlSeen)
         /\ step = SwapStep(step.gl, step.context, step.seen)
  BY DEF SwapTrue, SwapSteps, SwapStep

LEMMA WithGlTrue ==
  ASSUME NEW step, SwapTrue(step), NEW gl \in Gl
  PROVE  /\ SwapTrue(WithGl(step, gl)) /\ WithGl(step, gl).gl = gl
         /\ WithGl(step, gl).context = step.context
         /\ WithGl(step, gl).seen = step.seen
<1>1. step.context \in SdlContexts /\ step.seen \in Seq(SdlSeen)
  BY StepHas
<1> QED BY <1>1, StepIs DEF WithGl, SwapTrue

\* The shaders are compiled when they are needed first, and once they are they
\* stay; where they cannot be, OpenGL is left alone.
LEMMA PipelineTrue ==
  ASSUME NEW step, SwapTrue(step)
  PROVE  LET after == ensure_post_pipeline(step)
         IN /\ SwapTrue(after) /\ after.seen = step.seen
            /\ step.context.program => after.context.program
            /\ ~after.context.program => after.gl = step.gl
            /\ \/ after.gl = step.gl
               \/ after.gl = [step.gl EXCEPT !.vao = "none", !.array = "ours"]
<1> DEFINE gaveUp == [step.context EXCEPT !.failed = TRUE]
           compiled == [step.context EXCEPT !.program = TRUE]
           gl == [step.gl EXCEPT !.vao = "none", !.array = "ours"]
<1>1. /\ step.gl \in Gl /\ step.context \in SdlContexts
      /\ step.seen \in Seq(SdlSeen)
      /\ ContextTrue(step.context) /\ AllTrue(step.seen)
      /\ step.context.fbo = context.fbo
  BY StepHas DEF SwapTrue
<1>2. /\ gaveUp \in SdlContexts /\ ContextTrue(gaveUp)
      /\ gaveUp.fbo = context.fbo /\ gaveUp.program = step.context.program
  BY <1>1 DEF SdlContexts, ContextTrue
<1>3. /\ compiled \in SdlContexts /\ ContextTrue(compiled)
      /\ compiled.fbo = context.fbo /\ compiled.program
  BY <1>1 DEF SdlContexts, ContextTrue
<1>4. gl \in Gl
  BY <1>1 DEF Gl, GlValues
<1> HIDE DEF gaveUp, compiled, gl
<1>5. ensure_post_pipeline(step) =
        IF step.context.program THEN step
        ELSE IF step.context.failed \/ ~step.context.works
        THEN SwapStep(step.gl, gaveUp, step.seen)
        ELSE SwapStep(gl, compiled, step.seen)
  BY DEF ensure_post_pipeline, gaveUp, compiled, gl
<1>6. CASE step.context.program
  BY <1>5, <1>6
<1>7. CASE /\ ~step.context.program
           /\ step.context.failed \/ ~step.context.works
  BY <1>1, <1>2, <1>5, <1>7, StepIs DEF SwapTrue
<1>8. CASE ~(step.context.program \/ step.context.failed
               \/ ~step.context.works)
  BY <1>1, <1>3, <1>4, <1>5, <1>8, StepIs DEF SwapTrue, gl
<1> QED BY <1>6, <1>7, <1>8

\* The overlay that is drawn is the surface's, uploaded now or still the same.
LEMMA OverlayIs ==
  ASSUME PixInv, NEW ctx \in SdlContexts, ContextTrue(ctx),
         NEW slot \in SdlSlots, SlotMade(slot)
  PROVE  LET overlay == OverlayOf(ctx.overlay, slot)
             after == [ctx EXCEPT !.overlay = overlay]
         IN /\ overlay.contents = SurfaceIn(slot).contents
            /\ after \in SdlContexts /\ ContextTrue(after)
            /\ after.fbo = ctx.fbo /\ after.program = ctx.program
<1> DEFINE overlay == OverlayOf(ctx.overlay, slot)
           a == slotOf[slot]
           fresh == [surface |-> a, generation |-> heap[a].generation,
                     shape |-> heap[a].shape, contents |-> heap[a].contents]
<1>1. /\ a \in Addresses /\ a # NoAddress /\ SurfaceIn(slot) = heap[a]
      /\ heap[a] \in SdlSurfaces
      /\ heap[a].generation < next_surface_generation
  BY DEF PixInv, PixTypes, SlotMade, SlotsPlaced, SurfaceIn, GenerationsPast
<1>2. heap[a] # NoSurface
  BY <1>1, SurfaceIsSome
<1> HIDE DEF a
<1>3. CASE UploadedIs(ctx.overlay, slot)
  <2>1. /\ overlay = ctx.overlay /\ ctx.overlay.surface = a
        /\ ctx.overlay.generation = heap[a].generation
    BY <1>1, <1>3 DEF OverlayOf, UploadedIs, a
  <2>2. ctx.overlay # NoOverlay
    BY <1>1, <2>1 DEF NoOverlay
  <2>3. CopyTrue(ctx.overlay, a)
    BY <2>1, <2>2 DEF ContextTrue
  <2>4. overlay.contents = heap[a].contents
    BY <1>2, <2>1, <2>3 DEF CopyTrue
  <2>5. [ctx EXCEPT !.overlay = overlay] = ctx
    BY <2>1 DEF SdlContexts
  <2> QED BY <1>1, <2>4, <2>5
<1>4. CASE ~UploadedIs(ctx.overlay, slot)
  <2>1. overlay = fresh
    BY <1>1, <1>4 DEF OverlayOf, a
  <2>2. fresh \in SdlOverlays
    BY <1>1 DEF SdlSurfaces, SdlOverlays
  <2>3. CopyTrue(fresh, a)
    BY <1>1 DEF CopyTrue
  <2>4. fresh.surface = a /\ fresh.contents = heap[a].contents
    OBVIOUS
  <2> HIDE DEF fresh, overlay
  <2> DEFINE after == [ctx EXCEPT !.overlay = overlay]
  <2>5. /\ after \in SdlContexts /\ after.overlay = overlay
        /\ after.filter = ctx.filter /\ after.fbo = ctx.fbo
        /\ after.program = ctx.program
        /\ after.post_texture_filter = ctx.post_texture_filter
    BY <2>1, <2>2 DEF SdlContexts
  <2> HIDE DEF after
  <2>6. ContextTrue(after)
    BY <2>1, <2>3, <2>4, <2>5 DEF ContextTrue
  <2> QED BY <1>1, <2>1, <2>4, <2>5, <2>6 DEF after, overlay
<1> QED BY <1>3, <1>4

\* What is drawn over the game, or behind it, and no more: at most one surface.
Overlays == {"decoration", "full", "corner"}
AtMostDrawn(before, after) ==
  \/ after = before
  \/ \E p \in SdlSeen : p.what \in Overlays /\ after = Append(before, p)

LEMMA BlitTrue ==
  ASSUME PixInv, NEW start, SwapTrue(start), NEW slot \in Overlays,
         SlotMade(slot), NEW opacity \in Opacities,
         opacity = Opaque \/ slot = "full"
  PROVE  LET after == blit_overlay(start, slot, opacity)
         IN /\ SwapTrue(after) /\ GlKept(start.gl, after.gl)
            /\ AtMostDrawn(start.seen, after.seen)
            /\ start.context.program => after.context.program
<1> DEFINE bound == Bound(start, "active", "unit0")
           step == ensure_post_pipeline(bound)
           overlay == OverlayOf(step.context.overlay, slot)
           during == [Bind(step.gl, "ours") EXCEPT
                        !.draw = "window", !.program = "ours", !.vao = "ours",
                        !.viewport = "ours", !.blend = "ours",
                        !.unpack = IF overlay = step.context.overlay THEN @
                                   ELSE "ours"]
           mode == IF opacity = Opaque THEN Blending(SurfaceIn(slot).shape)
                   ELSE "blend"
           seenNow == Shows(slot, overlay.contents, <<opacity, mode>>)
           drawn == [step.context EXCEPT !.overlay = overlay]
           restored == GlRestored(start.gl, during, OverlayNames)
           after == blit_overlay(start, slot, opacity)
<1>1. /\ start.gl \in Gl /\ slot \in SdlSlots
      /\ "unit0" \in GlValues /\ "ours" \in GlValues
  BY StepHas DEF Overlays, SdlSlots, GlValues
<1>2. /\ SwapTrue(bound) /\ bound.gl = [start.gl EXCEPT !.active = "unit0"]
      /\ bound.context = start.context /\ bound.seen = start.seen
  <2> DEFINE gl == [start.gl EXCEPT !.active = "unit0"]
  <2>1. gl \in Gl /\ bound = WithGl(start, gl)
    BY <1>1 DEF Gl, Bound
  <2> HIDE DEF gl, bound
  <2>2. SwapTrue(bound) /\ bound.gl = gl /\ bound.context = start.context
        /\ bound.seen = start.seen
    BY <2>1, WithGlTrue
  <2> QED BY <2>2 DEF gl
<1> HIDE DEF bound
<1>3. /\ SwapTrue(step) /\ step.seen = bound.seen
      /\ bound.context.program => step.context.program
      /\ ~step.context.program => step.gl = bound.gl
      /\ \/ step.gl = bound.gl
         \/ step.gl = [bound.gl EXCEPT !.vao = "none", !.array = "ours"]
  BY <1>2, PipelineTrue
<1> HIDE DEF step
<1>4. /\ step.gl \in Gl /\ step.gl.active = "unit0"
      /\ step.gl.read = start.gl.read /\ step.gl.unit1 = start.gl.unit1
      /\ step.gl.scissor = start.gl.scissor
  <2>1. step.gl \in Gl
    BY <1>3, StepHas
  <2>2. /\ bound.gl.active = "unit0" /\ bound.gl.read = start.gl.read
        /\ bound.gl.unit1 = start.gl.unit1
        /\ bound.gl.scissor = start.gl.scissor /\ bound.gl \in Gl
    BY <1>1, <1>2, StepHas DEF Gl
  <2>3. CASE step.gl = bound.gl
    BY <2>1, <2>2, <2>3
  <2>4. CASE step.gl = [bound.gl EXCEPT !.vao = "none", !.array = "ours"]
    BY <2>1, <2>2, <2>4 DEF Gl
  <2> QED BY <1>3, <2>3, <2>4
<1>5. CASE ~step.context.program
  <2> DEFINE gl == [step.gl EXCEPT !.active = start.gl.active]
  <2>1. after = WithGl(step, gl)
    BY <1>5 DEF blit_overlay, step, bound, Bound
  <2>2. gl \in Gl /\ gl = start.gl
    BY <1>1, <1>2, <1>3, <1>5 DEF Gl
  <2> HIDE DEF gl, after
  <2>3. /\ SwapTrue(after) /\ after.gl = gl /\ after.seen = step.seen
        /\ after.context = step.context
    BY <1>3, <2>1, <2>2, WithGlTrue
  <2>4. GlKept(start.gl, after.gl)
    BY <2>2, <2>3 DEF GlKept
  <2> QED BY <1>2, <1>3, <2>3, <2>4 DEF AtMostDrawn, after
<1>6. CASE step.context.program
  <2>1. after = SwapStep(restored, drawn, Append(step.seen, seenNow))
    BY <1>6 DEF blit_overlay, step, bound
  <2>2. /\ step.context \in SdlContexts /\ ContextTrue(step.context)
        /\ step.seen \in Seq(SdlSeen) /\ AllTrue(step.seen)
        /\ step.context.fbo = context.fbo
    BY <1>3, StepHas DEF SwapTrue
  <2>3. /\ overlay.contents = SurfaceIn(slot).contents
        /\ drawn \in SdlContexts /\ ContextTrue(drawn)
        /\ drawn.fbo = context.fbo /\ drawn.program
    BY <1>1, <1>6, <2>2, OverlayIs
  <2>4. seenNow \in SdlSeen /\ SeenTrue(seenNow)
    BY <1>1, <2>3, ShownTrue
  <2>5. seenNow.what = slot
    BY DEF Shows
  <2>6. restored \in Gl /\ GlKept(start.gl, restored)
    <3> DEFINE other == IF overlay = step.context.overlay
                        THEN Bind(step.gl, "ours").unpack ELSE "ours"
    <3>1. /\ Bind(step.gl, "ours") \in Gl
          /\ Bind(step.gl, "ours") = [step.gl EXCEPT !.unit0 = "ours"]
      BY <1>1, <1>4, BindIs
    <3>2. other \in GlValues
      BY <1>1, <3>1 DEF Gl
    <3>3. during = [Bind(step.gl, "ours") EXCEPT
                      !.draw = "window", !.program = "ours", !.vao = "ours",
                      !.viewport = "ours", !.blend = "ours",
                      !.unpack = other]
      BY <3>1 DEF Gl
    <3> HIDE DEF other, overlay, during
    <3> DEFINE g == Bind(step.gl, "ours")
    <3>4. /\ g \in Gl /\ g.active = "unit0"
          /\ g.unit1 = start.gl.unit1 /\ g.read = start.gl.read
          /\ g.scissor = start.gl.scissor
      BY <1>4, <3>1 DEF Gl
    <3> HIDE DEF g
    <3>5. /\ during.draw = "window" /\ during.read = g.read
          /\ during.program = "ours" /\ during.vao = "ours"
          /\ during.array = g.array /\ during.active = g.active
          /\ during.unit0 = g.unit0 /\ during.unit1 = g.unit1
          /\ during.viewport = "ours" /\ during.unpack = other
          /\ during.blend = "ours" /\ during.scissor = g.scissor
          /\ during = [draw |-> during.draw, read |-> during.read,
                       program |-> during.program, vao |-> during.vao,
                       array |-> during.array, active |-> during.active,
                       unit0 |-> during.unit0, unit1 |-> during.unit1,
                       viewport |-> during.viewport,
                       unpack |-> during.unpack, blend |-> during.blend,
                       scissor |-> during.scissor]
      BY <3>3, <3>4 DEF Gl, g
    <3>6. during \in Gl
      BY <3>2, <3>4, <3>5 DEF Gl, GlValues
    <3>7. /\ during \in Gl /\ during.active = "unit0"
          /\ during.unit1 = start.gl.unit1 /\ during.read = start.gl.read
          /\ during.scissor = start.gl.scissor
      BY <3>4, <3>5, <3>6
    <3> QED BY <1>1, <3>7, BlitRestores
  <2> DEFINE seen == Append(step.seen, seenNow)
  <2> HIDE DEF overlay, during, restored, drawn, seenNow, after
  <2>7. seen \in Seq(SdlSeen) /\ AllTrue(seen)
    BY <2>2, <2>4, SeenAppended
  <2>8. AtMostDrawn(start.seen, seen)
    BY <1>2, <1>3, <2>4, <2>5 DEF AtMostDrawn
  <2>9. after = SwapStep(restored, drawn, seen)
    BY <2>1
  <2> HIDE DEF seen
  <2>10. /\ after \in SwapSteps /\ after.gl = restored
        /\ after.context = drawn /\ after.seen = seen
    BY <2>9, <2>3, <2>6, <2>7, StepIs
  <2> QED BY <2>3, <2>6, <2>7, <2>8, <2>10 DEF SwapTrue, after
<1> QED BY <1>5, <1>6

\* Damage of the decoration keeps what a blit keeps: the scissor is put back.
LEMMA DamageTrue ==
  ASSUME PixInv, NEW start, SwapTrue(start), SlotMade("decoration")
  PROVE  LET after == blit_decoration_damage(start)
         IN /\ SwapTrue(after) /\ GlKept(start.gl, after.gl)
            /\ AtMostDrawn(start.seen, after.seen)
            /\ start.context.program => after.context.program
<1> DEFINE cut == Bound(start, "scissor", "ours")
           step == blit_overlay(cut, "decoration", Opaque)
           after == blit_decoration_damage(start)
           gl == [start.gl EXCEPT !.scissor = "ours"]
           uncut == [step.gl EXCEPT !.scissor = start.gl.scissor]
<1>1. start.gl \in Gl /\ gl \in Gl
  BY StepHas DEF Gl, GlValues
<1>2. cut = WithGl(start, gl)
  BY DEF Bound
<1> HIDE DEF cut
<1>3. /\ SwapTrue(cut) /\ cut.gl = gl /\ cut.context = start.context
      /\ cut.seen = start.seen
  <2> HIDE DEF gl
  <2> QED BY <1>1, <1>2, WithGlTrue
<1>4. "decoration" \in Overlays /\ Opaque \in Opacities
  BY DEF Overlays, Opacities
<1>5. /\ SwapTrue(step) /\ GlKept(cut.gl, step.gl)
      /\ AtMostDrawn(cut.seen, step.seen)
      /\ cut.context.program => step.context.program
  BY <1>3, <1>4, BlitTrue
<1>6. after = WithGl(step, uncut)
  BY DEF blit_decoration_damage, Bound, cut
<1> HIDE DEF step, after
<1>7. step.gl \in Gl /\ uncut \in Gl
  <2>1. step.gl \in Gl
    BY <1>5, StepHas
  <2> QED BY <1>1, <2>1 DEF Gl
<1>8. GlKept(start.gl, uncut)
  BY <1>1, <1>3, <1>5, <1>7 DEF GlKept, Gl
<1> HIDE DEF uncut
<1>9. /\ SwapTrue(after) /\ after.gl = uncut /\ after.context = step.context
      /\ after.seen = step.seen
  BY <1>5, <1>6, <1>7, WithGlTrue
<1> QED BY <1>3, <1>5, <1>8, <1>9 DEF after

\* What a swap draws over the game adds no game.
NoGame(seen) == \A i \in DOMAIN seen : seen[i].what # "game"
OneGame(seen) ==
  \E i \in DOMAIN seen : /\ seen[i].what = "game"
                         /\ \A j \in DOMAIN seen :
                              seen[j].what = "game" => j = i

LEMMA DrawnOver ==
  ASSUME NEW before \in Seq(SdlSeen), NEW after, AtMostDrawn(before, after)
  PROVE  /\ NoGame(before) => NoGame(after)
         /\ OneGame(before) => OneGame(after)
<1>1. CASE after = before
  BY <1>1
<1>2. ASSUME NEW p \in SdlSeen, p.what \in Overlays, after = Append(before, p)
      PROVE  /\ NoGame(before) => NoGame(after)
             /\ OneGame(before) => OneGame(after)
  <2>1. p.what # "game"
    BY <1>2 DEF Overlays
  <2>2. /\ DOMAIN before = 1 .. Len(before) /\ Len(before) \in Nat
        /\ DOMAIN after = 1 .. (Len(before) + 1)
        /\ \A i \in 1 .. Len(before) : after[i] = before[i]
        /\ after[Len(before) + 1] = p
    BY <1>2
  <2> QED BY <2>1, <2>2 DEF NoGame, OneGame
<1> QED BY <1>1, <1>2 DEF AtMostDrawn

LEMMA GameAppended ==
  ASSUME NEW before \in Seq(SdlSeen), NEW p \in SdlSeen, p.what = "game",
         NoGame(before)
  PROVE  OneGame(Append(before, p))
<1> DEFINE after == Append(before, p)
<1>1. /\ DOMAIN before = 1 .. Len(before) /\ Len(before) \in Nat
      /\ DOMAIN after = 1 .. (Len(before) + 1)
      /\ \A i \in 1 .. Len(before) : after[i] = before[i]
      /\ after[Len(before) + 1] = p
  OBVIOUS
<1> HIDE DEF after
<1>2. OneGame(after)
  <2> DEFINE i == Len(before) + 1
  <2>1. i \in DOMAIN after /\ after[i].what = "game"
    BY <1>1
  <2>2. ASSUME NEW j \in DOMAIN after, after[j].what = "game" PROVE j = i
    <3>1. CASE j \in 1 .. Len(before)
      BY <1>1, <2>2, <3>1 DEF NoGame
    <3> QED BY <1>1, <3>1
  <2> HIDE DEF i
  <2> QED BY <2>1, <2>2 DEF OneGame
<1> QED BY <1>2 DEF after

LEMMA OneGameCounted ==
  ASSUME NEW seen \in Seq(SdlSeen), OneGame(seen)
  PROVE  Cardinality({i \in DOMAIN seen : seen[i].what = "game"}) = 1
<1>1. PICK i \in DOMAIN seen :
        seen[i].what = "game"
          /\ \A j \in DOMAIN seen : seen[j].what = "game" => j = i
  BY DEF OneGame
<1>2. {j \in DOMAIN seen : seen[j].what = "game"} = {i}
  BY <1>1
<1> QED BY <1>2, FS_Singleton

\* The pages and the corners.
LEMMA OverlaysTrue ==
  ASSUME PixInv, NEW start, SwapTrue(start), NEW visible \in Visible,
         NEW opacity \in Opacities, opacity = Opaque \/ "full" \in visible
  PROVE  LET after == draw_overlays(start, visible, opacity)
         IN /\ SwapTrue(after) /\ GlKept(start.gl, after.gl)
            /\ NoGame(start.seen) => NoGame(after.seen)
            /\ OneGame(start.seen) => OneGame(after.seen)
<1> DEFINE page == IF "full" \in visible
                   THEN blit_overlay(start, "full", opacity) ELSE start
           all == IF "corner" \in visible
                  THEN blit_overlay(page, "corner", Opaque) ELSE page
<1>1. /\ "full" \in Overlays /\ "corner" \in Overlays /\ Opaque \in Opacities
      /\ "full" \in visible => SlotMade("full")
      /\ "corner" \in visible => SlotMade("corner")
  BY DEF Overlays, Opacities, Visible
<1>2. /\ SwapTrue(page) /\ GlKept(start.gl, page.gl)
      /\ AtMostDrawn(start.seen, page.seen)
  <2>1. CASE "full" \in visible
    BY <1>1, <2>1, BlitTrue
  <2>2. CASE "full" \notin visible
    BY <2>2 DEF GlKept, AtMostDrawn
  <2> QED BY <2>1, <2>2
<1> HIDE DEF page
<1>3. /\ SwapTrue(all) /\ GlKept(page.gl, all.gl)
      /\ AtMostDrawn(page.seen, all.seen)
  <2>1. CASE "corner" \in visible
    BY <1>1, <1>2, <2>1, BlitTrue
  <2>2. CASE "corner" \notin visible
    BY <1>2, <2>2 DEF GlKept, AtMostDrawn
  <2> QED BY <2>1, <2>2
<1>4. draw_overlays(start, visible, opacity) = all
  BY DEF draw_overlays, page
<1> HIDE DEF all
<1>5. start.seen \in Seq(SdlSeen) /\ page.seen \in Seq(SdlSeen)
  BY <1>2, StepHas
<1>6. GlKept(start.gl, all.gl)
  BY <1>2, <1>3 DEF GlKept
<1>7. /\ NoGame(start.seen) => NoGame(all.seen)
      /\ OneGame(start.seen) => OneGame(all.seen)
  BY <1>2, <1>3, <1>5, DrawnOver
<1> QED BY <1>3, <1>4, <1>6, <1>7

LEMMA GameShown ==
  ASSUME PixInv
  PROVE  /\ GameSeen(video_filter) \in SdlSeen
         /\ SeenTrue(GameSeen(video_filter))
         /\ GameSeen(video_filter).what = "game"
<1> DEFINE game == GameSeen(video_filter)
<1>1. /\ game = [what |-> "game", current |-> TRUE,
                 mode |-> <<Opaque, "none">>]
      /\ <<Opaque, "none">> \in Opacities \X {"blend", "none"}
      /\ Opaque # "half"
  BY DEF GameSeen, Opacities, Opaque
<1> HIDE DEF game
<1>2. /\ game.what = "game" /\ game.current
      /\ game.mode[1] = Opaque /\ game.mode[2] = "none"
  BY <1>1
<1> QED BY <1>1, <1>2 DEF SdlSeen, SeenTrue, game

LEMMA GameAdded ==
  ASSUME PixInv, NEW before \in Seq(SdlSeen), AllTrue(before), NoGame(before)
  PROVE  LET after == Append(before, GameSeen(video_filter))
         IN after \in Seq(SdlSeen) /\ AllTrue(after) /\ OneGame(after)
  BY GameShown, SeenAppended, GameAppended

\* Within a swap the first unit is active, and what a swap does not restore is
\* the core's.
InSwap(gl) ==
  /\ gl.active = "unit0" /\ gl.unit1 = "core" /\ gl.unpack = "core"
  /\ gl.blend = "core" /\ gl.scissor = "core"

\* Whether a frame is processed depends on the context alone.
LEMMA PipelineOfContext ==
  ASSUME NEW one, NEW other, one.context = other.context, NEW upright
  PROVE  Processes(one, upright) = Processes(other, upright)
<1>1. /\ ensure_post_pipeline(one).context
           = IF one.context.program THEN one.context
             ELSE IF one.context.failed \/ ~one.context.works
             THEN [one.context EXCEPT !.failed = TRUE]
             ELSE [one.context EXCEPT !.program = TRUE]
      /\ ensure_post_pipeline(other).context
           = IF other.context.program THEN other.context
             ELSE IF other.context.failed \/ ~other.context.works
             THEN [other.context EXCEPT !.failed = TRUE]
             ELSE [other.context EXCEPT !.program = TRUE]
  BY DEF ensure_post_pipeline, SwapStep
<1> QED BY <1>1 DEF Processes

LEMMA PostTrue ==
  ASSUME PixInv, NEW start, SwapTrue(start), NEW upright \in BOOLEAN
  PROVE  LET after == draw_post_processed_frame(start, upright)
         IN /\ SwapTrue(after)
            /\ InSwap(start.gl) => InSwap(after.gl)
            /\ ~Processes(start, upright) => after.seen = start.seen
            /\ Processes(start, upright) /\ NoGame(start.seen)
                 => OneGame(after.seen)
<1> DEFINE step == IF NothingToDo(upright) THEN start
                   ELSE ensure_post_pipeline(start)
           filter == IF step.context.post_texture_filter = video_filter
                     THEN step.context.filter ELSE video_filter
           gl == [step.gl EXCEPT !.draw = "window", !.viewport = "ours",
                    !.program = "ours", !.active = "unit0", !.unit0 = "frame",
                    !.vao = "none"]
           ctx == [step.context EXCEPT !.filter = filter,
                     !.post_texture_filter = video_filter]
           seen == Append(step.seen, GameSeen(filter))
           after == draw_post_processed_frame(start, upright)
<1>1. after = IF ~Processes(start, upright) THEN step
              ELSE SwapStep(gl, ctx, seen)
  BY DEF draw_post_processed_frame
<1>2. /\ SwapTrue(step) /\ step.seen = start.seen
      /\ InSwap(start.gl) => InSwap(step.gl)
  <2>1. CASE NothingToDo(upright)
    BY <2>1
  <2>2. CASE ~NothingToDo(upright)
    <3> DEFINE ensured == ensure_post_pipeline(start)
    <3>1. step = ensured
      BY <2>2
    <3>2. /\ SwapTrue(ensured) /\ ensured.seen = start.seen
          /\ \/ ensured.gl = start.gl
             \/ ensured.gl = [start.gl EXCEPT !.vao = "none",
                                              !.array = "ours"]
      BY PipelineTrue
    <3> HIDE DEF ensured, step
    <3>3. InSwap(start.gl) => InSwap(ensured.gl)
      BY <3>2, StepHas DEF InSwap, Gl
    <3> QED BY <3>1, <3>2, <3>3
  <2> QED BY <2>1, <2>2
<1> HIDE DEF step, after
<1>3. /\ step.gl \in Gl /\ step.context \in SdlContexts
      /\ step.seen \in Seq(SdlSeen) /\ ContextTrue(step.context)
      /\ AllTrue(step.seen) /\ step.context.fbo = context.fbo
  BY <1>2, StepHas DEF SwapTrue
<1>4. video_filter \in SdlFilters
  BY DEF PixInv, PixTypes
<1>5. filter = video_filter
  BY <1>3, <1>4 DEF ContextTrue, SdlFilters
<1>6. /\ ctx \in SdlContexts /\ ctx.overlay = step.context.overlay
      /\ ctx.filter = video_filter /\ ctx.post_texture_filter = video_filter
      /\ ctx.fbo = context.fbo
  <2> HIDE DEF filter
  <2> QED BY <1>3, <1>4, <1>5 DEF SdlContexts
<1>7. gl \in Gl /\ (InSwap(step.gl) => InSwap(gl))
  <2> DEFINE g == step.gl
  <2>1. g \in Gl /\ gl = [g EXCEPT !.draw = "window", !.viewport = "ours",
                      !.program = "ours", !.active = "unit0",
                      !.unit0 = "frame", !.vao = "none"]
    BY <1>3
  <2> HIDE DEF g, gl
  <2>2. /\ gl.draw = "window" /\ gl.read = g.read /\ gl.program = "ours"
        /\ gl.vao = "none" /\ gl.array = g.array /\ gl.active = "unit0"
        /\ gl.unit0 = "frame" /\ gl.unit1 = g.unit1
        /\ gl.viewport = "ours" /\ gl.unpack = g.unpack
        /\ gl.blend = g.blend /\ gl.scissor = g.scissor
        /\ gl = [draw |-> gl.draw, read |-> gl.read, program |-> gl.program,
                 vao |-> gl.vao, array |-> gl.array, active |-> gl.active,
                 unit0 |-> gl.unit0, unit1 |-> gl.unit1,
                 viewport |-> gl.viewport, unpack |-> gl.unpack,
                 blend |-> gl.blend, scissor |-> gl.scissor]
    BY <2>1 DEF Gl
  <2>3. gl \in Gl
    BY <2>1, <2>2 DEF Gl, GlValues
  <2>4. InSwap(g) => InSwap(gl)
    BY <2>2 DEF InSwap
  <2> QED BY <2>3, <2>4 DEF g
<1> HIDE DEF filter, gl, ctx
<1>8. ContextTrue(ctx)
  BY <1>3, <1>6 DEF ContextTrue
<1>9. /\ seen \in Seq(SdlSeen) /\ AllTrue(seen)
      /\ NoGame(step.seen) => OneGame(seen)
  BY <1>3, <1>5, GameShown, SeenAppended, GameAppended
<1> HIDE DEF seen
<1>10. CASE ~Processes(start, upright)
  BY <1>1, <1>2, <1>10 DEF after
<1>11. CASE Processes(start, upright)
  <2>1. /\ after \in SwapSteps /\ after.gl = gl /\ after.context = ctx
        /\ after.seen = seen
    BY <1>1, <1>6, <1>7, <1>9, <1>11, StepIs
  <2>2. SwapTrue(after)
    BY <1>6, <1>8, <1>9, <2>1 DEF SwapTrue
  <2>3. InSwap(start.gl) => InSwap(after.gl)
    BY <1>2, <1>7, <2>1
  <2>4. NoGame(start.seen) => OneGame(after.seen)
    BY <1>2, <1>9, <2>1
  <2> QED BY <1>11, <2>2, <2>3, <2>4 DEF after
<1> QED BY <1>10, <1>11

LEMMA KeptInSwap ==
  ASSUME NEW before, NEW after, GlKept(before, after), InSwap(before)
  PROVE  InSwap(after)
  BY DEF GlKept, InSwap

\* A name that is bound, other than those a swap leaves to the core.
LEMMA BoundTrue ==
  ASSUME NEW step, SwapTrue(step), NEW name \in {"draw", "read"},
         NEW value \in {"window", "frame"}
  PROVE  LET after == Bound(step, name, value)
         IN /\ SwapTrue(after) /\ after.context = step.context
            /\ after.seen = step.seen
            /\ InSwap(step.gl) => InSwap(after.gl)
<1> DEFINE gl == [step.gl EXCEPT ![name] = value]
<1>1. step.gl \in Gl
  BY StepHas
<1>2. gl \in Gl /\ (InSwap(step.gl) => InSwap(gl))
  <2>1. CASE name = "draw"
    BY <1>1, <2>1 DEF Gl, GlValues, InSwap
  <2>2. CASE name = "read"
    BY <1>1, <2>2 DEF Gl, GlValues, InSwap
  <2> QED BY <2>1, <2>2
<1> HIDE DEF gl
<1>3. Bound(step, name, value) = WithGl(step, gl)
  BY DEF Bound, gl
<1> QED BY <1>2, <1>3, WithGlTrue

\* The context's part of a swap: what it was and what is left of it.
LEMMA StartTrue ==
  ASSUME PixInv, shownBy = "context", NEW active \in {"unit0", "unit1"}
  PROVE  LET start == SwapStep(OfCore(active), context, << >>)
         IN /\ SwapTrue(start) /\ NoGame(start.seen)
            /\ start.gl = OfCore(active) /\ start.context = context
            /\ start.seen = << >>
<1>1. /\ context \in SdlContexts /\ ContextTrue(context)
      /\ << >> \in Seq(SdlSeen) /\ AllTrue(<< >>) /\ NoGame(<< >>)
  BY DEF PixInv, PixTypes, AllTrue, NoGame
<1>2. OfCore(active) \in Gl
  BY CoreGl
<1> DEFINE none == << >>
           start == SwapStep(OfCore(active), context, none)
<1> HIDE DEF none
<1>3. /\ start \in SwapSteps /\ start.gl = OfCore(active)
      /\ start.context = context /\ start.seen = none
  <2>1. none \in Seq(SdlSeen)
    BY <1>1 DEF none
  <2> QED BY <1>1, <1>2, <2>1, StepIs
<1> HIDE DEF start
<1>4. SwapTrue(start) /\ NoGame(start.seen)
  BY <1>1, <1>3 DEF SwapTrue, none
<1> QED BY <1>3, <1>4 DEF start, none

\* With a decoration behind and before the game, or without one.
LEMMA BehindTrue ==
  ASSUME PixInv, NEW start, SwapTrue(start), NEW decorated \in BOOLEAN,
         decorated => SlotMade("decoration")
  PROVE  LET after == IF decorated
                      THEN blit_overlay(start, "decoration", Opaque)
                      ELSE start
         IN /\ SwapTrue(after) /\ GlKept(start.gl, after.gl)
            /\ NoGame(start.seen) => NoGame(after.seen)
            /\ start.context.program => after.context.program
<1>1. CASE ~decorated
  BY <1>1 DEF GlKept
<1>2. CASE decorated
  <2>1. "decoration" \in Overlays /\ Opaque \in Opacities
    BY DEF Overlays, Opacities
  <2> DEFINE after == blit_overlay(start, "decoration", Opaque)
  <2>2. /\ SwapTrue(after) /\ GlKept(start.gl, after.gl)
        /\ AtMostDrawn(start.seen, after.seen)
        /\ start.context.program => after.context.program
    BY <1>2, <2>1, BlitTrue
  <2> HIDE DEF after
  <2>3. start.seen \in Seq(SdlSeen)
    BY StepHas
  <2>4. NoGame(start.seen) => NoGame(after.seen)
    BY <2>2, <2>3, DrawnOver
  <2> QED BY <1>2, <2>2, <2>4 DEF after
<1> QED BY <1>1, <1>2

LEMMA AboveTrue ==
  ASSUME PixInv, NEW start, SwapTrue(start), NEW decorated \in BOOLEAN,
         decorated => SlotMade("decoration")
  PROVE  LET after == IF decorated THEN blit_decoration_damage(start)
                      ELSE start
         IN /\ SwapTrue(after) /\ GlKept(start.gl, after.gl)
            /\ OneGame(start.seen) => OneGame(after.seen)
<1>1. CASE ~decorated
  BY <1>1 DEF GlKept
<1>2. CASE decorated
  <2> DEFINE after == blit_decoration_damage(start)
  <2>1. /\ SwapTrue(after) /\ GlKept(start.gl, after.gl)
        /\ AtMostDrawn(start.seen, after.seen)
    BY <1>2, DamageTrue
  <2> HIDE DEF after
  <2>2. start.seen \in Seq(SdlSeen)
    BY StepHas
  <2>3. OneGame(start.seen) => OneGame(after.seen)
    BY <2>1, <2>2, DrawnOver
  <2> QED BY <1>2, <2>1, <2>3 DEF after
<1> QED BY <1>1, <1>2

\* The names that a swap has saved come back, and the first unit's texture.
LEMMA SwapRestores ==
  ASSUME NEW active \in {"unit0", "unit1"}, NEW during \in Gl, InSwap(during)
  PROVE  LET after == GlRestored(OfCore(active), during, SwapNames)
         IN /\ after \in Gl
            /\ \A n \in Names \ {"array"} : after[n] = OfCore(active)[n]
<1> DEFINE core == OfCore(active)
           bound == Bind(during, core.unit0)
           after == GlRestored(core, during, SwapNames)
<1>1. core \in Gl /\ core.unit0 = "core" /\ "core" \in GlValues
  BY CoreGl DEF OfCore, GlValues
<1>2. bound \in Gl /\ bound = [during EXCEPT !.unit0 = "core"]
  BY <1>1, BindIs DEF InSwap
<1>3. /\ bound.unit0 = "core" /\ bound.unit1 = "core"
      /\ bound.unpack = "core" /\ bound.blend = "core"
      /\ bound.scissor = "core"
  BY <1>2 DEF Gl, InSwap
<1>4. after = RestoredNames(core, bound, SwapNames)
  BY DEF GlRestored
<1>5. core = [draw |-> "core", read |-> "core", program |-> "core",
              vao |-> "core", array |-> "core", active |-> active,
              unit0 |-> "core", unit1 |-> "core", viewport |-> "core",
              unpack |-> "core", blend |-> "core", scissor |-> "core"]
  BY DEF OfCore
<1> HIDE DEF bound, core, after
<1>6. after = [draw |-> "core", read |-> "core", program |-> "core",
               vao |-> "core", array |-> bound.array, active |-> active,
               unit0 |-> "core", unit1 |-> "core", viewport |-> "core",
               unpack |-> "core", blend |-> "core", scissor |-> "core"]
  <2>1. after = [draw |-> core.draw, read |-> core.read,
            program |-> core.program, vao |-> core.vao,
            array |-> bound.array, active |-> core.active,
            unit0 |-> bound.unit0, unit1 |-> bound.unit1,
            viewport |-> core.viewport, unpack |-> bound.unpack,
            blend |-> bound.blend, scissor |-> bound.scissor]
    BY <1>1, <1>2, <1>4, RestoredSwapNames
  <2> QED BY <1>3, <1>5, <2>1
<1>7. Names = {"draw", "read", "program", "vao", "array", "active", "unit0",
               "unit1", "viewport", "unpack", "blend", "scissor"}
  BY DEF Names, OfCore
<1>8. after \in Gl
  BY <1>2, <1>6 DEF Gl, GlValues
<1>9. \A n \in Names \ {"array"} : after[n] = core[n]
  BY <1>5, <1>6, <1>7
<1> QED BY <1>8, <1>9 DEF after, core

\* A core that draws in a framebuffer finds OpenGL as it left it.
LEMMA FramebufferTrue ==
  ASSUME PixInv, shownBy = "context", NEW active \in {"unit0", "unit1"},
         NEW visible \in Visible, NEW opacity \in Opacities,
         opacity = Opaque \/ "full" \in visible, NEW upright \in BOOLEAN
  PROVE  LET start == SwapStep(OfCore(active), context, << >>)
             after == SwappedFramebuffer(start, visible, opacity, upright)
         IN /\ SwapTrue(after) /\ OneGame(after.seen)
            /\ \A n \in Names \ {"array"} : after.gl[n] = OfCore(active)[n]
<1> DEFINE start == SwapStep(OfCore(active), context, << >>)
           window0 == [start.gl EXCEPT !.active = "unit0", !.draw = "window",
                                       !.viewport = "ours"]
           cleared == WithGl(start, window0)
           decorated == "decoration" \in visible
           behind == IF decorated
                     THEN blit_overlay(cleared, "decoration", Opaque)
                     ELSE cleared
           read == Bound(behind, "read", "frame")
           drawn == draw_post_processed_frame(read, upright)
           added == SwapStep(drawn.gl, drawn.context,
                             Append(drawn.seen, GameSeen(video_filter)))
           game == IF Processes(behind, upright) THEN drawn ELSE added
           window == Bound(game, "draw", "window")
           above == IF decorated THEN blit_decoration_damage(window)
                    ELSE window
           all == draw_overlays(above, visible, opacity)
           after == SwappedFramebuffer(start, visible, opacity, upright)
<1>0. after = WithGl(all, GlRestored(start.gl, all.gl, SwapNames))
  BY DEF SwappedFramebuffer
<1>1. /\ SwapTrue(start) /\ NoGame(start.seen) /\ start.gl = OfCore(active)
      /\ start.gl \in Gl
  BY StartTrue, CoreGl
<1>2. decorated \in BOOLEAN /\ (decorated => SlotMade("decoration"))
  BY DEF Visible
<1> HIDE DEF start, decorated, after
<1>3. window0 \in Gl /\ InSwap(window0)
  <2> DEFINE g == start.gl
  <2>1. /\ g \in Gl /\ g.unit1 = "core" /\ g.unpack = "core"
        /\ g.blend = "core" /\ g.scissor = "core"
        /\ window0 = [g EXCEPT !.active = "unit0", !.draw = "window",
                               !.viewport = "ours"]
    BY <1>1 DEF OfCore
  <2> HIDE DEF g, window0
  <2> QED BY <2>1 DEF Gl, GlValues, InSwap
<1> HIDE DEF window0
<1>4. /\ SwapTrue(cleared) /\ InSwap(cleared.gl) /\ NoGame(cleared.seen)
  BY <1>1, <1>3, WithGlTrue
<1> HIDE DEF cleared
<1>5. SwapTrue(behind) /\ InSwap(behind.gl) /\ NoGame(behind.seen)
  BY <1>2, <1>4, BehindTrue, KeptInSwap
<1> HIDE DEF behind
<1>6. /\ SwapTrue(read) /\ InSwap(read.gl) /\ NoGame(read.seen)
      /\ read.context = behind.context
  BY <1>5, BoundTrue
<1> HIDE DEF read
<1>7. /\ SwapTrue(drawn) /\ InSwap(drawn.gl)
      /\ Processes(behind, upright) => OneGame(drawn.seen)
      /\ ~Processes(behind, upright) => drawn.seen = read.seen
  BY <1>6, PostTrue, PipelineOfContext
<1> HIDE DEF drawn
<1>8. SwapTrue(game) /\ InSwap(game.gl) /\ OneGame(game.seen)
  <2>1. CASE Processes(behind, upright)
    BY <1>7, <2>1
  <2>2. CASE ~Processes(behind, upright)
    <3> DEFINE seen == Append(drawn.seen, GameSeen(video_filter))
    <3>1. /\ drawn.gl \in Gl /\ drawn.context \in SdlContexts
          /\ drawn.seen \in Seq(SdlSeen)
          /\ AllTrue(drawn.seen) /\ ContextTrue(drawn.context)
          /\ drawn.context.fbo = context.fbo /\ NoGame(drawn.seen)
      BY <1>6, <1>7, <2>2, StepHas DEF SwapTrue
    <3>2. seen \in Seq(SdlSeen) /\ AllTrue(seen) /\ OneGame(seen)
      BY <3>1, GameAdded
    <3>3. game = SwapStep(drawn.gl, drawn.context, seen)
      BY <2>2
    <3> HIDE DEF seen, game
    <3>4. /\ game \in SwapSteps /\ game.gl = drawn.gl
          /\ game.context = drawn.context /\ game.seen = seen
      BY <3>1, <3>2, <3>3, StepIs
    <3> QED BY <1>7, <3>1, <3>2, <3>4 DEF SwapTrue
  <2> QED BY <2>1, <2>2
<1> HIDE DEF game
<1>9. SwapTrue(window) /\ InSwap(window.gl) /\ OneGame(window.seen)
  BY <1>8, BoundTrue
<1> HIDE DEF window
<1>10. SwapTrue(above) /\ InSwap(above.gl) /\ OneGame(above.seen)
  BY <1>2, <1>9, AboveTrue, KeptInSwap
<1> HIDE DEF above
<1>11. SwapTrue(all) /\ InSwap(all.gl) /\ OneGame(all.seen)
  BY <1>10, OverlaysTrue, KeptInSwap
<1> HIDE DEF all
<1> DEFINE restored == GlRestored(start.gl, all.gl, SwapNames)
<1>12. /\ restored \in Gl
       /\ \A n \in Names \ {"array"} : restored[n] = OfCore(active)[n]
  <2>1. all.gl \in Gl
    BY <1>11, StepHas
  <2> QED BY <1>1, <1>11, <2>1, SwapRestores
<1> HIDE DEF restored
<1>13. /\ SwapTrue(after) /\ after.gl = restored /\ after.seen = all.seen
  BY <1>0, <1>11, <1>12, WithGlTrue DEF restored
<1> QED BY <1>11, <1>12, <1>13 DEF after, start

\* A core that draws in the window has its picture seenNow as it is, or copied
\* and drawn again.
LEMMA DefaultTrue ==
  ASSUME PixInv, shownBy = "context", NEW active \in {"unit0", "unit1"},
         NEW visible \in Visible, NEW opacity \in Opacities,
         opacity = Opaque \/ "full" \in visible, NEW upright \in BOOLEAN,
         NEW fits \in BOOLEAN
  PROVE  LET start == SwapStep(OfCore(active), context, << >>)
             after == SwappedDefault(start, visible, opacity, upright, fits)
         IN /\ SwapTrue(after)
            /\ ~NothingToDo(upright) \/ "decoration" \notin visible
                 => OneGame(after.seen)
<1> DEFINE start == SwapStep(OfCore(active), context, << >>)
           window0 == [start.gl EXCEPT !.draw = "window", !.read = "window"]
           game0 == <<GameSeen(video_filter)>>
           window == SwapStep(window0, start.context, game0)
           decorated == "decoration" \in visible
           wanted == ~NothingToDo(upright) \/ decorated
           ready == IF wanted THEN ensure_post_pipeline(window) ELSE window
           copies == wanted /\ ready.context.program /\ fits
           copied0 == [ready.gl EXCEPT !.active = "unit0", !.unit0 = "frame",
                                       !.viewport = "ours"]
           copied == SwapStep(copied0, ready.context, << >>)
           behind == IF decorated
                     THEN blit_overlay(copied, "decoration", Opaque)
                     ELSE copied
           game == draw_post_processed_frame(behind, upright)
           above == IF decorated THEN blit_decoration_damage(game) ELSE game
           seenNow == IF copies THEN above ELSE ready
           after == SwappedDefault(start, visible, opacity, upright, fits)
<1>0. after = draw_overlays(seenNow, visible, opacity)
  BY DEF SwappedDefault
<1>1. /\ SwapTrue(start) /\ start.gl \in Gl /\ start.context \in SdlContexts
  BY StartTrue, StepHas
<1>2. decorated \in BOOLEAN /\ (decorated => SlotMade("decoration"))
  BY DEF Visible
<1> HIDE DEF start, after
<1>3. window0 \in Gl
  BY <1>1 DEF Gl, GlValues
<1>4. game0 \in Seq(SdlSeen) /\ AllTrue(game0) /\ OneGame(game0)
  <2>1. /\ << >> \in Seq(SdlSeen) /\ AllTrue(<< >>) /\ NoGame(<< >>)
        /\ game0 = Append(<< >>, GameSeen(video_filter))
    BY DEF AllTrue, NoGame
  <2> HIDE DEF game0
  <2> QED BY <2>1, GameAdded
<1> HIDE DEF window0, game0
<1>5. SwapTrue(window) /\ OneGame(window.seen)
  <2>1. /\ window \in SwapSteps /\ window.context = start.context
        /\ window.seen = game0
    BY <1>1, <1>3, <1>4, StepIs
  <2> HIDE DEF window
  <2> QED BY <1>1, <1>4, <2>1 DEF SwapTrue
<1> HIDE DEF window
<1>6. SwapTrue(ready) /\ OneGame(ready.seen)
  <2>1. CASE wanted
    BY <1>5, <2>1, PipelineTrue
  <2>2. CASE ~wanted
    BY <1>5, <2>2
  <2> QED BY <2>1, <2>2
<1> HIDE DEF ready
<1>7. ready.gl \in Gl /\ ready.context \in SdlContexts
  BY <1>6, StepHas
<1>8. copied0 \in Gl
  BY <1>7 DEF Gl, GlValues
<1> HIDE DEF copied0
<1>9. SwapTrue(copied) /\ NoGame(copied.seen) /\ copied.context = ready.context
  <2>1. << >> \in Seq(SdlSeen) /\ AllTrue(<< >>) /\ NoGame(<< >>)
    BY DEF AllTrue, NoGame
  <2> DEFINE none == << >>
             bare == SwapStep(copied0, ready.context, none)
  <2>2. none \in Seq(SdlSeen) /\ copied = bare
    BY <2>1
  <2> HIDE DEF none, copied
  <2>3. /\ bare \in SwapSteps /\ bare.context = ready.context
        /\ bare.seen = none
    BY <1>7, <1>8, <2>2, StepIs
  <2> HIDE DEF bare
  <2> QED BY <1>6, <2>1, <2>2, <2>3 DEF SwapTrue, none
<1> HIDE DEF copied
<1>10. /\ SwapTrue(behind) /\ NoGame(behind.seen)
       /\ copied.context.program => behind.context.program
  BY <1>2, <1>9, BehindTrue
<1> HIDE DEF behind
<1>11. /\ SwapTrue(game)
       /\ Processes(behind, upright) => OneGame(game.seen)
  BY <1>10, PostTrue
<1>12. ~NothingToDo(upright) /\ behind.context.program
         => Processes(behind, upright)
  BY <1>10, PipelineTrue DEF Processes
<1> HIDE DEF game
<1>13. SwapTrue(above) /\ (OneGame(game.seen) => OneGame(above.seen))
  BY <1>2, <1>11, AboveTrue
<1> HIDE DEF above
<1>14. /\ SwapTrue(seenNow)
       /\ ~NothingToDo(upright) \/ "decoration" \notin visible
            => OneGame(seenNow.seen)
  <2>1. CASE copies
    BY <1>9, <1>10, <1>11, <1>12, <1>13, <2>1
  <2>2. CASE ~copies
    BY <1>6, <2>2
  <2> QED BY <2>1, <2>2
<1> HIDE DEF seenNow
<1>15. /\ SwapTrue(after) /\ (OneGame(seenNow.seen) => OneGame(after.seen))
  BY <1>0, <1>14, OverlaysTrue
<1> QED BY <1>14, <1>15 DEF after, start

LEMMA SwappedTrue ==
  ASSUME PixInv, shownBy = "context", NEW s \in Swaps
  PROVE  /\ SwapTrue(Swapped(s)) /\ CoreStateKept(s, Swapped(s).gl)
         /\ GameSeenOnce(s, Swapped(s).seen)
<1>1. /\ s.active \in {"unit0", "unit1"} /\ s.visible \in Visible
      /\ s.opacity \in Opacities /\ s.upright \in BOOLEAN
      /\ s.fits \in BOOLEAN
      /\ s.opacity = Opaque \/ "full" \in s.visible
  BY DEF Swaps
<1> DEFINE start == SwapStep(OfCore(s.active), context, << >>)
           after == Swapped(s)
<1>2. CASE context.fbo
  <2>1. after = SwappedFramebuffer(start, s.visible, s.opacity, s.upright)
    BY <1>2 DEF Swapped
  <2> HIDE DEF after
  <2>2. /\ SwapTrue(after) /\ OneGame(after.seen)
        /\ \A n \in Names \ {"array"} : after.gl[n] = OfCore(s.active)[n]
    BY <1>1, <2>1, FramebufferTrue
  <2>3. after.seen \in Seq(SdlSeen)
    BY <2>2, StepHas
  <2>4. GameSeenOnce(s, after.seen)
    BY <2>2, <2>3, OneGameCounted DEF GameSeenOnce
  <2> QED BY <2>2, <2>4 DEF CoreStateKept, after
<1>3. CASE ~context.fbo
  <2>1. after = SwappedDefault(start, s.visible, s.opacity, s.upright, s.fits)
    BY <1>3 DEF Swapped
  <2> HIDE DEF after
  <2>2. /\ SwapTrue(after)
        /\ ~NothingToDo(s.upright) \/ "decoration" \notin s.visible
             => OneGame(after.seen)
    BY <1>1, <2>1, DefaultTrue
  <2>3. after.seen \in Seq(SdlSeen)
    BY <2>2, StepHas
  <2>4. GameSeenOnce(s, after.seen)
    BY <1>3, <2>2, <2>3, OneGameCounted DEF GameSeenOnce
  <2> QED BY <1>3, <2>2, <2>4 DEF CoreStateKept, after
<1> QED BY <1>2, <1>3

LEMMA SwapStepKeeps == PixInv /\ SwapBuffers => PixInv'
<1> SUFFICES ASSUME PixInv, SwapBuffers PROVE PixInv'
  OBVIOUS
<1>1. PICK s \in Swaps : context' = Swapped(s).context
  BY DEF SwapBuffers
<1>2. SwapTrue(Swapped(s))
  BY SwappedTrue DEF SwapBuffers
<1>3. context' \in SdlContexts /\ ContextTrue(context')
  BY <1>1, <1>2, StepHas DEF SwapTrue
<1>4. /\ UNCHANGED <<surfaceVars, shownBy, textures, sdlFilterVars, vsyncVars,
                     sdlWindowVars>>
      /\ heap' = heap /\ slotOf' = slotOf
      /\ next_surface_generation' = next_surface_generation
  BY DEF SwapBuffers, surfaceVars
<1>5. PixTypes'
  BY <1>3, <1>4 DEF PixInv, PixTypes, sdlFilterVars, vsyncVars
<1>6. SlotsPlaced' /\ SlotsApart' /\ GenerationsPast'
  BY <1>4 DEF PixInv, SlotsPlaced, SlotsApart, GenerationsPast, SlotMade,
              SurfaceIn
<1>7. TexturesTrue(textures)'
  BY <1>4 DEF PixInv, TexturesTrue, CopyTrue
<1>8. ContextTrue(context)'
  BY <1>3, <1>4 DEF ContextTrue, CopyTrue
<1> QED BY <1>4, <1>5, <1>6, <1>7, <1>8, WindowStays DEF PixInv

\* Steps that leave surfaces, textures and context alone.
LEMMA PictureStays ==
  ASSUME PixInv, UNCHANGED surfaceVars, textures' = textures,
         context' = context, shownBy' = shownBy, UNCHANGED sdlFilterVars,
         vsync_enabled' \in BOOLEAN, vsync_applied' \in BOOLEAN,
         interval' \in BOOLEAN, WindowTrue'
  PROVE  PixInv'
<1>1. /\ heap' = heap /\ slotOf' = slotOf
      /\ next_surface_generation' = next_surface_generation
  BY DEF surfaceVars
<1>2. PixTypes'
  BY <1>1 DEF PixInv, PixTypes, sdlFilterVars
<1>3. SlotsPlaced' /\ SlotsApart' /\ GenerationsPast'
  BY <1>1 DEF PixInv, SlotsPlaced, SlotsApart, GenerationsPast, SlotMade,
              SurfaceIn
<1>4. TexturesTrue(textures)'
  BY <1>1 DEF PixInv, TexturesTrue, CopyTrue
<1>5. (shownBy = "context" => ContextTrue(context))'
  BY <1>1 DEF PixInv, ContextTrue, CopyTrue
<1> QED BY <1>2, <1>3, <1>4, <1>5 DEF PixInv

\* Steps at whose end there is no surface and no texture.
LEMMA AllFreedStep ==
  ASSUME PixInv, AllFreed,
         next_surface_generation' = next_surface_generation,
         UNCHANGED sdlFilterVars,
         vsync_enabled' \in BOOLEAN, vsync_applied' \in BOOLEAN,
         interval' \in BOOLEAN, WindowTrue',
         shownBy' = "context" =>
           \E fbo, works \in BOOLEAN : context' = NewContext(fbo, works)
  PROVE  PixInv'
<1>1. NoSurface.generation = 0 /\ ~NoTexture.made
  BY DEF NoSurface, NoTexture
<1>2. shownBy' = "context" => context' \in SdlContexts /\ ContextTrue(context)'
  <2> SUFFICES ASSUME NEW fbo \in BOOLEAN, NEW works \in BOOLEAN,
                      context' = NewContext(fbo, works)
               PROVE  context' \in SdlContexts /\ ContextTrue(context)'
    OBVIOUS
  <2>1. /\ context' \in SdlContexts /\ context'.overlay = NoOverlay
        /\ context'.post_texture_filter = "unknown"
    BY DEF NewContext, SdlContexts, NoOverlay, SdlFilters
  <2> QED BY <2>1 DEF ContextTrue
<1>3. PixTypes'
  BY <1>2 DEF PixInv, PixTypes, AllFreed, sdlFilterVars
<1>4. SlotsPlaced' /\ SlotsApart'
  BY DEF AllFreed, SlotsPlaced, SlotsApart, SlotMade
<1>5. GenerationsPast' /\ TexturesTrue(textures)'
  BY <1>1 DEF AllFreed, GenerationsPast, TexturesTrue, PixInv, PixTypes
<1> QED BY <1>2, <1>3, <1>4, <1>5 DEF PixInv

LEMMA PresenterCreateStep == PixInv /\ rr_presenter_create => PixInv'
<1> SUFFICES ASSUME PixInv, rr_presenter_create PROVE PixInv'
  OBVIOUS
<1>1. PICK waits \in BOOLEAN, told \in BOOLEAN :
        /\ waits => vsync_enabled
        /\ interval' = waits
        /\ vsync_applied' = (told /\ (~vsync_enabled \/ waits))
  BY DEF rr_presenter_create
<1>2. /\ shownBy = "none" /\ shownBy' = "presenter" /\ logical' = displaySize
      /\ UNCHANGED <<surfaceVars, cacheVars, sdlFilterVars, vsync_enabled,
                     windowSize, displaySize>>
  BY DEF rr_presenter_create
<1>3. vsync_enabled \in BOOLEAN /\ interval' \in BOOLEAN
      /\ vsync_applied' \in BOOLEAN
  BY <1>1 DEF PixInv, PixTypes
<1>4. vsync_applied' => interval' = vsync_enabled
  BY <1>1, <1>3
<1>5. WindowTrue'
  BY <1>2, <1>4 DEF WindowTrue
<1>6. PixTypes'
  BY <1>2, <1>3 DEF PixInv, PixTypes, surfaceVars, cacheVars, sdlFilterVars
<1>7. /\ heap' = heap /\ slotOf' = slotOf /\ textures' = textures
      /\ next_surface_generation' = next_surface_generation
  BY <1>2 DEF surfaceVars, cacheVars
<1>8. SlotsPlaced' /\ SlotsApart' /\ GenerationsPast'
  BY <1>7 DEF PixInv, SlotsPlaced, SlotsApart, GenerationsPast, SlotMade,
              SurfaceIn
<1>9. TexturesTrue(textures)'
  BY <1>7 DEF PixInv, TexturesTrue, CopyTrue
<1> QED BY <1>2, <1>5, <1>6, <1>8, <1>9 DEF PixInv

LEMMA ContextCreateStep == PixInv /\ rr_context_create => PixInv'
<1> SUFFICES ASSUME PixInv, rr_context_create PROVE PixInv'
  OBVIOUS
<1>1. /\ AllFreed /\ vsync_enabled' = vsync_enabled
      /\ UNCHANGED <<next_surface_generation, sdlFilterVars>>
      /\ \/ shownBy' = "ended" /\ interval' = interval
              /\ vsync_applied' = vsync_applied
         \/ /\ shownBy' = "context"
            /\ \E fbo, works \in BOOLEAN : context' = NewContext(fbo, works)
            /\ vsync_applied' \in BOOLEAN
            /\ interval' = (vsync_applied' /\ vsync_enabled)
  BY DEF rr_context_create
<1>2. vsync_enabled \in BOOLEAN /\ interval \in BOOLEAN
      /\ vsync_applied \in BOOLEAN
  BY DEF PixInv, PixTypes
<1>3. /\ vsync_applied' \in BOOLEAN /\ interval' \in BOOLEAN
      /\ shownBy' \in {"ended", "context"}
      /\ shownBy' = "context" /\ vsync_applied' => interval' = vsync_enabled
  BY <1>1, <1>2
<1>4. WindowTrue'
  BY <1>1, <1>3 DEF WindowTrue, DeviceOpen
<1> QED BY <1>1, <1>2, <1>3, <1>4, AllFreedStep

LEMMA SdlDeinitStep == PixInv /\ SdlDeinit => PixInv'
<1> SUFFICES ASSUME PixInv, SdlDeinit PROVE PixInv'
  OBVIOUS
<1>1. /\ AllFreed /\ shownBy' = "ended"
      /\ UNCHANGED <<next_surface_generation, sdlFilterVars, vsyncVars>>
  BY DEF SdlDeinit
<1>2. WindowTrue'
  BY <1>1 DEF WindowTrue, DeviceOpen
<1> QED BY <1>1, <1>2, AllFreedStep DEF PixInv, PixTypes, vsyncVars

LEMMA VsyncSetStep == PixInv /\ rr_video_vsync_set => PixInv'
<1> SUFFICES ASSUME PixInv, NEW on \in BOOLEAN, NEW ok \in BOOLEAN,
                    VsyncSet(on, ok)
             PROVE  PixInv'
  BY DEF rr_video_vsync_set
<1>1. /\ vsync_enabled' = on /\ vsync_applied' = (DeviceOpen /\ ok)
      /\ interval' = IF DeviceOpen /\ ok THEN on ELSE interval
      /\ UNCHANGED <<surfaceVars, shownBy, cacheVars, sdlFilterVars,
                     sdlWindowVars>>
  BY DEF VsyncSet
<1>2. interval \in BOOLEAN /\ DeviceOpen \in BOOLEAN
  BY DEF PixInv, PixTypes, DeviceOpen
<1>3. /\ vsync_applied' \in BOOLEAN /\ interval' \in BOOLEAN
      /\ vsync_applied' => interval' = on
  BY <1>1, <1>2
<1>4. WindowTrue'
  BY <1>1, <1>3 DEF PixInv, WindowTrue, sdlWindowVars
<1> QED BY <1>1, <1>3, <1>4, PictureStays DEF cacheVars

\* What changes the window, the display's size or the filters.
LEMMA SetFiltersStep == PixInv /\ SetFilters => PixInv'
<1> SUFFICES ASSUME PixInv, SetFilters PROVE PixInv'
  OBVIOUS
<1>1. /\ video_filter' \in SdlFilters /\ video_shader' \in {"off", "crt"}
      /\ UNCHANGED <<surfaceVars, shownBy, cacheVars, vsyncVars,
                     sdlWindowVars>>
  BY DEF SetFilters, SdlFilters, PixInv, PixTypes
<1>2. PixTypes'
  BY <1>1 DEF PixInv, PixTypes, surfaceVars, cacheVars, vsyncVars
<1>3. /\ heap' = heap /\ slotOf' = slotOf /\ textures' = textures
      /\ next_surface_generation' = next_surface_generation
      /\ context' = context /\ shownBy' = shownBy
  BY <1>1 DEF surfaceVars, cacheVars
<1>4. SlotsPlaced' /\ SlotsApart' /\ GenerationsPast'
  BY <1>3 DEF PixInv, SlotsPlaced, SlotsApart, GenerationsPast, SlotMade,
              SurfaceIn
<1>5. TexturesTrue(textures)'
  BY <1>3 DEF PixInv, TexturesTrue, CopyTrue
<1>6. (shownBy = "context" => ContextTrue(context))'
  BY <1>3 DEF PixInv, ContextTrue, CopyTrue
<1> QED BY <1>1, <1>2, <1>4, <1>5, <1>6, WindowStays DEF PixInv

LEMMA WindowSizeStep ==
  PixInv /\ (ResizeWindow \/ refresh_display_size) => PixInv'
<1> SUFFICES ASSUME PixInv, ResizeWindow \/ refresh_display_size
             PROVE  PixInv'
  OBVIOUS
<1>1. /\ UNCHANGED <<surfaceVars, shownBy, cacheVars, sdlFilterVars,
                     vsyncVars>>
      /\ \/ displaySize' = displaySize /\ logical' = logical
         \/ Refreshed(windowSize)
  BY DEF ResizeWindow, refresh_display_size
<1>2. WindowTrue'
  BY <1>1 DEF PixInv, WindowTrue, DeviceOpen, Refreshed, vsyncVars
<1> QED BY <1>1, <1>2, PictureStays
        DEF PixInv, PixTypes, cacheVars, vsyncVars

LEMMA SurfaceLockStep == PixInv /\ SurfaceLock => PixInv'
<1> SUFFICES ASSUME PixInv, SurfaceLock PROVE PixInv'
  OBVIOUS
<1>1. /\ next_surface_generation' = next_surface_generation + 1
      /\ next_surface_generation \in Nat \ {0}
      /\ heap \in [Addresses -> SdlSurfaces \cup {NoSurface}]
      /\ UNCHANGED <<heap, slotOf, shownBy, cacheVars, sdlFilterVars,
                     vsyncVars, sdlWindowVars>>
  BY DEF SurfaceLock, PixInv, PixTypes
<1>2. GenerationsPast' /\ TexturesTrue(textures)'
      /\ (shownBy = "context" => ContextTrue(context))'
  <2> DEFINE freed == heap
             where == {}
  <2>1. /\ freed \in [Addresses -> SdlSurfaces \cup {NoSurface}]
        /\ heap' \in [Addresses -> SdlSurfaces \cup {NoSurface}]
        /\ \A d \in Addresses : freed[d] \in {heap[d], NoSurface}
        /\ \A d \in Addresses \ where : heap'[d] = freed[d]
        /\ where \in SUBSET Addresses
        /\ \A d \in where : /\ heap'[d].generation >= next_surface_generation
                            /\ heap'[d].generation < next_surface_generation'
    BY <1>1
  <2>2. /\ next_surface_generation' \in Nat \ {0}
        /\ next_surface_generation' >= next_surface_generation
        /\ textures' = textures /\ context' = context /\ shownBy' = shownBy
    BY <1>1 DEF cacheVars
  <2> HIDE DEF where, freed
  <2> QED BY <2>1, <2>2, NewSurface
<1>3. PixTypes'
  BY <1>1 DEF PixInv, PixTypes, cacheVars, sdlFilterVars, vsyncVars
<1>4. SlotsPlaced' /\ SlotsApart'
  BY <1>1 DEF PixInv, SlotsPlaced, SlotsApart, SlotMade, SurfaceIn
<1> QED BY <1>1, <1>2, <1>3, <1>4, WindowStays DEF PixInv

LEMMA PixInvNext == PixInv /\ [SdlVideoNext]_sdlVideoVars => PixInv'
<1> SUFFICES ASSUME PixInv, [SdlVideoNext]_sdlVideoVars PROVE PixInv'
  OBVIOUS
<1>1. CASE PictureSteps
  BY <1>1, ReplaceSurfaceStep, ReplaceDecorationStep, RemoveDecorationStep,
     DrawInStep, PresentStep, SwapStepKeeps, SurfaceLockStep, SetFiltersStep
     DEF PictureSteps
<1>2. CASE DeviceSteps
  BY <1>2, PresenterCreateStep, ContextCreateStep, SdlDeinitStep
     DEF DeviceSteps
<1>3. CASE WindowSteps
  BY <1>3, VsyncSetStep, WindowSizeStep DEF WindowSteps
<1>4. CASE UNCHANGED sdlVideoVars
  <2>1. UNCHANGED <<surfaceVars, shownBy, cacheVars, sdlFilterVars, vsyncVars,
                    sdlWindowVars>>
    BY <1>4 DEF sdlVideoVars
  <2> QED BY <2>1, PictureStays, WindowStays
          DEF PixInv, PixTypes, cacheVars, vsyncVars
<1> QED BY <1>1, <1>2, <1>3, <1>4 DEF SdlVideoNext

\* Whatever is drawn, made at another's address, or fails to be uploaded: a
\* frame shows every surface with the contents it has, and the game once, and
\* leaves a core that draws in a framebuffer its OpenGL.
THEOREM SdlPictureHolds == SdlVideoSpec => []SdlPictureTrue
<1>1. PixInv => PictureCurrent
  BY PresentsTrue DEF PictureCurrent, PresentTrue
<1>2. PixInv => SwapsTrue
  BY SwappedTrue DEF SwapsTrue, SwapTrue
<1>3. SdlVideoSpec => []PixInv
  BY SdlInit, PixInvNext, PTL DEF SdlVideoSpec
<1>4. PixInv => WindowTrue
  BY DEF PixInv
<1> QED BY <1>1, <1>2, <1>3, <1>4, PTL DEF SdlPictureTrue
=============================================================================
