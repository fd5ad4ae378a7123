---------------------------- MODULE VideoProofs -----------------------------
(***************************************************************************)
(* The presenter and the video pipeline, proved for any number of frame    *)
(* buffers, surfaces and frames: the presenter's invariants for callers    *)
(* that keep to its contract, and that the pipeline keeps to it.           *)
(***************************************************************************)
EXTENDS VideoProperties, FiniteSetTheorems, TLAPS

-----------------------------------------------------------------------------
(* The presenter's inductive invariant.                                    *)

PresenterTypes ==
  /\ freeQ \in Seq(Buffers) /\ usedQ \in Seq(Buffers)
  /\ freeSem \in Nat /\ usedSem \in Nat /\ pending \in Nat
  /\ terminating \in BOOLEAN
  /\ rpc \in {"wait", "check", "pop", "flip", "settle", "recycle", "post",
              "quit", "done"}
  /\ dst \in Buffers \cup {None} /\ prev \in Buffers \cup {None}
  /\ cpc \in [Callers -> {"idle", "wait", "pop", "draw", "push", "signal",
                          "wake", "join", "gone"}]
  /\ cbuf \in [Callers -> Buffers \cup {None}]

\* The callers at a stage.
AtStage(f, stage) == {t \in Callers : f[t] = stage}
CountAt(f, stage) == Cardinality(AtStage(f, stage))

One(condition) == IF condition THEN 1 ELSE 0

\* Each semaphore is what its queue holds, less what has been promised, and
\* less what is in a queue and not yet announced; pending is what is neither
\* on the screen nor with a caller.
Counts ==
  ~terminating =>
    /\ Len(freeQ) = freeSem + CountAt(cpc, "pop") + One(rpc = "post")
    /\ Len(usedQ) = usedSem + CountAt(cpc, "signal")
                            + One(rpc \in {"check", "pop"})
    /\ pending = Len(usedQ) + One(rpc \in {"flip", "settle"})

\* The presenter terminates only once all is quiet.
Endgame ==
  /\ terminating =>
       /\ usedQ = << >> /\ rpc \notin {"pop", "flip", "settle"}
       /\ \A t \in Callers : cpc[t] \in {"idle", "wake", "join", "gone"}
  /\ ~terminating =>
       /\ rpc \notin {"quit", "done"}
       /\ \A t \in Callers : cpc[t] \notin {"wake", "join", "gone"}

Distinct(q) == \A i, j \in DOMAIN q : q[i] = q[j] => i = j

\* A buffer outside both queues.
Outside(b) == b \notin Elements(freeQ) /\ b \notin Elements(usedQ)

\* Every buffer is in one place: a queue, a caller's or the render thread's
\* hands.
QueuesApart ==
  /\ Distinct(freeQ) /\ Distinct(usedQ)
  /\ \A b \in Elements(freeQ) : b \notin Elements(usedQ)

CallersApart ==
  \A t \in Callers :
    /\ cbuf[t] # None <=> cpc[t] \in {"draw", "push"}
    /\ cbuf[t] # None =>
         /\ Outside(cbuf[t]) /\ cbuf[t] # dst /\ cbuf[t] # prev
         /\ \A u \in Callers \ {t} : cbuf[u] # cbuf[t]

RenderApart ==
  /\ dst # None <=> rpc \in {"flip", "settle", "recycle"}
  /\ dst # None => Outside(dst) /\ dst # prev
  /\ prev # None => Outside(prev)
  /\ rpc = "recycle" => prev # None
  /\ rpc \in {"settle", "recycle"} => scan = dst
  /\ rpc \notin {"settle", "recycle", "done"} => scan \in {None, prev}

PresenterInv ==
  /\ PresenterTypes /\ Counts /\ Endgame
  /\ QueuesApart /\ CallersApart /\ RenderApart

-----------------------------------------------------------------------------
(* Queues and counts.                                                      *)

\* What a pop leaves.
LEMMA PoppedQueue ==
  ASSUME NEW S, NEW q \in Seq(S), q # << >>
  PROVE  /\ Tail(q) \in Seq(S) /\ Len(Tail(q)) = Len(q) - 1
         /\ Head(q) \in S /\ Head(q) \in Elements(q)
         /\ \A b : b \in Elements(Tail(q)) => b \in Elements(q)
         /\ Distinct(q) =>
              Distinct(Tail(q)) /\ Head(q) \notin Elements(Tail(q))
  <1>1. /\ Len(q) \in Nat /\ Len(q) > 0 /\ DOMAIN q = 1..Len(q)
        /\ Tail(q) \in Seq(S) /\ Len(Tail(q)) = Len(q) - 1
        /\ DOMAIN Tail(q) = 1..(Len(q) - 1)
        /\ Head(q) = q[1] /\ q[1] \in S
        /\ \A i \in 1..(Len(q) - 1) : Tail(q)[i] = q[i + 1]
    OBVIOUS
  <1>2. Head(q) \in Elements(q)
    BY <1>1 DEF Elements
  <1>3. \A b : b \in Elements(Tail(q)) => b \in Elements(q)
    <2> SUFFICES ASSUME NEW i \in 1..(Len(q) - 1)
                 PROVE  q[i + 1] \in Elements(q)
      BY <1>1 DEF Elements
    <2>1. i + 1 \in 1..Len(q)
      BY <1>1
    <2> QED BY <2>1, <1>1 DEF Elements
  <1>4. ASSUME Distinct(q) PROVE Distinct(Tail(q))
    BY <1>1, <1>4 DEF Distinct
  <1>5. ASSUME Distinct(q) PROVE Head(q) \notin Elements(Tail(q))
    <2> SUFFICES ASSUME NEW i \in 1..(Len(q) - 1), q[1] = q[i + 1]
                 PROVE  FALSE
      BY <1>1 DEF Elements
    <2>1. i + 1 \in 1..Len(q) /\ 1 \in 1..Len(q) /\ i + 1 # 1
      BY <1>1
    <2> QED BY <2>1, <1>1, <1>5 DEF Distinct
  <1> QED BY <1>1, <1>2, <1>3, <1>4, <1>5

\* What a push adds.
LEMMA PushedQueue ==
  ASSUME NEW S, NEW q \in Seq(S), NEW x \in S
  PROVE  /\ Append(q, x) \in Seq(S) /\ Len(Append(q, x)) = Len(q) + 1
         /\ \A b : b \in Elements(Append(q, x)) <=> b \in Elements(q) \/ b = x
         /\ Distinct(q) /\ x \notin Elements(q) => Distinct(Append(q, x))
  <1>1. /\ Len(q) \in Nat /\ DOMAIN q = 1..Len(q)
        /\ Append(q, x) \in Seq(S) /\ Len(Append(q, x)) = Len(q) + 1
        /\ DOMAIN Append(q, x) = 1..(Len(q) + 1)
        /\ \A i \in 1..Len(q) : Append(q, x)[i] = q[i]
        /\ Append(q, x)[Len(q) + 1] = x
    OBVIOUS
  <1>2. \A b : b \in Elements(Append(q, x)) <=> b \in Elements(q) \/ b = x
    <2>1. ASSUME NEW i \in 1..(Len(q) + 1)
          PROVE  Append(q, x)[i] \in Elements(q) \/ Append(q, x)[i] = x
      <3>1. CASE i = Len(q) + 1
        BY <3>1, <1>1
      <3>2. CASE i # Len(q) + 1
        <4>1. i \in 1..Len(q)
          BY <3>2, <1>1
        <4> QED BY <4>1, <1>1 DEF Elements
      <3> QED BY <3>1, <3>2
    <2>2. ASSUME NEW i \in 1..Len(q) PROVE q[i] \in Elements(Append(q, x))
      <3>1. i \in 1..(Len(q) + 1)
        BY <1>1
      <3> QED BY <3>1, <1>1 DEF Elements
    <2>3. x \in Elements(Append(q, x))
      <3>1. Len(q) + 1 \in 1..(Len(q) + 1)
        BY <1>1
      <3> QED BY <3>1, <1>1 DEF Elements
    <2> QED BY <2>1, <2>2, <2>3, <1>1 DEF Elements
  <1>3. ASSUME Distinct(q), x \notin Elements(q) PROVE Distinct(Append(q, x))
    <2> SUFFICES ASSUME NEW i \in 1..(Len(q) + 1), NEW j \in 1..(Len(q) + 1),
                        Append(q, x)[i] = Append(q, x)[j], i # j
                 PROVE  FALSE
      BY <1>1 DEF Distinct
    <2>1. CASE i # Len(q) + 1 /\ j # Len(q) + 1
      <3>1. i \in 1..Len(q) /\ j \in 1..Len(q)
        BY <2>1, <1>1
      <3> QED BY <3>1, <1>1, <1>3 DEF Distinct
    <2>2. CASE i = Len(q) + 1
      <3>1. j \in 1..Len(q)
        BY <2>2, <1>1
      <3> QED BY <2>2, <3>1, <1>1, <1>3 DEF Elements
    <2>3. CASE j = Len(q) + 1
      <3>1. i \in 1..Len(q)
        BY <2>3, <1>1
      <3> QED BY <2>3, <3>1, <1>1, <1>3 DEF Elements
    <2> QED BY <2>1, <2>2, <2>3
  <1> QED BY <1>1, <1>2, <1>3

\* A queue without repetitions that misses a buffer is shorter than the pool.
LEMMA ShorterThanPool ==
  ASSUME NEW q \in Seq(Buffers), Distinct(q),
         NEW b \in Buffers, b \notin Elements(q), IsFiniteSet(Buffers)
  PROVE  Len(q) < Cardinality(Buffers)
  <1>1. /\ Len(q) \in Nat /\ DOMAIN q = 1..Len(q)
        /\ q \in [1..Len(q) -> Buffers]
    OBVIOUS
  <1>2. \A i \in 1..Len(q) : q[i] \in Buffers \ {b}
    BY <1>1 DEF Elements
  <1>3. q \in Injection(1..Len(q), Buffers \ {b})
    BY <1>1, <1>2 DEF Injection, IsInjective, Distinct
  <1>4. /\ IsFiniteSet(Buffers \ {b})
        /\ Cardinality(Buffers \ {b}) = Cardinality(Buffers) - 1
    BY FS_RemoveElement
  <1>5. Cardinality(1..Len(q)) <= Cardinality(Buffers \ {b})
    BY <1>3, <1>4, FS_Injection
  <1>6. Cardinality(1..Len(q)) = Len(q)
    BY <1>1, FS_Interval
  <1>7. Cardinality(Buffers) \in Nat
    BY FS_CardinalityType
  <1> QED BY <1>1, <1>4, <1>5, <1>6, <1>7

\* The counts of callers are numbers, positive where there is a caller.
LEMMA CountType ==
  ASSUME NEW f, NEW stage, IsFiniteSet(Callers)
  PROVE  /\ CountAt(f, stage) \in Nat
         /\ \A t \in Callers : f[t] = stage => CountAt(f, stage) > 0
         /\ (\A t \in Callers : f[t] # stage) => CountAt(f, stage) = 0
  <1>1. IsFiniteSet(AtStage(f, stage))
    BY FS_Subset DEF AtStage
  <1>2. CountAt(f, stage) \in Nat
    BY <1>1, FS_CardinalityType DEF CountAt
  <1>3. CountAt(f, stage) = 0 <=> AtStage(f, stage) = {}
    BY <1>1, FS_EmptySet DEF CountAt
  <1> QED BY <1>2, <1>3 DEF AtStage

\* A caller that changes its stage changes two counts by one.
LEMMA GotoCounts ==
  ASSUME PresenterAssumption, PresenterTypes, NEW t \in Callers, NEW to,
         Goto(t, to), cpc[t] # to
  PROVE  /\ CountAt(cpc', to) = CountAt(cpc, to) + 1
         /\ CountAt(cpc', cpc[t]) = CountAt(cpc, cpc[t]) - 1
         /\ \A s : s # to /\ s # cpc[t] => CountAt(cpc', s) = CountAt(cpc, s)
  <1>1. /\ DOMAIN cpc = Callers /\ IsFiniteSet(Callers)
        /\ cpc' = [cpc EXCEPT ![t] = to]
    BY DEF PresenterAssumption, PresenterTypes, Goto
  <1>2. /\ AtStage(cpc', to) = AtStage(cpc, to) \cup {t}
        /\ t \notin AtStage(cpc, to)
    BY <1>1 DEF AtStage
  <1>3. /\ AtStage(cpc', cpc[t]) = AtStage(cpc, cpc[t]) \ {t}
        /\ t \in AtStage(cpc, cpc[t])
    BY <1>1 DEF AtStage
  <1>4. \A s : s # to /\ s # cpc[t] => AtStage(cpc', s) = AtStage(cpc, s)
    BY <1>1 DEF AtStage
  <1>5. IsFiniteSet(AtStage(cpc, to)) /\ IsFiniteSet(AtStage(cpc, cpc[t]))
    BY <1>1, FS_Subset DEF AtStage
  <1>6. CountAt(cpc', to) = CountAt(cpc, to) + 1
    BY <1>2, <1>5, FS_AddElement DEF CountAt
  <1>7. CountAt(cpc', cpc[t]) = CountAt(cpc, cpc[t]) - 1
    BY <1>3, <1>5, FS_RemoveElement DEF CountAt
  <1> QED BY <1>4, <1>6, <1>7 DEF CountAt

-----------------------------------------------------------------------------
(* The presenter's invariant holds at first, ...                           *)

LEMMA PresenterInvInit ==
  ASSUME PresenterAssumption, PresenterInit
  PROVE  PresenterInv
  <1> DEFINE N == Cardinality(Buffers)
  <1>1. N \in Nat /\ ExistsBijection(1..N, Buffers)
    BY FS_CardinalityType DEF PresenterAssumption
  <1>2. PICK f \in Bijection(1..N, Buffers) : TRUE
    BY <1>1 DEF ExistsBijection
  <1>3. f \in [1..N -> Buffers] /\ Elements(f) = Buffers
    BY <1>2 DEF Bijection, Injection, Surjection, Elements
  <1>4. /\ CreationOrder \in [1..N -> Buffers]
        /\ Elements(CreationOrder) = Buffers
    BY <1>3 DEF CreationOrder
  <1>5. CreationOrder \in Surjection(1..N, Buffers)
    BY <1>4 DEF Surjection, Elements
  <1>6. IsFiniteSet(1..N) /\ Cardinality(1..N) = N
    BY <1>1, FS_Interval
  <1>7. CreationOrder \in Injection(1..N, Buffers)
    BY <1>5, <1>6, FS_SurjSameCardinalityImpliesInj
  <1>8. CreationOrder \in Seq(Buffers) /\ Len(CreationOrder) = N
    BY <1>1, <1>4
  <1>9. Distinct(CreationOrder)
    BY <1>4, <1>7 DEF Distinct, Injection, IsInjective
  <1>10. /\ CountAt(cpc, "pop") = 0 /\ CountAt(cpc, "signal") = 0
    BY CountType DEF PresenterAssumption, PresenterInit
  <1>11. Elements(<< >>) = {} /\ Distinct(<< >>)
    BY DEF Elements, Distinct
  <1>12. PresenterTypes
    <2>1. freeQ \in Seq(Buffers) /\ usedQ \in Seq(Buffers)
      BY <1>8 DEF PresenterInit
    <2>2. freeSem \in Nat /\ usedSem \in Nat /\ pending \in Nat
      BY <1>1 DEF PresenterInit, BufferCount
    <2>3. /\ cpc \in [Callers -> {"idle"}]
          /\ cbuf \in [Callers -> {None}]
      BY DEF PresenterInit
    <2> QED BY <2>1, <2>2, <2>3 DEF PresenterTypes, PresenterInit
  <1>13. Counts
    BY <1>1, <1>8, <1>10 DEF Counts, One, PresenterInit, BufferCount
  <1>14. Endgame
    BY DEF Endgame, PresenterInit
  <1>15. QueuesApart
    BY <1>9, <1>11 DEF QueuesApart, PresenterInit
  <1>16. CallersApart /\ RenderApart
    BY DEF CallersApart, RenderApart, PresenterInit
  <1> QED BY <1>12, <1>13, <1>14, <1>15, <1>16 DEF PresenterInv

-----------------------------------------------------------------------------
(* ... and every step keeps it.                                            *)

\* A post up to the pop of a buffer.
LEMMA ReserveKeeps ==
  ASSUME PresenterAssumption, PresenterInv, ~terminating,
         NEW t \in Callers, NEW stage, stage \in {"wait", "idle"},
         Reserve(t, stage)
  PROVE  PresenterInv'
  <1> USE DEF PresenterInv
  <1>1. PresenterTypes'
    BY DEF PresenterTypes, Reserve, Goto, queueVars, endVars, renderVars
  <1>2. /\ CountAt(cpc', "pop") = CountAt(cpc, "pop") + 1
        /\ CountAt(cpc', "signal") = CountAt(cpc, "signal")
    BY GotoCounts DEF Reserve
  <1>3. CountAt(cpc, "pop") \in Nat /\ CountAt(cpc, "signal") \in Nat
    BY CountType DEF PresenterAssumption
  <1>4. Counts'
    BY <1>2, <1>3 DEF Counts, One, PresenterTypes, Reserve, queueVars, endVars,
                      renderVars
  <1>5. Endgame'
    BY DEF Endgame, PresenterTypes, Reserve, Goto, queueVars, endVars,
           renderVars
  <1>6. QueuesApart'
    BY DEF QueuesApart, Reserve, queueVars
  <1>7. CallersApart'
    BY DEF CallersApart, Outside, PresenterTypes, Reserve, Goto, queueVars,
           renderVars
  <1>8. RenderApart'
    BY DEF RenderApart, Outside, Reserve, queueVars, renderVars
  <1> QED BY <1>1, <1>4, <1>5, <1>6, <1>7, <1>8

LEMMA PostWaitKeeps ==
  ASSUME PresenterAssumption, PresenterInv, ~terminating,
         NEW t \in Callers, PostWait(t)
  PROVE  PresenterInv'
  <1> USE DEF PresenterInv
  <1>1. PresenterTypes'
    BY DEF PresenterTypes, PostWait, Goto, queueVars, semVars, endVars,
           renderVars
  <1>2. /\ CountAt(cpc', "pop") = CountAt(cpc, "pop")
        /\ CountAt(cpc', "signal") = CountAt(cpc, "signal")
    BY GotoCounts DEF PostWait
  <1>3. Counts'
    BY <1>2 DEF Counts, PostWait, queueVars, semVars, endVars, renderVars
  <1>4. Endgame'
    BY DEF Endgame, PresenterTypes, PostWait, Goto, queueVars, endVars,
           renderVars
  <1>5. QueuesApart'
    BY DEF QueuesApart, PostWait, queueVars
  <1>6. CallersApart'
    BY DEF CallersApart, Outside, PresenterTypes, PostWait, Goto, queueVars,
           renderVars
  <1>7. RenderApart'
    BY DEF RenderApart, Outside, PostWait, queueVars, renderVars
  <1> QED BY <1>1, <1>3, <1>4, <1>5, <1>6, <1>7

LEMMA PopFreeKeeps ==
  ASSUME PresenterAssumption, PresenterInv, ~terminating,
         NEW t \in Callers, PopFree(t)
  PROVE  PresenterInv'
  <1> USE DEF PresenterInv
  <1>1. /\ freeQ' \in Seq(Buffers) /\ Len(freeQ') = Len(freeQ) - 1
        /\ Head(freeQ) \in Buffers /\ Head(freeQ) \in Elements(freeQ)
        /\ \A b : b \in Elements(freeQ') => b \in Elements(freeQ)
        /\ Distinct(freeQ') /\ Head(freeQ) \notin Elements(freeQ')
    BY PoppedQueue DEF PresenterTypes, QueuesApart, PopFree
  <1>2. PresenterTypes'
    BY <1>1 DEF PresenterTypes, PopFree, Goto, semVars, endVars, renderVars
  <1>3. /\ CountAt(cpc', "pop") = CountAt(cpc, "pop") - 1
        /\ CountAt(cpc', "signal") = CountAt(cpc, "signal")
    BY GotoCounts DEF PopFree
  <1>4. CountAt(cpc, "pop") \in Nat
    BY CountType DEF PresenterAssumption
  <1>5. Counts'
    BY <1>1, <1>3, <1>4 DEF Counts, One, PresenterTypes, PopFree, semVars,
                            endVars, renderVars
  <1>6. Endgame'
    BY DEF Endgame, PresenterTypes, PopFree, Goto, endVars, renderVars
  <1>7. QueuesApart'
    BY <1>1 DEF QueuesApart, PopFree
  <1>8. CallersApart'
    BY <1>1 DEF CallersApart, RenderApart, QueuesApart, Outside,
                PresenterAssumption, PresenterTypes, PopFree, Goto, renderVars
  <1>9. RenderApart'
    BY <1>1 DEF RenderApart, Outside, PopFree, renderVars
  <1> QED BY <1>2, <1>5, <1>6, <1>7, <1>8, <1>9

LEMMA DrawKeeps ==
  ASSUME PresenterAssumption, PresenterInv, ~terminating,
         NEW t \in Callers, NEW picture, Draw(t, picture)
  PROVE  PresenterInv'
  <1> USE DEF PresenterInv
  <1>1. PresenterTypes'
    BY DEF PresenterTypes, Draw, Goto, queueVars, semVars, endVars, renderVars
  <1>2. /\ CountAt(cpc', "pop") = CountAt(cpc, "pop")
        /\ CountAt(cpc', "signal") = CountAt(cpc, "signal")
    BY GotoCounts DEF Draw
  <1>3. Counts'
    BY <1>2 DEF Counts, Draw, queueVars, semVars, endVars, renderVars
  <1>4. Endgame'
    BY DEF Endgame, PresenterTypes, Draw, Goto, queueVars, endVars, renderVars
  <1>5. QueuesApart'
    BY DEF QueuesApart, Draw, queueVars
  <1>6. CallersApart'
    BY DEF CallersApart, Outside, PresenterTypes, Draw, Goto, queueVars,
           renderVars
  <1>7. RenderApart'
    BY DEF RenderApart, Outside, Draw, queueVars, renderVars
  <1> QED BY <1>1, <1>3, <1>4, <1>5, <1>6, <1>7

LEMMA PushUsedKeeps ==
  ASSUME PresenterAssumption, PresenterInv, ~terminating,
         NEW t \in Callers, PushUsed(t)
  PROVE  PresenterInv'
  <1> USE DEF PresenterInv
  <1>1. cbuf[t] \in Buffers /\ Outside(cbuf[t])
    BY DEF PresenterTypes, CallersApart, PushUsed
  <1>2. /\ usedQ' \in Seq(Buffers) /\ Len(usedQ') = Len(usedQ) + 1
        /\ \A b : b \in Elements(usedQ') <=>
                    b \in Elements(usedQ) \/ b = cbuf[t]
        /\ Distinct(usedQ')
    BY <1>1, PushedQueue DEF PresenterTypes, QueuesApart, Outside, PushUsed
  <1>3. PresenterTypes'
    BY <1>2 DEF PresenterTypes, PushUsed, Goto, semVars, endVars, renderVars
  <1>4. /\ CountAt(cpc', "pop") = CountAt(cpc, "pop")
        /\ CountAt(cpc', "signal") = CountAt(cpc, "signal") + 1
    BY GotoCounts DEF PushUsed
  <1>5. CountAt(cpc, "signal") \in Nat
    BY CountType DEF PresenterAssumption
  <1>6. Counts'
    BY <1>2, <1>4, <1>5 DEF Counts, One, PresenterTypes, PushUsed, semVars,
                            endVars, renderVars
  <1>7. Endgame'
    BY DEF Endgame, PresenterTypes, PushUsed, Goto, endVars, renderVars
  <1>8. QueuesApart'
    BY <1>1, <1>2 DEF QueuesApart, Outside, PushUsed
  <1>9. CallersApart'
    BY <1>1, <1>2 DEF CallersApart, Outside, PresenterAssumption,
                      PresenterTypes, PushUsed, Goto, renderVars
  <1>10. RenderApart'
    BY <1>1, <1>2 DEF RenderApart, CallersApart, Outside, PushUsed, Goto,
                      PresenterTypes, PresenterAssumption, renderVars
  <1> QED BY <1>3, <1>6, <1>7, <1>8, <1>9, <1>10

LEMMA PostDoneKeeps ==
  ASSUME PresenterAssumption, PresenterInv, ~terminating,
         NEW t \in Callers, PostDone(t)
  PROVE  PresenterInv'
  <1> USE DEF PresenterInv
  <1>1. PresenterTypes'
    BY DEF PresenterTypes, PostDone, Goto, queueVars, endVars, renderVars
  <1>2. /\ CountAt(cpc', "pop") = CountAt(cpc, "pop")
        /\ CountAt(cpc', "signal") = CountAt(cpc, "signal") - 1
    BY GotoCounts DEF PostDone
  <1>3. CountAt(cpc, "signal") \in Nat
    BY CountType DEF PresenterAssumption
  <1>4. Counts'
    BY <1>2, <1>3 DEF Counts, One, PresenterTypes, PostDone, queueVars,
                      endVars, renderVars
  <1>5. Endgame'
    BY DEF Endgame, PresenterTypes, PostDone, Goto, queueVars, endVars,
           renderVars
  <1>6. QueuesApart'
    BY DEF QueuesApart, PostDone, queueVars
  <1>7. CallersApart'
    BY DEF CallersApart, Outside, PresenterTypes, PostDone, Goto, queueVars,
           renderVars
  <1>8. RenderApart'
    BY DEF RenderApart, Outside, PostDone, queueVars, renderVars
  <1> QED BY <1>1, <1>4, <1>5, <1>6, <1>7, <1>8

\* The end: no count is claimed of a terminating presenter.
LEMMA TerminateKeeps ==
  ASSUME PresenterAssumption, PresenterInv, Quiet,
         NEW t \in Callers, Terminate(t)
  PROVE  PresenterInv'
  <1> USE DEF PresenterInv
  <1>1. CountAt(cpc, "pop") = 0 /\ CountAt(cpc, "signal") = 0
    BY CountType DEF PresenterAssumption, Quiet
  <1>2. usedQ = << >> /\ rpc \notin {"check", "pop", "flip", "settle"}
    <2>1. pending = 0
      BY DEF Terminate, Drained, NothingPending
    <2>2. /\ Len(usedQ) = usedSem + One(rpc \in {"check", "pop"})
          /\ 0 = Len(usedQ) + One(rpc \in {"flip", "settle"})
      BY <1>1, <2>1 DEF Counts, Terminate, PresenterTypes
    <2>3. Len(usedQ) \in Nat /\ (Len(usedQ) = 0 => usedQ = << >>)
      BY DEF PresenterTypes
    <2> QED BY <2>2, <2>3 DEF One, PresenterTypes
  <1>3. PresenterTypes'
    BY DEF PresenterTypes, Terminate, Goto, queueVars, semVars, renderVars
  <1>4. Counts'
    BY DEF Counts, Terminate
  <1>5. Endgame'
    BY <1>2 DEF Endgame, PresenterTypes, Terminate, Goto, Quiet, queueVars,
                renderVars
  <1>6. QueuesApart'
    BY DEF QueuesApart, Terminate, queueVars
  <1>7. CallersApart'
    BY DEF CallersApart, Outside, PresenterTypes, Terminate, Goto, queueVars,
           renderVars
  <1>8. RenderApart'
    BY DEF RenderApart, Outside, Terminate, queueVars, renderVars
  <1> QED BY <1>3, <1>4, <1>5, <1>6, <1>7, <1>8

LEMMA WakeRenderKeeps ==
  ASSUME PresenterAssumption, PresenterInv, NEW t \in Callers, WakeRender(t)
  PROVE  PresenterInv'
  <1> USE DEF PresenterInv
  <1>1. terminating
    BY DEF Endgame, WakeRender, PresenterTypes
  <1>2. PresenterTypes'
    BY DEF PresenterTypes, WakeRender, Goto, queueVars, endVars, renderVars
  <1>3. Counts'
    BY <1>1 DEF Counts, WakeRender, endVars
  <1>4. Endgame'
    BY <1>1 DEF Endgame, PresenterTypes, WakeRender, Goto, queueVars, endVars,
                renderVars
  <1>5. QueuesApart'
    BY DEF QueuesApart, WakeRender, queueVars
  <1>6. CallersApart'
    BY DEF CallersApart, Outside, PresenterTypes, WakeRender, Goto, queueVars,
           renderVars
  <1>7. RenderApart'
    BY DEF RenderApart, Outside, WakeRender, queueVars, renderVars
  <1> QED BY <1>2, <1>3, <1>4, <1>5, <1>6, <1>7

LEMMA ReleaseKeeps ==
  ASSUME PresenterAssumption, PresenterInv, NEW t \in Callers, Release(t)
  PROVE  PresenterInv'
  <1> USE DEF PresenterInv
  <1>1. terminating
    BY DEF Endgame, Release, PresenterTypes
  <1>2. Elements(<< >>) = {} /\ Distinct(<< >>)
    BY DEF Elements, Distinct
  <1>3. << >> \in Seq(Buffers)
    OBVIOUS
  <1>4. PresenterTypes'
    BY <1>3 DEF PresenterTypes, Release, Goto, semVars, renderVars
  <1>5. Counts'
    BY <1>1 DEF Counts, Release
  <1>6. Endgame'
    BY <1>1 DEF Endgame, PresenterTypes, Release, Goto, renderVars
  <1>7. QueuesApart'
    BY <1>2 DEF QueuesApart, Release
  <1>8. CallersApart'
    BY <1>1, <1>2 DEF CallersApart, Endgame, Outside, PresenterTypes, Release,
                      Goto, renderVars
  <1>9. RenderApart'
    BY <1>2 DEF RenderApart, Outside, Release, renderVars
  <1> QED BY <1>4, <1>5, <1>6, <1>7, <1>8, <1>9

\* Steps that change neither a queue, nor a count, nor who holds what.
LEMMA StutterKeeps ==
  ASSUME PresenterInv,
         UNCHANGED <<queueVars, semVars, pending, endVars,
                     renderVars, callVars>>
  PROVE  PresenterInv'
  BY DEF PresenterInv, PresenterTypes, Counts, Endgame, QueuesApart,
         CallersApart, RenderApart, Outside, queueVars, semVars, endVars,
         renderVars, callVars

\* The render thread.
LEMMA RenderKeeps ==
  ASSUME PresenterAssumption, PresenterInv, Render
  PROVE  PresenterInv'
  <1> USE DEF PresenterInv
  <1>1. /\ CountAt(cpc, "pop") \in Nat /\ CountAt(cpc, "signal") \in Nat
        /\ Len(freeQ) \in Nat /\ Len(usedQ) \in Nat
    BY CountType DEF PresenterAssumption, PresenterTypes
  <1>2. CASE RenderWait
    <2> USE <1>2 DEF RenderWait
    <2>1. PresenterTypes'
      BY DEF PresenterTypes, queueVars, endVars, callVars
    <2>2. Counts'
      BY <1>1 DEF Counts, One, PresenterTypes, queueVars, endVars, callVars
    <2>3. Endgame' /\ QueuesApart'
      BY DEF Endgame, QueuesApart, queueVars, endVars, callVars
    <2>4. CallersApart' /\ RenderApart'
      BY DEF CallersApart, RenderApart, Outside, queueVars, callVars
    <2> QED BY <2>1, <2>2, <2>3, <2>4
  <1>3. CASE RenderCheck
    <2> USE <1>3 DEF RenderCheck
    <2>1. PresenterTypes'
      BY DEF PresenterTypes, queueVars, semVars, endVars, callVars
    <2>2. Counts'
      BY <1>1 DEF Counts, One, PresenterTypes, queueVars, semVars, endVars,
                  callVars
    <2>3. Endgame' /\ QueuesApart'
      BY DEF Endgame, QueuesApart, queueVars, endVars, callVars
    <2>4. CallersApart' /\ RenderApart'
      BY DEF CallersApart, RenderApart, Outside, queueVars, callVars
    <2> QED BY <2>1, <2>2, <2>3, <2>4
  <1>4. CASE RenderPop
    <2> USE <1>4 DEF RenderPop
    <2>1. /\ usedQ' \in Seq(Buffers) /\ Len(usedQ') = Len(usedQ) - 1
          /\ Head(usedQ) \in Buffers /\ Head(usedQ) \in Elements(usedQ)
          /\ \A b : b \in Elements(usedQ') => b \in Elements(usedQ)
          /\ Distinct(usedQ') /\ Head(usedQ) \notin Elements(usedQ')
      BY PoppedQueue DEF PresenterTypes, QueuesApart
    <2>2. PresenterTypes'
      BY <2>1 DEF PresenterTypes, semVars, endVars, callVars
    <2>3. Counts'
      BY <1>1, <2>1 DEF Counts, One, PresenterTypes, semVars, endVars, callVars
    <2>4. Endgame' /\ QueuesApart'
      BY <2>1 DEF Endgame, QueuesApart, endVars, callVars
    <2>5. CallersApart'
      BY <2>1 DEF CallersApart, QueuesApart, Outside, callVars
    <2>6. RenderApart'
      BY <2>1 DEF RenderApart, QueuesApart, Outside, PresenterAssumption
    <2> QED BY <2>2, <2>3, <2>4, <2>5, <2>6
  <1>5. CASE RenderFlip
    <2> USE <1>5 DEF RenderFlip
    <2>1. PresenterTypes'
      BY DEF PresenterTypes, queueVars, semVars, endVars, callVars
    <2>2. Counts'
      BY <1>1 DEF Counts, One, PresenterTypes, queueVars, semVars, endVars,
                  callVars
    <2>3. Endgame' /\ QueuesApart'
      BY DEF Endgame, QueuesApart, queueVars, endVars, callVars
    <2>4. CallersApart' /\ RenderApart'
      BY DEF CallersApart, RenderApart, Outside, queueVars, callVars
    <2> QED BY <2>1, <2>2, <2>3, <2>4
  <1>6. CASE RenderSettle
    <2> USE <1>6 DEF RenderSettle
    <2>1. PresenterTypes'
      BY DEF PresenterTypes, queueVars, semVars, endVars, callVars
    <2>2. Counts'
      BY <1>1 DEF Counts, One, PresenterTypes, queueVars, semVars, endVars,
                  callVars
    <2>3. Endgame' /\ QueuesApart'
      BY DEF Endgame, QueuesApart, queueVars, endVars, callVars
    <2>4. CallersApart' /\ RenderApart'
      BY DEF CallersApart, RenderApart, Outside, queueVars, callVars
    <2> QED BY <2>1, <2>2, <2>3, <2>4
  <1>7. CASE RenderRecycle
    <2> USE <1>7 DEF RenderRecycle, Recycled
    <2>1. prev \in Buffers /\ Outside(prev) /\ dst # prev /\ dst # None
      BY DEF RenderApart, PresenterTypes
    <2>2. /\ freeQ' \in Seq(Buffers) /\ Len(freeQ') = Len(freeQ) + 1
          /\ \A b : b \in Elements(freeQ') <=>
                     b \in Elements(freeQ) \/ b = prev
          /\ Distinct(freeQ')
      BY <2>1, PushedQueue DEF PresenterTypes, QueuesApart, Outside
    <2>3. PresenterTypes'
      BY <2>2 DEF PresenterTypes, semVars, endVars, callVars
    <2>4. Counts'
      BY <1>1, <2>2 DEF Counts, One, PresenterTypes, semVars, endVars, callVars
    <2>5. Endgame' /\ QueuesApart'
      BY <2>1, <2>2 DEF Endgame, QueuesApart, Outside, endVars, callVars
    <2>6. CallersApart'
      BY <2>1, <2>2 DEF CallersApart, Outside, callVars
    <2>7. RenderApart'
      BY <2>1, <2>2 DEF RenderApart, Outside
    <2> QED BY <2>3, <2>4, <2>5, <2>6, <2>7
  <1>8. CASE RenderPost
    <2> USE <1>8 DEF RenderPost
    <2>1. PresenterTypes'
      BY DEF PresenterTypes, queueVars, endVars, callVars
    <2>2. Counts'
      BY <1>1 DEF Counts, One, PresenterTypes, queueVars, endVars, callVars
    <2>3. Endgame' /\ QueuesApart'
      BY DEF Endgame, QueuesApart, queueVars, endVars, callVars
    <2>4. CallersApart' /\ RenderApart'
      BY DEF CallersApart, RenderApart, Outside, queueVars, callVars
    <2> QED BY <2>1, <2>2, <2>3, <2>4
  <1>9. CASE RenderQuit
    <2> USE <1>9 DEF RenderQuit
    <2>1. terminating
      BY DEF Endgame, PresenterTypes
    <2>2. CASE prev = None
      <3> USE <2>2
      <3>1. PresenterTypes' /\ Counts'
        BY <2>1 DEF PresenterTypes, Counts, endVars, callVars
      <3>2. Endgame' /\ QueuesApart'
        BY <2>1 DEF Endgame, QueuesApart, endVars, callVars
      <3>3. CallersApart' /\ RenderApart'
        BY DEF CallersApart, RenderApart, Outside, callVars
      <3> QED BY <3>1, <3>2, <3>3
    <2>3. CASE prev # None
      <3> USE <2>3
      <3>1. prev \in Buffers /\ Outside(prev)
        BY DEF RenderApart, PresenterTypes
      <3>2. /\ freeQ' \in Seq(Buffers)
            /\ \A b : b \in Elements(freeQ') <=>
                        b \in Elements(freeQ) \/ b = prev
            /\ Distinct(freeQ')
        <4>1. freeQ' = Append(freeQ, prev) /\ freeQ \in Seq(Buffers)
          BY DEF PresenterTypes
        <4> QED BY <4>1, <3>1, PushedQueue DEF QueuesApart, Outside
      <3>3. PresenterTypes' /\ Counts'
        BY <2>1, <3>2 DEF PresenterTypes, Counts, endVars, callVars
      <3>4. Endgame' /\ QueuesApart'
        BY <2>1, <3>1, <3>2
        DEF Endgame, QueuesApart, Outside, endVars, callVars
      <3>5. CallersApart'
        BY <3>1, <3>2 DEF CallersApart, Outside, callVars
      <3>6. RenderApart'
        BY <3>1, <3>2 DEF RenderApart, Outside
      <3> QED BY <3>3, <3>4, <3>5, <3>6
    <2> QED BY <2>2, <2>3
  <1> QED BY <1>2, <1>3, <1>4, <1>5, <1>6, <1>7, <1>8, <1>9 DEF Render

LEMMA PresenterStep ==
  ASSUME PresenterAssumption, PresenterInv, [PresenterNext]_presenterVars
  PROVE  PresenterInv'
  <1>1. CASE UNCHANGED presenterVars
    BY <1>1, StutterKeeps DEF presenterVars
  <1>2. CASE Render
    BY <1>2, RenderKeeps
  <1>3. ASSUME NEW t \in Callers, ~terminating,
               NEW picture, Posting(t, picture)
        PROVE  PresenterInv'
    <2>1. CASE PostWait(t)
      BY <1>3, <2>1, PostWaitKeeps
    <2>2. CASE PostGranted(t) \/ PostTry(t)
      BY <1>3, <2>2, ReserveKeeps DEF PostGranted, PostTry
    <2>3. CASE PostRejected(t)
      BY <2>3, <1>1 DEF PostRejected
    <2>4. CASE PopFree(t)
      BY <1>3, <2>4, PopFreeKeeps
    <2>5. CASE Draw(t, picture)
      BY <1>3, <2>5, DrawKeeps
    <2>6. CASE PushUsed(t)
      BY <1>3, <2>6, PushUsedKeeps
    <2>7. CASE PostDone(t)
      BY <1>3, <2>7, PostDoneKeeps
    <2> QED BY <1>3, <2>1, <2>2, <2>3, <2>4, <2>5, <2>6, <2>7 DEF Posting
  <1>4. ASSUME NEW t \in Callers, DrainSleep(t) \/ DrainDone(t)
        PROVE  PresenterInv'
    BY <1>1, <1>4, StutterKeeps DEF DrainSleep, DrainDone
  <1>5. ASSUME NEW t \in Callers, cpc[t] = "idle" => Quiet, Destroying(t)
        PROVE  PresenterInv'
    <2>1. CASE Terminate(t)
      BY <1>5, <2>1, TerminateKeeps DEF Terminate
    <2>2. CASE WakeRender(t)
      BY <1>5, <2>2, WakeRenderKeeps
    <2>3. CASE Release(t)
      BY <1>5, <2>3, ReleaseKeeps
    <2> QED BY <1>5, <2>1, <2>2, <2>3 DEF Destroying
  <1> QED BY <1>1, <1>2, <1>3, <1>4, <1>5 DEF PresenterNext

\* The presenter's invariant holds under every caller that keeps to the
\* contract: the counts of go2_presenter's semaphores and the places of its
\* buffers.
THEOREM PresenterCorrect == PresenterSpec => []PresenterInv
  <1>1. PresenterInit => PresenterInv
    BY PresenterInvInit, PresenterAssumption
  <1>2. PresenterInv /\ [PresenterNext]_presenterVars => PresenterInv'
    BY PresenterStep, PresenterAssumption
  <1> QED BY <1>1, <1>2, PTL DEF PresenterSpec

-----------------------------------------------------------------------------
(* The pipeline keeps to the contract.                                     *)

\* Who posts when: the worker only while it has a job, main only inside a
\* frame, and nobody once the shutdown has joined the worker.
PipelineInv ==
  /\ content \in [Surfaces -> Pictures] /\ frame \in 0..MaxFrames
  /\ job \in Surfaces \cup {None}
  /\ wpc \in {"refresh", "post", "unlock"} => wjob \in Surfaces
  /\ MainHolds => gles \in Surfaces
  /\ ~started => wpc \in {"none", "dead"}
  /\ mpc \in {"drain", "release", "destroy", "gone"} =>
       wpc \in {"none", "dead"}
  /\ terminating => mpc \in {"destroy", "gone"}
  /\ DOMAIN cpc = Callers
  /\ cpc["worker"] # "idle" => wpc = "post"
  /\ cpc["main"] # "idle" => mpc \in {"post", "destroy", "gone"}
  /\ drainers \subseteq {"main"}

LEMMA PipelineInvInit ==
  ASSUME VideoAssumption, PresenterAssumption, Init
  PROVE  PipelineInv
  BY DEF PipelineInv, VideoAssumption, PresenterAssumption, Init,
         PresenterInit, MainHolds

\* A post by a thread that may post is a step of the presenter.
LEMMA PostMaps ==
  ASSUME PresenterAssumption, NEW t \in Callers, ~terminating,
         PostStep(t) \/ PostEnd(t), Posted(t) \in Pictures
  PROVE  PresenterNext
  <1>1. CASE \/ PostWait(t) \/ PostTry(t) \/ PostGranted(t) \/ PopFree(t)
             \/ PushUsed(t) \/ PostDone(t) \/ PostRejected(t)
    BY <1>1, PresenterAssumption
    DEF PresenterNext, Posting, PresenterAssumption
  <1>2. CASE Draw(t, Posted(t))
    BY <1>2 DEF PresenterNext, Posting
  <1> QED BY <1>1, <1>2 DEF PostStep, PostEnd

\* Every step of the pipeline is one of the presenter, or leaves it alone.
LEMMA StepMaps ==
  ASSUME VideoAssumption, PresenterAssumption, PipelineInv, [Next]_vars
  PROVE  [PresenterNext]_presenterVars
  <1>1. {"main", "worker"} = Callers
    BY DEF VideoAssumption
  <1>2. CASE UNCHANGED vars \/ Gone
    BY <1>2 DEF vars, Gone
  <1>3. CASE RenderThread
    BY <1>3 DEF RenderThread, PresenterNext
  <1>4. CASE WorkerPosting \/ WorkerPosted
    <2>1. ~terminating /\ Posted("worker") \in Pictures
      BY <1>4 DEF WorkerPosting, WorkerPosted, PipelineInv, Posted
    <2> QED BY <1>1, <1>4, <2>1, PostMaps DEF WorkerPosting, WorkerPosted
  <1>5. CASE MainPosting \/ MainPosted
    <2>1. ~terminating /\ Posted("main") \in Pictures
      BY <1>5 DEF MainPosting, MainPosted, PipelineInv, Posted, MainHolds
    <2> QED BY <1>1, <1>5, <2>1, PostMaps DEF MainPosting, MainPosted
  <1>6. CASE MainDrain
    BY <1>1, <1>6 DEF MainDrain, PresenterNext
  <1>7. CASE \/ DirectPresent \/ DirectDisable \/ SyncDone \/ Unload
             \/ DeinitRelease
    BY <1>7 DEF DirectPresent, DirectDisable, SyncDone, Unload, DeinitRelease,
                DrainDone
  <1>8. CASE DeinitDestroy
    <2>1. cpc["main"] = "idle" => Quiet
      <3> SUFFICES ASSUME cpc["main"] = "idle"
                   PROVE  Quiet
        OBVIOUS
      <3>1. Terminate("main")
        BY <1>8 DEF DeinitDestroy, Destroying, WakeRender, Release
      <3>2. drainers = {}
        BY <3>1 DEF Terminate, PipelineInv
      <3>3. cpc["worker"] = "idle"
        BY <1>8 DEF DeinitDestroy, PipelineInv
      <3> QED BY <1>1, <3>2, <3>3 DEF Quiet
    <2> QED BY <1>1, <1>8, <2>1 DEF DeinitDestroy, PresenterNext
  <1>9. CASE \/ WorkerSleep \/ WorkerTake \/ WorkerExit \/ WorkerRefresh
             \/ WorkerUnlock \/ WorkerSettle
    BY <1>9 DEF WorkerSleep, WorkerTake, WorkerExit, WorkerRefresh,
                WorkerUnlock, WorkerSettle
  <1>10. CASE \/ MainSleep \/ Callback \/ DirectDrain \/ DirectSettle
              \/ Fallback \/ Submit \/ Plain \/ MainUnlock
    BY <1>10 DEF MainSleep, Callback, DirectDrain, DirectSettle, Fallback,
                 Submit, Plain, MainUnlock
  <1>11. CASE \/ Change \/ SyncStart \/ SyncWorker \/ Shutdown
              \/ StopWorker \/ JoinWorker \/ Vblank
    BY <1>11 DEF Change, SyncStart, SyncWorker, Shutdown, StopWorker,
                 JoinWorker, Vblank
  <1> QED
    BY <1>2, <1>3, <1>4, <1>5, <1>6, <1>7, <1>8, <1>9, <1>10, <1>11
    DEF Next, Main, Worker, Refresh, Between

\* What a post changes of the state the invariant is about.
LEMMA PostTouches ==
  ASSUME DOMAIN cpc = Callers, NEW t \in Callers
  PROVE  /\ PostStep(t) \/ PostEnd(t) =>
              /\ DOMAIN cpc' = Callers
              /\ \A u \in Callers \ {t} : cpc'[u] = cpc[u]
              /\ terminating' = terminating /\ drainers' = drainers
         /\ PostEnd(t) => cpc'[t] = "idle"
  BY DEF PostStep, PostEnd, PostWait, PostTry, PostGranted, Reserve, PopFree,
         Draw, PushUsed, PostDone, PostRejected, Goto, endVars, callVars,
         presenterVars

LEMMA PipelineStep ==
  ASSUME VideoAssumption, PresenterAssumption, PipelineInv, [Next]_vars
  PROVE  PipelineInv'
  <1> USE DEF PipelineInv
  <1>1. {"main", "worker"} = Callers
    BY DEF VideoAssumption
  <1>2. CASE WorkerSleep
    BY <1>2 DEF WorkerSleep, MainHolds,
       presenterVars, endVars, callVars, surfaceVars, frameVars,
           jobVars, workerVars
  <1>3. CASE WorkerTake
    BY <1>3 DEF WorkerTake, MainHolds,
       presenterVars, endVars, callVars, surfaceVars, frameVars,
           jobVars, workerVars
  <1>4. CASE WorkerExit
    BY <1>4 DEF WorkerExit, MainHolds,
       presenterVars, endVars, callVars, surfaceVars, frameVars,
           jobVars, workerVars
  <1>5. CASE WorkerRefresh
    BY <1>5 DEF WorkerRefresh, MainHolds, Compose,
       presenterVars, endVars, callVars, surfaceVars, frameVars,
           jobVars, workerVars
  <1>6. CASE WorkerUnlock
    BY <1>6 DEF WorkerUnlock, MainHolds,
       presenterVars, endVars, callVars, surfaceVars, frameVars,
           jobVars, workerVars
  <1>7. CASE WorkerSettle
    BY <1>7 DEF WorkerSettle, MainHolds,
       presenterVars, endVars, callVars, surfaceVars, frameVars,
           jobVars, workerVars
  <1>8. CASE MainSleep
    BY <1>8 DEF MainSleep, MainHolds,
       presenterVars, endVars, callVars, surfaceVars, frameVars,
           jobVars, workerVars
  <1>9. CASE DirectDrain
    BY <1>9 DEF DirectDrain, MainHolds,
       presenterVars, endVars, callVars, surfaceVars, frameVars,
           jobVars, workerVars
  <1>10. CASE DirectSettle
    BY <1>10 DEF DirectSettle, MainHolds,
       presenterVars, endVars, callVars, surfaceVars, frameVars,
           jobVars, workerVars
  <1>11. CASE Fallback
    BY <1>11 DEF Fallback, MainHolds, Choose,
       presenterVars, endVars, callVars, surfaceVars, frameVars,
           jobVars, workerVars
  <1>12. CASE Submit
    BY <1>12 DEF Submit, MainHolds,
       presenterVars, endVars, callVars, surfaceVars, frameVars,
           jobVars, workerVars
  <1>13. CASE Plain
    BY <1>13 DEF Plain, MainHolds, Compose,
       presenterVars, endVars, callVars, surfaceVars, frameVars,
           jobVars, workerVars
  <1>14. CASE MainUnlock
    BY <1>14 DEF MainUnlock, MainHolds,
       presenterVars, endVars, callVars, surfaceVars, frameVars,
           jobVars, workerVars
  <1>15. CASE Change
    BY <1>15 DEF Change, MainHolds,
       presenterVars, endVars, callVars, surfaceVars, frameVars,
           jobVars, workerVars
  <1>16. CASE SyncStart
    BY <1>16 DEF SyncStart, MainHolds,
       presenterVars, endVars, callVars, surfaceVars, frameVars,
           jobVars, workerVars
  <1>17. CASE SyncWorker
    BY <1>17 DEF SyncWorker, MainHolds,
       presenterVars, endVars, callVars, surfaceVars, frameVars,
           jobVars, workerVars
  <1>18. CASE Shutdown
    BY <1>18 DEF Shutdown, MainHolds,
       presenterVars, endVars, callVars, surfaceVars, frameVars,
           jobVars, workerVars
  <1>19. CASE StopWorker
    BY <1>19 DEF StopWorker, MainHolds,
       presenterVars, endVars, callVars, surfaceVars, frameVars,
           jobVars, workerVars
  <1>20. CASE JoinWorker
    BY <1>20 DEF JoinWorker, MainHolds,
       presenterVars, endVars, callVars, surfaceVars, frameVars,
           jobVars, workerVars
  <1>21. CASE Vblank
    BY <1>21 DEF Vblank, MainHolds,
       presenterVars, endVars, callVars, surfaceVars, frameVars,
           jobVars, workerVars
  <1>22. CASE DirectPresent
    BY <1>22 DEF DirectPresent, MainHolds, DrainDone,
       presenterVars, endVars, callVars, surfaceVars, frameVars,
           jobVars, workerVars
  <1>23. CASE DirectDisable
    BY <1>23 DEF DirectDisable, MainHolds, Choose, EndScanout, DrainDone,
       presenterVars, endVars, callVars, surfaceVars, frameVars,
           jobVars, workerVars
  <1>24. CASE SyncDone
    BY <1>24 DEF SyncDone, MainHolds, DrainDone,
       presenterVars, endVars, callVars, surfaceVars, frameVars,
           jobVars, workerVars
  <1>25. CASE Unload
    BY <1>25 DEF Unload, MainHolds, DrainDone,
       presenterVars, endVars, callVars, surfaceVars, frameVars,
           jobVars, workerVars
  <1>26. CASE DeinitRelease
    BY <1>26 DEF DeinitRelease, MainHolds, EndScanout, DrainDone,
       presenterVars, endVars, callVars, surfaceVars, frameVars,
           jobVars, workerVars
  <1>27. CASE Callback
    <2>1. frame' \in 0..MaxFrames /\ frame' \in Pictures
      BY <1>27 DEF Callback, VideoAssumption
    <2> QED
      BY <1>27, <2>1 DEF Callback, MainHolds,
         presenterVars, endVars, callVars, surfaceVars, frameVars,
           jobVars, workerVars
  <1>28. CASE WorkerPosting \/ WorkerPosted
    BY <1>1, <1>28, PostTouches DEF WorkerPosting, WorkerPosted, MainHolds,
       surfaceVars, frameVars, jobVars, workerVars
  <1>29. CASE MainPosting \/ MainPosted
    BY <1>1, <1>29, PostTouches DEF MainPosting, MainPosted, MainHolds,
       surfaceVars, frameVars, jobVars, workerVars
  <1>30. CASE MainDrain
    BY <1>30 DEF MainDrain, DrainSleep, MainHolds, videoVars, endVars,
       callVars, surfaceVars, frameVars, jobVars, workerVars
  <1>31. CASE DeinitDestroy
    BY <1>1, <1>31 DEF DeinitDestroy, Destroying, Terminate, WakeRender,
       Release, Goto, MainHolds, surfaceVars, frameVars, jobVars, workerVars
  <1>32. CASE RenderThread
    <2>1. Render /\ UNCHANGED videoVars
      BY <1>32 DEF RenderThread
    <2>2. UNCHANGED <<endVars, callVars>>
      BY <2>1 DEF Render, RenderWait, RenderCheck, RenderPop, RenderFlip,
         RenderSettle, RenderRecycle, RenderPost, RenderQuit
    <2>3. drainers' = drainers \/ drainers' = {}
      BY <2>1 DEF Render, RenderWait, RenderCheck, RenderPop, RenderFlip,
         RenderSettle, RenderRecycle, RenderPost, RenderQuit
    <2> QED
      BY <2>1, <2>2, <2>3 DEF MainHolds, videoVars, endVars, callVars,
         surfaceVars, frameVars, jobVars, workerVars
  <1>33. CASE UNCHANGED vars \/ Gone
    <2>1. UNCHANGED <<presenterVars, videoVars>>
      BY <1>33 DEF Gone, vars
    <2> QED
      BY <2>1 DEF MainHolds, presenterVars, videoVars, endVars, callVars,
         surfaceVars, frameVars, jobVars, workerVars
  <1> QED
    BY <1>2, <1>3, <1>4, <1>5, <1>6, <1>7, <1>8, <1>9, <1>10, <1>11, <1>12,
       <1>13, <1>14, <1>15, <1>16, <1>17, <1>18, <1>19, <1>20, <1>21,
       <1>22, <1>23, <1>24, <1>25, <1>26, <1>27, <1>28, <1>29, <1>30,
       <1>31, <1>32, <1>33
    DEF Next, Main, Worker, Refresh, Between

-----------------------------------------------------------------------------
(* The theorems.                                                           *)

LEMMA PipelineCorrect == Spec => [](PipelineInv /\ PresenterInv)
  <1>1. Init => PipelineInv /\ PresenterInv
    BY PipelineInvInit, PresenterInvInit, VideoAssumption, PresenterAssumption
    DEF Init
  <1>2. PipelineInv /\ PresenterInv /\ [Next]_vars
          => PipelineInv' /\ PresenterInv'
    BY PipelineStep, StepMaps, PresenterStep, VideoAssumption,
       PresenterAssumption
  <1> QED BY <1>1, <1>2, PTL DEF Spec

\* The video pipeline implements the presenter under its contract: it posts
\* only to a living presenter, and destroys it when no call is in progress
\* (video_deinit after video_prepare_core_unload).
THEOREM ContractKept == Spec => KeepsContract
  <1>1. Init => PresenterInit
    BY DEF Init
  <1>2. PipelineInv /\ [Next]_vars => [PresenterNext]_presenterVars
    BY StepMaps, VideoAssumption, PresenterAssumption
  <1> QED BY <1>1, <1>2, PipelineCorrect, PTL
          DEF Spec, KeepsContract, PresenterSpec

LEMMA InvNoMismatch ==
  ASSUME PresenterAssumption, PresenterInv
  PROVE  NoMismatch
  <1> USE DEF PresenterInv
  <1>1. ASSUME NEW t \in Callers, cpc[t] = "pop" PROVE freeQ # << >>
    <2>1. ~terminating
      BY <1>1 DEF Endgame
    <2>2. CountAt(cpc, "pop") \in Nat /\ CountAt(cpc, "pop") > 0
      BY <1>1, CountType DEF PresenterAssumption
    <2>3. Len(freeQ) > 0
      BY <2>1, <2>2 DEF Counts, One, PresenterTypes
    <2> QED BY <2>3
  <1>2. ASSUME NEW t \in Callers, cpc[t] = "push"
        PROVE  Len(usedQ) < Cardinality(Buffers)
    <2>1. cbuf[t] \in Buffers /\ Outside(cbuf[t])
      BY <1>2 DEF CallersApart, PresenterTypes
    <2> QED BY <2>1, ShorterThanPool
            DEF Outside, QueuesApart, PresenterTypes, PresenterAssumption
  <1>3. ASSUME rpc = "pop" PROVE usedQ # << >>
    <2>1. ~terminating
      BY <1>3 DEF Endgame
    <2>2. CountAt(cpc, "signal") \in Nat
      BY CountType DEF PresenterAssumption
    <2>3. Len(usedQ) > 0
      BY <1>3, <2>1, <2>2 DEF Counts, One, PresenterTypes
    <2> QED BY <2>3
  <1> QED BY <1>1, <1>2, <1>3 DEF NoMismatch

LEMMA InvNoTearing ==
  ASSUME PresenterInv
  PROVE  NoTearing
  <1> SUFFICES ASSUME NEW t \in Callers, cbuf[t] # None
               PROVE  /\ cbuf[t] \notin {scan, dst, prev}
                      /\ cbuf[t] \notin Elements(freeQ) \cup Elements(usedQ)
                      /\ \A u \in Callers \ {t} : cbuf[u] # cbuf[t]
    BY DEF NoTearing
  <1>1. rpc # "done"
    BY DEF PresenterInv, CallersApart, Endgame
  <1> QED BY <1>1 DEF PresenterInv, CallersApart, RenderApart, Outside

\* Neither the "semaphore/queue mismatch" nor an exit(1) of the presenter is
\* reachable from the video pipeline, for any number of buffers.
THEOREM MismatchFree == Spec => []NoMismatch
  <1>1. PresenterInv => NoMismatch
    BY InvNoMismatch, PresenterAssumption
  <1> QED BY <1>1, PipelineCorrect, PTL

\* No thread draws into a buffer that is on the screen or elsewhere.
THEOREM TearingFree == Spec => []NoTearing
  <1>1. PresenterInv => NoTearing
    BY InvNoTearing
  <1> QED BY <1>1, PipelineCorrect, PTL
=============================================================================
