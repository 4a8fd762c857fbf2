------------------------ MODULE StreamExecutorProofs ------------------------
(***************************************************************************)
(* Proofs about event time in the SQL cycle, for any queries, sources,     *)
(* rows, delays and faults, and any width of the timestamps.               *)
(***************************************************************************)
EXTENDS StreamExecutor, WellFoundedInduction, TLAPS

----------------------------------------------------------------------------
(* The watermark generator and the tracker.                                *)

Generator == [max : I64, wm : I64]

\* A set of timestamps has a least element: they are bounded below.
LEMMA LeastTimestamp ==
    ASSUME NEW T, T # {}, \A x \in T : x \in Int /\ x >= MinTs
    PROVE  \E m \in T : \A x \in T : m <= x
<1> DEFINE N == {x - MinTs : x \in T}
           R == OpToRel(<, Nat)
<1>1. N \subseteq Nat /\ N # {}
  BY WidthAssumption
<1>2. PICK n \in N : \A y \in N : ~(<<y, n>> \in R)
  <2> HIDE DEF N, R
  <2> QED BY <1>1, NatLessThanWellFounded, WFMin, Zenon DEF R
<1>3. ASSUME NEW y \in N PROVE n <= y
  <2>1. y \in Nat /\ n \in Nat /\ ~(<<y, n>> \in R)
    BY <1>1, <1>2, Zenon
  <2>2. R = {ss \in Nat \X Nat : ss[1] < ss[2]}
    BY DEF OpToRel
  <2> HIDE DEF R, N
  <2>3. ~(y < n)
    BY <2>1, <2>2
  <2> QED BY <2>1, <2>3
<1>4. PICK m \in T : n = m - MinTs
  BY <1>2, Zenon
<1>5. ASSUME NEW x \in T PROVE m <= x
  <2>1. n <= x - MinTs
    BY <1>3
  <2> QED BY <2>1, <1>4, WidthAssumption
<1> QED
  BY <1>5

\* LeastWatermark is the least of the sources' watermarks.
LEMMA LeastIsLeast ==
    ASSUME NEW f, DOMAIN f # {}, \A s \in DOMAIN f : f[s] \in I64
    PROVE  IsLeast(LeastWatermark(f), f)
<1> DEFINE T == {f[s] : s \in DOMAIN f}
<1>1. \A x \in T : x \in Int /\ x >= MinTs
  BY WidthAssumption DEF I64
<1>2. T # {}
  OBVIOUS
<1>3. PICK m \in T : \A x \in T : m <= x
  <2> HIDE DEF T
  <2> QED BY <1>1, <1>2, LeastTimestamp
<1>4. IsLeast(m, f)
  BY <1>3 DEF IsLeast
<1> QED
  BY <1>4 DEF LeastWatermark

\* A generator keeps its type and its watermark never goes back.
LEMMA GeneratorAdvances ==
    ASSUME NEW g \in Generator, NEW ts \in I64, NEW d \in Nat
    PROVE  /\ OnEvent(g, ts, d) \in Generator /\ OnEvent(g, ts, d).wm >= g.wm
           /\ AdvanceWatermark(g, ts, d) \in Generator
           /\ AdvanceWatermark(g, ts, d).wm >= g.wm
BY WidthAssumption
   DEF Generator, I64, OnEvent, AdvanceWatermark, Greater, Lesser, Saturate

Tracker(S) == [of : [S -> I64], combined : I64]

\* The combined watermark is behind every source's.
Behind(S, t) == \A s \in S : t.combined <= t.of[s]

\* Tracker u is t after source s reached wm: its mark is wm unless it was
\* ahead already, and the combined one is behind the slowest source.
Raised(S, t, s, wm, u) ==
    /\ u \in Tracker(S) /\ Behind(S, u)
    /\ u.combined >= t.combined
    /\ u.of[s] = wm \/ (u.of[s] = t.of[s] /\ wm <= t.of[s])
    /\ \A x \in S \ {s} : u.of[x] = t.of[x]

\* What update_source does to the tracker.
LEMMA TrackerAdvances ==
    ASSUME NEW S, NEW t \in Tracker(S), Behind(S, t), NEW s \in S, NEW wm \in I64
    PROVE  Raised(S, t, s, wm, UpdateSource(t, s, wm))
<1> DEFINE v == [t EXCEPT !.of[s] = wm]
           least == LeastWatermark(v.of)
<1>1. CASE ~(wm > t.of[s])
  BY <1>1, WidthAssumption DEF UpdateSource, Raised, Tracker, I64
<1>2. CASE wm > t.of[s]
  <2>1. v \in Tracker(S) /\ v.of[s] = wm /\ v.combined = t.combined
    BY DEF Tracker
  <2>2. \A x \in S \ {s} : v.of[x] = t.of[x]
    BY DEF Tracker
  <2>3. IsLeast(least, v.of)
    <3>1. DOMAIN v.of = S /\ \A x \in S : v.of[x] \in I64
      BY <2>1 DEF Tracker
    <3> QED BY <3>1, LeastIsLeast
  <2>4. least \in I64 /\ \A x \in S : least <= v.of[x]
    BY <2>1, <2>3 DEF IsLeast, Tracker
  <2>5. Behind(S, v)
    BY <1>2, <2>1, <2>2, WidthAssumption, SMTT(30) DEF Behind, Tracker, I64
  <2>6. UpdateSource(t, s, wm) = UpdateCombined(v)
    BY <1>2 DEF UpdateSource
  <2>7. UpdateCombined(v) = v \/ (least > v.combined /\ UpdateCombined(v) = [v EXCEPT !.combined = least])
    BY DEF UpdateCombined
  <2> HIDE DEF v, least
  <2>8. CASE UpdateCombined(v) = v
    BY <2>1, <2>2, <2>5, <2>6, <2>8, WidthAssumption DEF Raised, Tracker, I64
  <2>9. CASE least > v.combined /\ UpdateCombined(v) = [v EXCEPT !.combined = least]
    BY <2>1, <2>2, <2>4, <2>6, <2>9, WidthAssumption, SMTT(30) DEF Raised, Tracker, Behind, I64
  <2> QED BY <2>7, <2>8, <2>9
<1> QED
  BY <1>1, <1>2

\* extract_watermark: generator, tracker and handle keep their types and
\* their order, and neither the generator nor the tracker goes back.
LEMMA ExtractAdvances ==
    ASSUME NEW S, NEW s \in S, NEW g \in Generator, NEW t \in Tracker(S), Behind(S, t),
           t.of[s] <= g.wm, NEW h \in I64, NEW ts \in I64, NEW d \in Nat
    PROVE  LET ex == ExtractWatermark(g, t, h, s, ts, d)
           IN  /\ ex.gen \in Generator /\ ex.gen.wm >= g.wm
               /\ ex.tracker \in Tracker(S) /\ Behind(S, ex.tracker)
               /\ ex.tracker.combined >= t.combined
               /\ ex.tracker.of[s] <= ex.gen.wm
               /\ \A x \in S \ {s} : ex.tracker.of[x] = t.of[x]
               /\ ex.handle \in I64
<1> DEFINE g1 == AdvanceWatermark(g, h, d)
           t1 == IF g1 = g THEN t ELSE UpdateSource(t, s, g1.wm)
           g2 == OnEvent(g1, ts, d)
           t2 == UpdateSource(t1, s, g2.wm)
<1>1. g1 \in Generator /\ g1.wm >= g.wm
  BY GeneratorAdvances, Zenon
<1>2. g2 \in Generator /\ g2.wm >= g1.wm
  <2> HIDE DEF g1
  <2> QED BY <1>1, GeneratorAdvances, Zenon
<1>3. /\ t1 \in Tracker(S) /\ Behind(S, t1) /\ t1.combined >= t.combined
      /\ t1.of[s] <= g1.wm
      /\ \A x \in S \ {s} : t1.of[x] = t.of[x]
  <2> HIDE DEF g1
  <2>1. CASE g1 = g
    <3>1. t1 = t
      BY <2>1
    <3> HIDE DEF t1
    <3> QED BY <3>1, <2>1, WidthAssumption DEF Tracker, I64
  <2>2. CASE g1 # g
    <3>1. t1 = UpdateSource(t, s, g1.wm)
      BY <2>2
    <3>2. g1.wm \in I64 /\ t.of[s] \in I64 /\ g.wm \in I64
      BY <1>1 DEF Generator, Tracker
    <3> HIDE DEF t1
    <3>3. /\ t1 \in Tracker(S) /\ Behind(S, t1) /\ t1.combined >= t.combined
          /\ t1.of[s] = g1.wm \/ t1.of[s] = t.of[s]
          /\ \A x \in S \ {s} : t1.of[x] = t.of[x]
      <4>1. Raised(S, t, s, g1.wm, t1)
        BY <3>1, <3>2, TrackerAdvances, ZenonT(30)
      <4> QED BY <4>1, Zenon DEF Raised
    <3>4. t1.of[s] <= g1.wm
      BY <3>2, <3>3, <1>1, WidthAssumption DEF I64
    <3> QED BY <3>3, <3>4
  <2> QED BY <2>1, <2>2
<1>4. /\ t2 \in Tracker(S) /\ Behind(S, t2) /\ t2.combined >= t1.combined
      /\ t2.of[s] <= g2.wm
      /\ \A x \in S \ {s} : t2.of[x] = t1.of[x]
  <2>1. g2.wm \in I64 /\ g1.wm \in I64 /\ t1.of[s] \in I64
    <3> HIDE DEF g1, g2, t1
    <3> QED BY <1>1, <1>2, <1>3 DEF Generator, Tracker
  <2>5. t2 = UpdateSource(t1, s, g2.wm)
    OBVIOUS
  <2> HIDE DEF g1, g2, t1, t2
  <2>2. /\ t2 \in Tracker(S) /\ Behind(S, t2) /\ t2.combined >= t1.combined
        /\ t2.of[s] = g2.wm \/ t2.of[s] = t1.of[s]
        /\ \A x \in S \ {s} : t2.of[x] = t1.of[x]
    <3>1. Raised(S, t1, s, g2.wm, t2)
      BY <2>1, <2>5, <1>3, TrackerAdvances, ZenonT(30)
    <3> QED BY <3>1, Zenon DEF Raised
  <2>3. t2.of[s] <= g2.wm
    BY <2>1, <2>2, <1>2, <1>3, WidthAssumption, SMTT(30) DEF I64
  <2> QED BY <2>2, <2>3
<1>5. ExtractWatermark(g, t, h, s, ts, d) =
        IF g2.wm = g1.wm THEN [gen |-> g2, tracker |-> t1, handle |-> h]
        ELSE [gen |-> g2, tracker |-> t2, handle |-> Greater(h, g2.wm)]
  BY DEF ExtractWatermark
<1> HIDE DEF g1, g2, t1, t2
<1>6. /\ g2.wm \in I64 /\ g1.wm \in I64 /\ g.wm \in I64
      /\ t1.combined \in I64 /\ t2.combined \in I64 /\ t.combined \in I64
      /\ t1.of[s] \in I64
  BY <1>1, <1>2, <1>3, <1>4, SMTT(30) DEF Generator, Tracker
<1>7. CASE g2.wm = g1.wm
  <2>1. ExtractWatermark(g, t, h, s, ts, d) = [gen |-> g2, tracker |-> t1, handle |-> h]
    BY <1>5, <1>7
  <2> QED BY <2>1, <1>1, <1>2, <1>3, <1>6, <1>7, WidthAssumption, SMTT(30) DEF I64
<1>8. CASE g2.wm # g1.wm
  <2>1. ExtractWatermark(g, t, h, s, ts, d) = [gen |-> g2, tracker |-> t2, handle |-> Greater(h, g2.wm)]
    BY <1>5, <1>8
  <2>2. Greater(h, g2.wm) \in I64
    BY <1>6 DEF Greater
  <2>3. g2.wm >= g.wm /\ t2.combined >= t.combined
    BY <1>1, <1>2, <1>3, <1>4, <1>6, WidthAssumption DEF I64
  <2> QED BY <2>1, <2>2, <2>3, <1>2, <1>3, <1>4, SMTT(30)
<1> QED
  BY <1>7, <1>8

----------------------------------------------------------------------------
(* The invariant: the watermark of the last cycle is behind the combined   *)
(* one, that behind each source's mark in the tracker, that behind the     *)
(* source's generator, with which filter_late_rows compares.               *)

TimeTypes ==
    /\ env \in Deployments
    /\ DOMAIN log = Src /\ DOMAIN buf = Src
    /\ \A s \in Src : \A j \in 1..env.rows[s] : log[s][j].ts \in MinTs+1..MaxTs-1
    /\ pos \in [Src -> Nat]
    /\ handle \in [Src -> I64]
    /\ gen \in [Src -> Generator]
    /\ tracker \in Tracker(Src)
    /\ "closed" \in DOMAIN hist /\ "closed" \in DOMAIN ckpt.hist
    /\ ckpt.pos \in [Src -> Nat]
    /\ hist.closed \in I64

TimeOrder ==
    /\ hist.closed <= tracker.combined
    /\ Behind(Src, tracker)
    /\ \A s \in Src : tracker.of[s] <= gen[s].wm
    /\ \A s \in Src : \A r \in buf[s] : r.ts \in I64 /\ r.ts >= hist.closed

TimeInv == TimeTypes /\ TimeOrder

\* The same of what extract_watermark does to a source of this pipeline.
LEMMA ExtractedAdvances ==
    ASSUME TimeInv, NEW s \in Src, NEW ts \in I64
    PROVE  LET ex == Extracted(s, ts)
           IN  /\ ex.gen \in Generator /\ ex.gen.wm >= gen[s].wm
               /\ ex.tracker \in Tracker(Src) /\ Behind(Src, ex.tracker)
               /\ ex.tracker.combined >= tracker.combined
               /\ ex.tracker.of[s] <= ex.gen.wm
               /\ \A x \in Src \ {s} : ex.tracker.of[x] = tracker.of[x]
               /\ ex.handle \in I64
<1>1. gen[s] \in Generator /\ handle[s] \in I64 /\ env.delay \in Nat
      /\ tracker \in Tracker(Src) /\ Behind(Src, tracker) /\ tracker.of[s] <= gen[s].wm
  BY ExecutorAssumption DEF TimeInv, TimeTypes, TimeOrder
<1> QED
  BY <1>1, ExtractAdvances, Zenon DEF Extracted

LEMMA TimeInit == Init => TimeInv
<1> SUFFICES ASSUME Init PROVE TimeInv
  OBVIOUS
<1>1. MinTs \in I64
  BY WidthAssumption DEF I64
<1>2. env \in Deployments /\ env.times \subseteq MinTs+1..MaxTs-1
  BY ExecutorAssumption DEF Init
<1>3. DOMAIN log = Src /\ \A s \in Src : log[s] \in Rows(env)[s]
  BY DEF Init
<1>4. ASSUME NEW s \in Src, NEW j \in 1..env.rows[s]
      PROVE  log[s][j].ts \in MinTs+1..MaxTs-1
  <2>1. Rows(env)[s] =
          {[i \in 1..env.rows[s] |-> [src |-> s, n |-> i, ts |-> f[i][1], key |-> f[i][2]]] :
              f \in [1..env.rows[s] -> env.times \X env.keys]}
    BY DEF Rows, Src
  <2>2. PICK f \in [1..env.rows[s] -> env.times \X env.keys] :
          log[s] = [i \in 1..env.rows[s] |->
                      [src |-> s, n |-> i, ts |-> f[i][1], key |-> f[i][2]]]
    BY <1>3, <2>1
  <2>3. log[s][j].ts = f[j][1] /\ f[j] \in env.times \X env.keys
    BY <2>2
  <2> QED BY <1>2, <2>3
<1>5. hist.closed = MinTs /\ "closed" \in DOMAIN hist /\ ckpt.hist = hist /\ ckpt.pos = pos
  BY DEF Init, NewHistory
<1>6. TimeTypes
  BY <1>1, <1>2, <1>3, <1>4, <1>5, SMTT(30)
     DEF TimeTypes, Init, NewGenerator, NewTracker, Generator, Tracker
<1>7. TimeOrder
  BY <1>1, <1>5, WidthAssumption
     DEF TimeOrder, Init, NewGenerator, NewTracker, Behind, I64
<1> QED
  BY <1>6, <1>7 DEF TimeInv

\* The steps that leave the clocks, the logs and the buffers alone or empty
\* the buffers, and do not lower the last cycle's watermark.
LEMMA TimeKept ==
    ASSUME TimeInv, UNCHANGED <<env, log, gen, tracker>>,
           pos' \in [Src -> Nat], handle' \in [Src -> I64],
           buf' = buf \/ buf' = [s \in Src |-> {}],
           "closed" \in DOMAIN hist',
           "closed" \in DOMAIN ckpt'.hist /\ ckpt'.pos \in [Src -> Nat],
           \/ hist'.closed = hist.closed
           \/ buf' = [s \in Src |-> {}] /\ hist'.closed = tracker.combined
    PROVE  TimeInv'
<1>0. tracker.combined \in I64 /\ \A s \in Src : tracker.of[s] \in I64
  BY DEF TimeInv, TimeTypes, Tracker
<1>1. TimeTypes'
  BY <1>0 DEF TimeInv, TimeTypes, Src, Generator, Tracker
<1>2. TimeOrder'
  BY <1>0, WidthAssumption, SMTT(30) DEF TimeInv, TimeTypes, TimeOrder, Behind, Src, I64
<1> QED
  BY <1>1, <1>2 DEF TimeInv

LEMMA BatchKeepsTime ==
    ASSUME TimeInv, NEW s \in Src, ProcessBatch(s)
    PROVE  TimeInv' /\ tracker'.combined >= tracker.combined
<1>1. PICK k \in 1..MaxBatch :
        LET rows == {log[s][j] : j \in pos[s]+1..pos[s]+k}
        IN  /\ pos[s] + k <= env.rows[s]
            /\ pos' = [pos EXCEPT ![s] = @ + k]
            /\ \E latest \in rows :
                  LET ex == Extracted(s, latest.ts)
                      kept == OnTime(rows, ex.gen.wm)
                  IN  /\ \A r \in rows : r.ts <= latest.ts
                      /\ gen' = [gen EXCEPT ![s] = ex.gen]
                      /\ tracker' = ex.tracker
                      /\ handle' = [handle EXCEPT ![s] = ex.handle]
                      /\ buf' = [buf EXCEPT ![s] = @ \cup kept]
                      /\ hist' = [hist EXCEPT !.revived =
                                     @ \cup {r \in kept : r.ts < hist.floor}]
  BY Zenon DEF ProcessBatch
<1> DEFINE rows == {log[s][j] : j \in pos[s]+1..pos[s]+k}
<1>2. pos[s] \in Nat /\ pos' \in [Src -> Nat] /\ pos[s] + k <= env.rows[s]
  BY <1>1 DEF TimeInv, TimeTypes
<1>3. ASSUME NEW r \in rows PROVE r.ts \in MinTs+1..MaxTs-1
  <2>1. PICK j \in pos[s]+1..pos[s]+k : r = log[s][j]
    OBVIOUS
  <2>2. env.rows[s] \in Nat
    BY ExecutorAssumption DEF TimeInv, TimeTypes, Src
  <2>3. j \in 1..env.rows[s]
    BY <2>1, <2>2, <1>2
  <2> QED BY <2>1, <2>3 DEF TimeInv, TimeTypes
<1>4. PICK latest \in rows :
        LET ex == Extracted(s, latest.ts)
            kept == OnTime(rows, ex.gen.wm)
        IN  /\ gen' = [gen EXCEPT ![s] = ex.gen]
            /\ tracker' = ex.tracker
            /\ handle' = [handle EXCEPT ![s] = ex.handle]
            /\ buf' = [buf EXCEPT ![s] = @ \cup kept]
            /\ hist' = [hist EXCEPT !.revived =
                           @ \cup {r \in kept : r.ts < hist.floor}]
  BY <1>1, Zenon
<1> DEFINE ex == Extracted(s, latest.ts)
           kept == OnTime(rows, ex.gen.wm)
<1> HIDE DEF rows
<1>5. latest.ts \in I64
  BY <1>3, WidthAssumption, SMTT(30) DEF I64
<1>6. /\ ex.gen \in Generator /\ ex.gen.wm >= gen[s].wm
      /\ ex.tracker \in Tracker(Src) /\ Behind(Src, ex.tracker)
      /\ ex.tracker.combined >= tracker.combined
      /\ ex.tracker.of[s] <= ex.gen.wm
      /\ \A x \in Src \ {s} : ex.tracker.of[x] = tracker.of[x]
      /\ ex.handle \in I64
  BY <1>5, ExtractedAdvances
<1>7. hist' = [hist EXCEPT !.revived = hist'.revived] /\ UNCHANGED <<env, log, ckpt>>
  BY <1>4 DEF ProcessBatch
<1>8. /\ gen' = [gen EXCEPT ![s] = ex.gen] /\ tracker' = ex.tracker
       /\ handle' = [handle EXCEPT ![s] = ex.handle]
       /\ buf' = [buf EXCEPT ![s] = @ \cup kept]
  BY <1>4, Zenon
<1> HIDE DEF ex
<1>9. /\ UNCHANGED <<env, log, ckpt>> /\ Src' = Src
      /\ "closed" \in DOMAIN hist' /\ hist'.closed = hist.closed
      /\ DOMAIN buf' = Src
  BY <1>7, <1>8, SMTT(30) DEF Src, TimeInv, TimeTypes
<1>10. TimeTypes'
  BY <1>2, <1>8, <1>6, <1>9, SMTT(30) DEF TimeInv, TimeTypes, Generator, Tracker
<1>11. ASSUME NEW x \in Src PROVE tracker'.of[x] <= gen'[x].wm
  BY <1>8, <1>6, SMTT(30) DEF TimeInv, TimeTypes, TimeOrder
<1>12. hist.closed <= tracker'.combined
  <2>1. /\ hist.closed \in I64 /\ tracker.combined \in I64 /\ ex.tracker.combined \in I64
        /\ hist.closed <= tracker.combined
    BY <1>6 DEF TimeInv, TimeTypes, TimeOrder, Tracker
  <2> QED BY <2>1, <1>8, <1>6, WidthAssumption, SMTT(30) DEF I64
<1>13. ASSUME NEW r \in kept PROVE r.ts \in I64 /\ r.ts >= hist.closed
  <2>1. r \in rows /\ (ex.gen.wm = MinTs \/ r.ts >= ex.gen.wm)
    BY DEF OnTime
  <2>2. r.ts \in MinTs+1..MaxTs-1
    BY <2>1, <1>3, SMTT(30)
  <2>3. hist.closed \in I64 /\ ex.gen.wm \in I64
    BY <1>6 DEF TimeInv, TimeTypes, Generator
  <2>4. hist.closed <= ex.gen.wm
    <3>1. ex.tracker.combined <= ex.tracker.of[s]
      BY <1>6 DEF Behind
    <3>2. ex.tracker.combined \in I64 /\ ex.tracker.of[s] \in I64
      BY <1>6 DEF Tracker
    <3> QED BY <3>1, <3>2, <2>3, <1>8, <1>6, <1>12, WidthAssumption, SMTT(30) DEF I64
  <2> QED BY <2>1, <2>2, <2>3, <2>4, WidthAssumption DEF I64
<1>14. ASSUME NEW x \in Src, NEW r \in buf'[x]
       PROVE  r.ts \in I64 /\ r.ts >= hist.closed
  <2> HIDE DEF kept
  <2>1. CASE r \in buf[x]
    BY <2>1 DEF TimeInv, TimeOrder
  <2>2. CASE r \notin buf[x]
    <3>1. r \in kept
      BY <1>8, <2>2, SMTT(30) DEF TimeInv, TimeTypes, kept
    <3> QED BY <3>1, <1>13, SMTT(30)
  <2> QED BY <2>1, <2>2
<1>15. TimeOrder'
  BY <1>8, <1>6, <1>9, <1>11, <1>12, <1>14 DEF TimeOrder, Behind
<1> QED
  BY <1>8, <1>6, <1>10, <1>15 DEF TimeInv

LEMMA CycleKeepsTime ==
    ASSUME TimeInv, EndCycle,
           \/ \E n : CycleDone(n)
           \/ \E n : CycleFailed(n)
    PROVE  TimeInv' /\ tracker' = tracker
<1>1. "closed" \in DOMAIN hist' /\ hist'.closed = tracker.combined
  <2>1. CASE \E n : CycleDone(n)
    <3>1. PICK a, b : hist' = [hist EXCEPT !.out = a, !.offered = b,
                                  !.closed = tracker.combined]
      <4>1. PICK n : CycleDone(n)
        BY <2>1
      <4> DEFINE done == {order[j] : j \in 1..n} \ {0}
                 a == [i \in Qs |->
                         IF i \in done
                         THEN hist.out[i] (+) Run(Query(i), Begun(i), tracker.combined).out
                         ELSE hist.out[i]]
                 b == [i \in Qs |-> IF i \in done THEN hist.offered[i] \cup Inputs(Query(i))
                                    ELSE hist.offered[i]]
      <4>2. hist' = [hist EXCEPT !.out = a, !.offered = b,
                                 !.closed = tracker.combined]
        BY <4>1, Zenon DEF CycleDone
      <4> HIDE DEF a, b, done
      <4> QED BY <4>2, Zenon
    <3> QED BY <3>1 DEF TimeInv, TimeTypes
  <2>2. CASE \E n : CycleFailed(n)
    <3>1. PICK a, b : hist' = [hist EXCEPT !.lost = a, !.offered = b,
                                  !.closed = tracker.combined]
      BY <2>2, Zenon DEF CycleFailed
    <3> QED BY <3>1 DEF TimeInv, TimeTypes
  <2> QED BY <2>1, <2>2
<1>2. /\ UNCHANGED <<env, log, pos, handle, gen, tracker, ckpt>>
      /\ buf' = [s \in Src |-> {}]
  BY DEF EndCycle, times
<1>3. /\ pos' \in [Src -> Nat] /\ handle' \in [Src -> I64]
      /\ "closed" \in DOMAIN ckpt'.hist /\ ckpt'.pos \in [Src -> Nat]
  BY <1>2 DEF TimeInv, TimeTypes
<1> QED
  BY <1>1, <1>2, <1>3, TimeKept, SMTT(30)

LEMMA CrashKeepsTime ==
    ASSUME TimeInv, Crash
    PROVE  TimeInv'
<1>1. /\ UNCHANGED <<env, log, ckpt>> /\ Src' = Src
      /\ pos' = ckpt.pos /\ buf' = [s \in Src |-> {}]
      /\ handle' = [s \in Src |-> MinTs] /\ gen' = [s \in Src |-> NewGenerator]
      /\ tracker' = NewTracker(Src)
      /\ hist' = [ckpt.hist EXCEPT !.closed = MinTs]
  BY DEF Crash, Src
<1>2. MinTs \in I64 /\ "closed" \in DOMAIN hist' /\ hist'.closed = MinTs
  BY <1>1, WidthAssumption DEF TimeInv, TimeTypes, I64
<1>3. TimeTypes'
  BY <1>1, <1>2 DEF TimeInv, TimeTypes, NewGenerator, NewTracker, Generator, Tracker
<1>4. TimeOrder'
  BY <1>1, <1>2, WidthAssumption, SMTT(30)
     DEF TimeOrder, NewGenerator, NewTracker, Behind, I64
<1> QED
  BY <1>3, <1>4 DEF TimeInv

LEMMA TimeStep ==
    ASSUME TimeInv, [Next]_vars
    PROVE  TimeInv' /\ (tracker'.combined >= tracker.combined \/ Crash)
<1>0. tracker.combined \in Int
  BY WidthAssumption DEF TimeInv, TimeTypes, Tracker, I64
<1>8. /\ handle \in [Src -> I64] /\ pos \in [Src -> Nat] /\ ckpt.pos \in [Src -> Nat]
      /\ "closed" \in DOMAIN hist /\ "closed" \in DOMAIN ckpt.hist
  BY Zenon DEF TimeInv, TimeTypes
<1>1. ASSUME NEW s \in Src, ProcessBatch(s)
      PROVE  TimeInv' /\ tracker'.combined >= tracker.combined
  BY <1>1, BatchKeepsTime
<1>2. ASSUME UNCHANGED <<env, log, pos, gen, tracker, buf>>, handle' \in [Src -> I64],
             "closed" \in DOMAIN hist', hist'.closed = hist.closed,
             "closed" \in DOMAIN ckpt'.hist, ckpt'.pos \in [Src -> Nat]
      PROVE  TimeInv' /\ tracker'.combined >= tracker.combined
  <2>1. pos' \in [Src -> Nat]
    BY <1>2, <1>8
  <2> QED BY <1>0, <1>2, <2>1, TimeKept
<1>3. ASSUME NEW s \in Src, SetWatermark(s)
      PROVE  TimeInv' /\ tracker'.combined >= tracker.combined
  <2>1. PICK w \in env.times : handle' = [handle EXCEPT ![s] = w]
    BY <1>3, Zenon DEF SetWatermark
  <2>2. w \in I64
    BY ExecutorAssumption, WidthAssumption DEF TimeInv, TimeTypes, I64
  <2>3. handle' \in [Src -> I64]
    BY <1>8, <2>1, <2>2, SMTT(30)
  <2>4. UNCHANGED <<env, log, pos, gen, tracker, buf, hist, ckpt>>
    BY <1>3 DEF SetWatermark
  <2> QED BY <1>2, <1>8, <2>3, <2>4, ZenonT(30)
<1>4. ASSUME ExecuteCycle \/ ExecuteCycleSkipping \/ ExecuteCycleFailing
      PROVE  TimeInv' /\ tracker'.combined >= tracker.combined
  <2>1. EndCycle /\ ((\E n : CycleDone(n)) \/ (\E n : CycleFailed(n)))
    BY <1>4, Zenon DEF ExecuteCycle, ExecuteCycleSkipping, ExecuteCycleFailing
  <2> QED BY <1>0, <2>1, CycleKeepsTime
<1>5. ASSUME Checkpoint
      PROVE  TimeInv' /\ tracker'.combined >= tracker.combined
  <2>1. /\ UNCHANGED <<env, log, pos, handle, gen, tracker, buf, hist>>
        /\ ckpt'.pos = pos
    BY <1>5 DEF Checkpoint, times
  <2>2. "closed" \in DOMAIN ckpt'.hist
    <3>1. PICK a, b : ckpt'.hist = [hist EXCEPT !.floor = a, !.forgotten = b]
      BY <1>5, Zenon DEF Checkpoint
    <3> QED BY <1>8, <3>1
  <2> QED BY <1>2, <1>8, <2>1, <2>2, Zenon
<1>6. ASSUME NEW i \in Qs, RemoveQuery(i) \/ AddQuery(i)
      PROVE  TimeInv' /\ tracker'.combined >= tracker.combined
  <2>1. UNCHANGED <<env, log, pos, handle, gen, tracker, buf, ckpt>>
    BY <1>6 DEF RemoveQuery, AddQuery, times
  <2>2. "closed" \in DOMAIN hist' /\ hist'.closed = hist.closed
    <3>1. CASE RemoveQuery(i)
      <4>1. PICK a, b, c, d, e :
              hist' = [hist EXCEPT !.out = a, !.lost = b, !.offered = c,
                                   !.forgotten = d, !.stale = e]
        BY <3>1, Zenon DEF RemoveQuery, Unheard
      <4> QED BY <1>8, <4>1
    <3>2. CASE AddQuery(i)
      <4>1. PICK a : hist' = [hist EXCEPT !.stale = a]
        BY <3>2, Zenon DEF AddQuery
      <4> QED BY <1>8, <4>1
    <3> QED BY <1>6, <3>1, <3>2
  <2> QED BY <1>2, <1>8, <2>1, <2>2, Zenon
<1>7. ASSUME UNCHANGED vars
      PROVE  TimeInv' /\ tracker'.combined >= tracker.combined
  <2>1. UNCHANGED <<env, log, pos, handle, gen, tracker, buf, hist, ckpt>>
    BY <1>7 DEF vars
  <2> QED BY <1>2, <1>8, <2>1, ZenonT(30)
<1> QED
  BY <1>1, <1>3, <1>4, <1>5, <1>6, <1>7, CrashKeepsTime, SMTT(30) DEF Next

\* A row that filter_late_rows let through is never behind a watermark at
\* which an earlier cycle of the process closed windows, for any sources,
\* delays, rows and interleaving of batches, cycles, checkpoints, crashes,
\* external watermarks and stream DDL.
THEOREM RowsAcceptedAreOpen == Spec => []AcceptedAreOpen
<1>1. TimeInv => AcceptedAreOpen
  BY DEF TimeInv, TimeOrder, AcceptedAreOpen
<1> QED
  BY <1>1, TimeInit, TimeStep, PTL DEF Spec

\* pipeline_watermark never goes back within a process and never overtakes
\* a source's own generator.
THEOREM CombinedWatermarkAdvances == Spec => WatermarkAdvances
<1>1. ASSUME TimeInv, TimeInv', [Next]_vars
      PROVE  [/\ tracker'.combined >= tracker.combined \/ Crash
              /\ \A s \in Src : tracker'.combined <= gen'[s].wm]_vars
  <2>1. CASE UNCHANGED vars
    BY <2>1
  <2>2. CASE Next
    <3>1. tracker'.combined >= tracker.combined \/ Crash
      BY <1>1, TimeStep
    <3>2. Src' = Src
      BY <2>2, Zenon DEF Src, Next, ProcessBatch, SetWatermark, ExecuteCycle, ExecuteCycleSkipping,
                  ExecuteCycleFailing, EndCycle, Checkpoint, Crash, RemoveQuery, AddQuery
    <3>3. ASSUME NEW s \in Src PROVE tracker'.combined <= gen'[s].wm
      <4>1. tracker'.combined <= tracker'.of[s] /\ tracker'.of[s] <= gen'[s].wm
        BY <1>1, <3>2, SMTT(30) DEF TimeInv, TimeOrder, Behind
      <4>2. tracker'.combined \in I64 /\ tracker'.of[s] \in I64 /\ gen'[s].wm \in I64
        BY <1>1, <3>2 DEF TimeInv, TimeTypes, Tracker, Generator, I64
      <4> QED BY <4>1, <4>2, WidthAssumption, SMTT(30) DEF I64
    <3> QED BY <3>1, <3>3
  <2> QED BY <1>1, <2>1, <2>2
<1> QED
  BY <1>1, TimeInit, TimeStep, PTL DEF Spec, WatermarkAdvances

=============================================================================
