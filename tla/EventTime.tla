----------------------------- MODULE EventTime -----------------------------
(***************************************************************************)
(* Event time: i64 arithmetic, the bounded out-of-orderness watermark      *)
(* generator of a source, the tracker that combines the sources' marks,    *)
(* and the assignment of timestamps to windows.                            *)
(*                                                                         *)
(* i64 is modelled with its two ends as constants, so that saturating and  *)
(* wrapping arithmetic differ where they differ in the code: i64::MIN is   *)
(* the watermark of a source that has delivered nothing.                   *)
(***************************************************************************)
EXTENDS Integers

CONSTANTS MinTs, MaxTs           \* i64::MIN and i64::MAX

ASSUME WidthAssumption ==
    /\ MinTs \in Int /\ MaxTs \in Int
    /\ MinTs < 0 /\ MaxTs = -MinTs - 1

I64 == MinTs..MaxTs

Greater(a, b) == IF a > b THEN a ELSE b
Lesser(a, b) == IF a < b THEN a ELSE b

Saturate(x) == Greater(MinTs, Lesser(x, MaxTs))

\* Plain + and - in a release build (no overflow checks).
Wrap(x) == ((x - MinTs) % (MaxTs - MinTs + 1)) + MinTs

\* Rust's integer division truncates towards zero.
Quotient(a, b) == IF a >= 0 THEN a \div b ELSE -((-a) \div b)

----------------------------------------------------------------------------
(* Watermark generators: max is current_max_timestamp, wm the watermark,   *)
(* delay max_out_of_orderness.                                             *)

NewGenerator == [max |-> MinTs, wm |-> MinTs]

OnEvent(g, ts, delay) ==
    IF ts > g.max
    THEN [max |-> ts, wm |-> Greater(g.wm, Saturate(ts - delay))]
    ELSE g

AdvanceWatermark(g, ts, delay) ==
    IF ts > g.wm
    THEN [max |-> Greater(g.max, Saturate(ts + delay)), wm |-> ts]
    ELSE g

----------------------------------------------------------------------------
(* WatermarkTracker: of[s] is the last watermark of source s, combined the *)
(* least of them.  No caller of the repository marks a source idle, so all *)
(* sources are active.                                                     *)

NewTracker(S) == [of |-> [s \in S |-> MinTs], combined |-> MinTs]

IsLeast(m, f) == (\E s \in DOMAIN f : f[s] = m) /\ (\A s \in DOMAIN f : m <= f[s])

\* Variant: the fastest source decides.
GreatestWatermark(f) == CHOOSE m \in {f[s] : s \in DOMAIN f} : \A s \in DOMAIN f : f[s] <= m

LeastWatermark(f) == CHOOSE m \in {f[s] : s \in DOMAIN f} : IsLeast(m, f)

UpdateCombined(t) ==
    LET least == LeastWatermark(t.of)
    IN  IF least > t.combined /\ least # MaxTs
        THEN [t EXCEPT !.combined = least]
        ELSE t

\* Variant: the combined mark follows the source that moved.
UpdateSourceDirect(t, s, wm) ==
    IF wm > t.of[s] THEN [t EXCEPT !.of[s] = wm, !.combined = Greater(@, wm)] ELSE t

UpdateSource(t, s, wm) ==
    IF wm > t.of[s] THEN UpdateCombined([t EXCEPT !.of[s] = wm]) ELSE t

\* extract_watermark for source s: the generator g after the handle's
\* watermark h, then after the largest timestamp of the batch; the tracker t
\* and the handle follow it.
ExtractWatermark(g, t, h, s, maxTs, delay) ==
    LET g1 == AdvanceWatermark(g, h, delay)
        t1 == IF g1 = g THEN t ELSE UpdateSource(t, s, g1.wm)
        g2 == OnEvent(g1, maxTs, delay)
    IN  IF g2.wm = g1.wm
        THEN [gen |-> g2, tracker |-> t1, handle |-> h]
        ELSE [gen |-> g2, tracker |-> UpdateSource(t1, s, g2.wm), handle |-> Greater(h, g2.wm)]

----------------------------------------------------------------------------
(* Windows.                                                                *)

\* Variant: no correction for negative values.
FloorToTruncated(x, step) == Quotient(x, step) * step

\* Truncating division where the value is negative needs the correction.
FloorTo(x, step) ==
    IF x >= 0 THEN Quotient(x, step) * step
    ELSE Quotient(x - step + 1, step) * step

\* SlidingWindowAssigner::assign_windows; with size = slide it is the
\* tumbling assign.  The starts go back from the last one, slide by slide.
AssignWindows(ts, size, slide) ==
    LET last == FloorTo(ts, slide)
    IN  {last - k * slide :
            k \in {k \in 0..size : last - k * slide + size > ts}}

\* compute_closed_boundary for tumbling (size = slide) and sliding windows.
\* The subtractions the code writes with a plain minus wrap.
ClosedBoundary(wm, size, slide) ==
    IF size = slide
    THEN IF wm >= 0 THEN Quotient(wm, size) * size
         ELSE Quotient(Wrap(wm - size + 1), size) * size
    ELSE LET base == Saturate(wm - size)
         IN  IF base >= 0
             THEN Saturate((Quotient(base, slide) + 1) * slide)
             ELSE Saturate((Quotient(Wrap(base - slide + 1), slide) + 1) * slide)

============================================================================
