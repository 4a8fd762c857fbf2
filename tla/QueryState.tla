---------------------------- MODULE QueryState ----------------------------
(***************************************************************************)
(* The state a continuous query keeps between cycles and what one cycle    *)
(* does to it: window aggregates (CoreWindowState and, with the same       *)
(* rules, IncrementalEowcState), session windows, raw-batch EMIT ON WINDOW *)
(* CLOSE queries, interval joins and running aggregates.                   *)
(*                                                                         *)
(* An accumulator is the bag of the rows it has been given, so a row that  *)
(* is counted twice or not at all shows.  A row is [src, n, ts, key].      *)
(***************************************************************************)
EXTENDS EventTime, Sequences, FiniteSetsExt

----------------------------------------------------------------------------
(* Bags: each member with its number of copies, the operators of the       *)
(* standard module Bags that are used here.                                *)

SetToBag(S) == [e \in S |-> 1]
EmptyBag == SetToBag({})
Copies(e, B) == IF e \in DOMAIN B THEN B[e] ELSE 0
A (+) B == [e \in (DOMAIN A) \cup (DOMAIN B) |-> Copies(e, A) + Copies(e, B)]

\* The rows of a bag before a timestamp, and those at or after it.
RowsBefore(B, ts) == Restrict(B, {r \in DOMAIN B : r.ts < ts})
RowsFrom(B, ts) == Restrict(B, {r \in DOMAIN B : r.ts >= ts})

----------------------------------------------------------------------------
(* Tumbling and hopping windows: a bag of <<window start, row>>.           *)

UpdateWindows(W, rows, size, slide) ==
    W (+) SetToBag(UNION {{<<w, r>> : w \in AssignWindows(r.ts, size, slide)} : r \in rows})

\* Variant: a window closes one tick before its end.
ClosingEarly(W, size, late, wm) ==
    {w \in {e[1] : e \in DOMAIN W} : Saturate(Saturate(w + size) + late) <= wm + 1}

\* The starts close_fixed_windows collects, in increasing order.
Closing(W, size, late, wm) ==
    {w \in {e[1] : e \in DOMAIN W} : Saturate(Saturate(w + size) + late) <= wm}

\* emit_window for one start: a row of output per group.
EmitWindow(W, w, size) ==
    {[start |-> w, end |-> Saturate(w + size), key |-> k,
      rows |-> LET mine == {e \in DOMAIN W : e[1] = w /\ e[2].key = k}
               IN  [r \in {e[2] : e \in mine} |-> W[<<w, r>>]]] :
        k \in {e[2].key : e \in {x \in DOMAIN W : x[1] = w}}}

EmitWindows(W, starts, size) == SetToBag(UNION {EmitWindow(W, w, size) : w \in starts})

RemoveWindows(W, starts) == Restrict(W, {e \in DOMAIN W : e[1] \notin starts})

----------------------------------------------------------------------------
(* Session windows: <<key, start>> -> [end, rows].                         *)

\* Variant: only sessions that began before the row.
OverlappingEarlier(S, key, ts, gap) ==
    {k \in DOMAIN S : k[1] = key /\ k[2] <= ts /\ S[k].end >= ts}

\* The open sessions that a row of this key, at ts, touches.
Overlapping(S, key, ts, gap) ==
    {k \in DOMAIN S : k[1] = key /\ k[2] <= Saturate(ts + gap) /\ S[k].end >= ts}

\* No session touched: a new one; one: extended (and keyed by its new
\* start); several: all of them merged.
UpdateSession(S, r, gap) ==
    LET touched == Overlapping(S, r.key, r.ts, gap)
        start == Min({r.ts} \cup {k[2] : k \in touched})
        end == Max({Saturate(r.ts + gap)} \cup {S[k].end : k \in touched})
        rows == MapThenFoldSet(LAMBDA x, y : x (+) y, SetToBag({r}), LAMBDA k : S[k].rows,
                               LAMBDA T : CHOOSE k \in T : TRUE, touched)
    IN  [k \in (DOMAIN S \ touched) \cup {<<r.key, start>>} |->
            IF k = <<r.key, start>> THEN [end |-> end, rows |-> rows] ELSE S[k]]

\* Row by row, in the order they arrived.
UpdateSessions(S, rows, gap) ==
    MapThenFoldSet(LAMBDA r, T : UpdateSession(T, r, gap), S, LAMBDA r : r,
                   LAMBDA R : CHOOSE last \in R : \A r \in R : r.n <= last.n, rows)

ClosingSessions(S, late, wm) == {k \in DOMAIN S : Saturate(S[k].end + late) <= wm}

EmitSessions(S, keys) ==
    SetToBag({[start |-> k[2], end |-> S[k].end, key |-> k[1], rows |-> S[k].rows] : k \in keys})

----------------------------------------------------------------------------
(* Interval join: the rows buffered on each side.                          *)

Near(l, r, bound) == l.key = r.key /\ l.ts - bound <= r.ts /\ r.ts <= l.ts + bound

Probe(L, R, bound) ==
    [p \in {p \in (DOMAIN L) \X (DOMAIN R) : Near(p[1], p[2], bound)} |-> L[p[1]] * R[p[2]]]

\* New left rows probe all right rows, new right rows the old left ones.
JoinMatches(j, newL, newR, bound) ==
    Probe(newL, j.right (+) newR, bound) (+) Probe(j.left, newR, bound)

JoinBuffered(j, newL, newR) ==
    [j EXCEPT !.left = @ (+) newL, !.right = @ (+) newR]

\* Variant: rows are evicted as soon as the watermark passes them.
JoinEvictedAtWatermark(j, bound, wm) ==
    IF wm > j.evicted
      THEN [left |-> RowsFrom(j.left, wm), right |-> RowsFrom(j.right, wm), evicted |-> wm]
      ELSE j

JoinEvicted(j, bound, wm) ==
    LET cutoff == Saturate(wm - bound)
    IN  IF cutoff > j.evicted
          THEN [left |-> RowsFrom(j.left, cutoff), right |-> RowsFrom(j.right, cutoff),
                evicted |-> cutoff]
          ELSE j

============================================================================
