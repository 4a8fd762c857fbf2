--------------------------- MODULE StreamExecutor ---------------------------
(***************************************************************************)
(* The SQL cycle: batches are taken from the sources, their watermarks are *)
(* extracted and their late rows dropped, execute_cycle runs the queries   *)
(* over what is left, and a checkpoint snapshots the queries' state, which *)
(* a restarted process gives back to each query when it first runs.        *)
(*                                                                         *)
(* All of this happens in the coordinator's task, so a batch, a cycle and  *)
(* a snapshot are one action each.  Which batches a cycle takes and where  *)
(* a checkpoint cuts the sources is the subject of StreamingCoordinator;   *)
(* here the cut is between two cycles and delivery is exactly-once: a      *)
(* crash takes the sources and the output back to the last checkpoint.     *)
(***************************************************************************)
EXTENDS QueryState

CONSTANTS Deployments,    \* the queries, sources and faults considered
          MaxBatch        \* bound on the rows of a batch

Kinds == {"window", "session", "raw", "join", "aggregate"}
Faults == {"crash", "error", "skip", "ddl", "external"}

\* A query reads left (a join also right); size is the window size, the
\* session gap or the join bound, late the allowed lateness.
\* A deployment has its queries in topological order, the number of rows of
\* each watermarked source, their timestamps, keys and out-of-orderness
\* bound, and how often each kind of fault or outside event may happen.
ASSUME ExecutorAssumption ==
    /\ MaxBatch \in Nat \ {0}
    /\ \A d \in Deployments :
          /\ DOMAIN d.rows # {} /\ \A s \in DOMAIN d.rows : d.rows[s] \in Nat
          /\ d.times \subseteq MinTs+1..MaxTs-1
          /\ d.delay \in Nat
          /\ d.faults \in [Faults -> Nat]
          /\ \A i \in DOMAIN d.queries :
                LET q == d.queries[i]
                IN  /\ q.kind \in Kinds /\ {q.left, q.right} \subseteq DOMAIN d.rows
                    /\ q.size \in Nat \ {0} /\ q.slide \in Nat \ {0} /\ q.late \in Nat

VARIABLES env,      \* the deployment
          log,      \* source -> its rows, in order
          pos,      \* source -> rows delivered
          handle,   \* source -> watermark of its Source handle
          gen,      \* source -> watermark generator
          tracker,  \* WatermarkTracker; its combined is pipeline_watermark
          buf,      \* source -> its rows in source_batches_buf (n gives their order)
          order,    \* topo_order, with 0 where a query was removed
          state,    \* query -> <<its state>>, or <<>> before its first run
          pending,  \* query -> pending_restore, in the same form
          ran,      \* counters.cycles > 0
          ckpt,     \* the last checkpoint
          hist,     \* what was done so far, for the properties
          left      \* how often each fault may still happen

vars == <<env, log, pos, handle, gen, tracker, buf, order, state, pending, ran,
          ckpt, hist, left>>

times == <<handle, gen, tracker>>

Src == DOMAIN env.rows
Qs == DOMAIN env.queries
Query(i) == env.queries[i]
Live == Range(order) \ {0}

Spend(f) == left[f] > 0 /\ left' = [left EXCEPT ![f] = @ - 1]

\* out: what reached the streams and sinks; lost: output of failed cycles;
\* offered: rows a query was run on; closed: watermark of the last cycle;
\* floor: highest watermark of a cycle before the recovered checkpoint;
\* revived: rows taken though behind floor; forgotten: queries whose pending
\* state a checkpoint left out; stale: re-created queries with a pending one.
NewHistory(Q) ==
    [out |-> [i \in Q |-> EmptyBag], lost |-> [i \in Q |-> EmptyBag],
     offered |-> [i \in Q |-> {}], closed |-> MinTs, floor |-> MinTs,
     revived |-> {}, forgotten |-> {}, stale |-> {}]

\* Raw-batch state is created with the query, the others at its first run.
Initial(q) ==
    IF q.kind = "raw" THEN <<[rows |-> EmptyBag, boundary |-> MinTs]>> ELSE <<>>

FreshState(q) ==
    IF q.kind = "join" THEN [left |-> EmptyBag, right |-> EmptyBag, evicted |-> MinTs]
    ELSE EmptyBag

Rows(d) ==
    [s \in DOMAIN d.rows |->
        {[i \in 1..d.rows[s] |-> [src |-> s, n |-> i, ts |-> f[i][1], key |-> f[i][2]]] :
            f \in [1..d.rows[s] -> d.times \X d.keys]}]

Init ==
    /\ env \in Deployments
    /\ log \in {f \in [Src -> UNION {Rows(env)[s] : s \in Src}] :
                    \A s \in Src : f[s] \in Rows(env)[s]}
    /\ pos = [s \in Src |-> 0]
    /\ handle = [s \in Src |-> MinTs]
    /\ gen = [s \in Src |-> NewGenerator]
    /\ tracker = NewTracker(Src)
    /\ buf = [s \in Src |-> {}]
    /\ order = [i \in Qs |-> i]
    /\ state = [i \in Qs |-> Initial(Query(i))]
    /\ pending = [i \in Qs |-> <<>>]
    /\ ran = FALSE
    /\ hist = NewHistory(Qs)
    /\ ckpt = [pos |-> pos, state |-> pending, hist |-> hist]
    /\ left = env.faults

----------------------------------------------------------------------------
(* A batch: extract_watermark, then filter_late_rows, in process_msg.      *)

Extracted(s, maxTs) == ExtractWatermark(gen[s], tracker, handle[s], s, maxTs, env.delay)

\* Variant: late rows are let through.
OnTimeAll(rows, wm) == rows

OnTime(rows, wm) == {r \in rows : wm = MinTs \/ r.ts >= wm}

ProcessBatch(s) ==
    /\ \E k \in 1..MaxBatch :
          LET rows == {log[s][j] : j \in pos[s]+1..pos[s]+k}
          IN  /\ pos[s] + k <= env.rows[s]
              /\ pos' = [pos EXCEPT ![s] = @ + k]
              /\ \E latest \in rows :
                    LET ex == Extracted(s, latest.ts)
                        kept == OnTime(rows, ex.gen.wm)
                    IN  /\ \A r \in rows : r.ts <= latest.ts
                        /\ gen' = [gen EXCEPT ![s] = ex.gen]
                        /\ tracker' = ex.tracker
                        /\ handle' = [handle EXCEPT ![s] = ex.handle]
                        /\ buf' = [buf EXCEPT ![s] = @ \cup kept]
                        /\ hist' = [hist EXCEPT !.revived =
                                       @ \cup {r \in kept : r.ts < hist.floor}]
    /\ UNCHANGED <<env, log, order, state, pending, ran, ckpt, left>>

\* Source::watermark called by the application.
SetWatermark(s) ==
    /\ Spend("external")
    /\ \E w \in env.times :
          /\ w > handle[s]
          /\ handle' = [handle EXCEPT ![s] = w]
    /\ UNCHANGED <<env, log, pos, gen, tracker, buf, order, state, pending, ran, ckpt, hist>>

----------------------------------------------------------------------------
(* One query in one cycle: each operator gives the state it leaves and its *)
(* output, for the watermark wm the cycle was started with.                *)

\* core_window_states: update_batch, then close_windows.
RunWindow(q, st, wm) ==
    LET W == UpdateWindows(st, buf[q.left], q.size, q.slide)
        starts == Closing(W, q.size, q.late, wm)
    IN  [state |-> RemoveWindows(W, starts), out |-> EmitWindows(W, starts, q.size)]

RunSession(q, st, wm) ==
    LET S == UpdateSessions(st, buf[q.left], q.size)
        keys == ClosingSessions(S, q.late, wm)
    IN  [state |-> Restrict(S, DOMAIN S \ keys), out |-> EmitSessions(S, keys)]

\* The raw-batch path: nothing is emitted, and the boundary stays, until a
\* later boundary has rows below it.
RunRaw(q, st, wm) ==
    LET all == st.rows (+) SetToBag(buf[q.left])
        cut == ClosedBoundary(wm, q.size, q.slide)
        closed == RowsBefore(all, cut)
    IN  IF cut <= st.boundary \/ closed = EmptyBag
        THEN [state |-> [st EXCEPT !.rows = all], out |-> EmptyBag]
        ELSE [state |-> [rows |-> RowsFrom(all, cut), boundary |-> cut],
              out |-> closed]

RunJoin(q, st, wm) ==
    LET newL == SetToBag(buf[q.left])
        newR == SetToBag(buf[q.right])
    IN  [state |-> JoinEvicted(JoinBuffered(st, newL, newR), q.size, wm),
         out |-> JoinMatches(st, newL, newR, q.size)]

\* A running aggregate emits its totals, which are its state.
RunAggregate(q, st) == [state |-> st (+) SetToBag(buf[q.left]), out |-> EmptyBag]

Run(q, st, wm) ==
    CASE q.kind = "window" -> RunWindow(q, st, wm)
      [] q.kind = "session" -> RunSession(q, st, wm)
      [] q.kind = "raw" -> RunRaw(q, st, wm)
      [] q.kind = "join" -> RunJoin(q, st, wm)
      [] q.kind = "aggregate" -> RunAggregate(q, st)

\* What an error can leave: a failed plan, before the state is touched; a
\* failed emission, after the windows up to the failing one were removed
\* (all sessions are removed first, a join has not evicted yet, a raw-batch
\* query keeps its rows); a failed HAVING or the state size limit, after
\* all was done.
PlanFailed(st) == [state |-> st, out |-> EmptyBag, took |-> FALSE]

EmissionFailed(q, st, wm) ==
    CASE q.kind = "window" ->
           LET W == UpdateWindows(st, buf[q.left], q.size, q.slide)
               starts == Closing(W, q.size, q.late, wm)
           IN  {LET gone == {x \in starts : x <= w}
                IN  [state |-> RemoveWindows(W, gone),
                     out |-> EmitWindows(W, gone, q.size), took |-> TRUE] : w \in starts}
      [] q.kind = "raw" ->
           {[state |-> [st EXCEPT !.rows = @ (+) SetToBag(buf[q.left])],
             out |-> EmptyBag, took |-> TRUE]}
      [] q.kind = "join" ->
           LET newL == SetToBag(buf[q.left])
               newR == SetToBag(buf[q.right])
           IN  {[state |-> JoinBuffered(st, newL, newR),
                 out |-> JoinMatches(st, newL, newR, q.size), took |-> TRUE]}
      [] OTHER -> {}

Failures(q, st, wm) ==
    LET done == Run(q, st, wm)
    IN  EmissionFailed(q, st, wm)
        \cup (IF q.kind = "raw" THEN {}
              ELSE {PlanFailed(st), [state |-> done.state, out |-> done.out, took |-> TRUE]})

----------------------------------------------------------------------------
(* execute_cycle.                                                          *)

\* The state query i starts a cycle with: its own, or at its first run the
\* pending one of the recovered checkpoint.
Begun(i) ==
    CASE state[i] # <<>> -> state[i][1]
      [] state[i] = <<>> /\ pending[i] # <<>> -> pending[i][1]
      [] OTHER -> FreshState(Query(i))

\* A join whose tables cannot be resolved has no state yet.
Initialised(i, f) == Query(i).kind # "join" \/ f.took \/ state[i] # <<>>

Inputs(q) ==
    buf[q.left] \cup (IF q.kind = "join" THEN buf[q.right] ELSE {})

Buffered == \E s \in Src : buf[s] # {}

EndCycle ==
    /\ buf' = [s \in Src |-> {}]
    /\ ran' = TRUE
    /\ UNCHANGED <<env, log, pos, order, pending, ckpt, times>>

\* The first n of topo_order run, tombstones counted; the budget skips the
\* others, which never see this cycle's rows (nothing reads
\* skipped_last_cycle).
CycleDone(n) ==
    LET wm == tracker.combined
        done == {order[j] : j \in 1..n} \ {0}
        res(i) == Run(Query(i), Begun(i), wm)
    IN  /\ state' = [i \in Qs |-> IF i \in done THEN <<res(i).state>> ELSE state[i]]
        /\ hist' = [hist EXCEPT
              !.out = [i \in Qs |-> IF i \in done THEN @[i] (+) res(i).out ELSE @[i]],
              !.offered = [i \in Qs |-> IF i \in done THEN @[i] \cup Inputs(Query(i)) ELSE @[i]],
              !.closed = wm]

\* Query n fails: the cycle returns the error, and what the queries before
\* it emitted is dropped with it.
CycleFailed(n) ==
    LET wm == tracker.combined
        failed == order[n]
        before == {order[j] : j \in 1..n-1} \ {0}
        res(i) == Run(Query(i), Begun(i), wm)
    IN  /\ failed # 0
        /\ \E f \in Failures(Query(failed), Begun(failed), wm) :
                /\ state' = [i \in Qs |->
                      CASE i \in before -> <<res(i).state>>
                        [] i = failed /\ Initialised(i, f) -> <<f.state>>
                        [] OTHER -> state[i]]
                /\ hist' = [hist EXCEPT
                      !.lost = [i \in Qs |->
                          CASE i \in before -> @[i] (+) res(i).out
                            [] i = failed -> @[i] (+) f.out
                            [] OTHER -> @[i]],
                      !.offered = [i \in Qs |->
                          IF i \in before \/ (i = failed /\ f.took)
                          THEN @[i] \cup Inputs(Query(i)) ELSE @[i]],
                      !.closed = wm]

ExecuteCycle ==
    /\ Buffered
    /\ CycleDone(Len(order))
    /\ UNCHANGED left
    /\ EndCycle

ExecuteCycleSkipping ==
    /\ Buffered
    /\ Spend("skip")
    /\ \E n \in 1..Len(order)-1 : CycleDone(n)
    /\ EndCycle

ExecuteCycleFailing ==
    /\ Buffered
    /\ Spend("error")
    /\ \E n \in 1..Len(order) : CycleFailed(n)
    /\ EndCycle

----------------------------------------------------------------------------
(* Checkpoints and recovery.                                               *)

\* snapshot_state: the states that exist, but no raw-batch state without
\* rows; a state still pending is not one.
Snapshot(i) ==
    IF Query(i).kind = "raw" /\ state[i] # <<>> /\ state[i][1].rows = EmptyBag
    THEN <<>> ELSE state[i]

Checkpoint ==
    /\ ran /\ ~Buffered
    /\ ckpt' = [pos |-> pos, state |-> [i \in Qs |-> Snapshot(i)],
                hist |-> [hist EXCEPT
                    !.floor = Greater(@, hist.closed),
                    !.forgotten = @ \cup {i \in Live :
                                             state[i] = <<>> /\ pending[i] # <<>>}]]
    /\ UNCHANGED <<env, log, pos, times, buf, order, state, pending, ran, hist, left>>

\* The process starts again with the queries of its configuration.  Offsets
\* and raw-batch state are restored at once, other state is held in
\* pending_restore; the watermarks start from nothing.
Crash ==
    /\ Spend("crash")
    /\ pos' = ckpt.pos
    /\ handle' = [s \in Src |-> MinTs]
    /\ gen' = [s \in Src |-> NewGenerator]
    /\ tracker' = NewTracker(Src)
    /\ buf' = [s \in Src |-> {}]
    /\ order' = [i \in Qs |-> i]
    /\ pending' = ckpt.state
    /\ state' = [i \in Qs |-> IF Query(i).kind = "raw" /\ ckpt.state[i] # <<>>
                              THEN ckpt.state[i] ELSE Initial(Query(i))]
    /\ ran' = FALSE
    /\ hist' = [ckpt.hist EXCEPT !.closed = MinTs]
    /\ UNCHANGED <<env, log, ckpt>>

----------------------------------------------------------------------------
(* apply_control, between cycles: DROP STREAM and CREATE STREAM.           *)

\* The properties follow a query from its creation on.
Unheard(h, i) ==
    [h EXCEPT !.out[i] = EmptyBag, !.lost[i] = EmptyBag, !.offered[i] = {},
              !.forgotten = @ \ {i}, !.stale = @ \ {i}]

RemoveQuery(i) ==
    /\ ~Buffered
    /\ i \in Live
    /\ Spend("ddl")
    /\ order' = [j \in DOMAIN order |-> IF order[j] = i THEN 0 ELSE order[j]]
    /\ state' = [state EXCEPT ![i] = <<>>]
    /\ hist' = Unheard(hist, i)
    /\ UNCHANGED <<env, log, pos, times, buf, pending, ran, ckpt>>

\* Variant: the name is not checked.
AddQueryUnchecked(i) ==
    /\ ~Buffered
    /\ order' = Append(order, i)
    /\ state' = [state EXCEPT ![i] = Initial(Query(i))]
    /\ UNCHANGED <<env, log, pos, times, buf, pending, ran, ckpt, hist, left>>

\* A stream of the same name and text.
AddQuery(i) ==
    /\ ~Buffered
    /\ i \notin Live
    /\ order' = Append(order, i)
    /\ state' = [state EXCEPT ![i] = Initial(Query(i))]
    /\ hist' = [hist EXCEPT !.stale = IF Query(i).kind # "raw" /\ pending[i] # <<>>
                                      THEN @ \cup {i} ELSE @]
    /\ UNCHANGED <<env, log, pos, times, buf, pending, ran, ckpt, left>>

Next ==
    \/ \E s \in Src : ProcessBatch(s) \/ SetWatermark(s)
    \/ ExecuteCycle \/ ExecuteCycleSkipping \/ ExecuteCycleFailing
    \/ Checkpoint
    \/ Crash
    \/ \E i \in Qs : RemoveQuery(i) \/ AddQuery(i)

Spec == Init /\ [][Next]_vars

----------------------------------------------------------------------------
(* Properties.                                                             *)

AllRows == UNION {Range(log[s]) : s \in Src}

\* The generators, the tracker and the history have their types; buffered
\* rows come from their own source's log.
TypeOK ==
    /\ env \in Deployments
    /\ \A s \in Src :
          /\ pos[s] \in 0..env.rows[s] /\ handle[s] \in I64
          /\ gen[s] \in [max : I64, wm : I64]
          /\ buf[s] \subseteq Range(log[s])
    /\ tracker \in [of : [Src -> I64], combined : I64]
    /\ Live \subseteq Qs /\ IsInjective(SelectSeq(order, LAMBDA i : i # 0))
    /\ \A i \in Qs : Len(state[i]) \in {0, 1} /\ Len(pending[i]) \in {0, 1}
    /\ ran \in BOOLEAN
    /\ left \in [Faults -> Nat]

\* A query whose state the code kept: no checkpoint left it out while it was
\* pending, and it did not inherit a dropped query's.
Trusted(i) == i \in Live /\ i \notin hist.forgotten \cup hist.stale

Emitted(i) == hist.out[i] (+) hist.lost[i]

InEmissions(i, r, E) ==
    MapThenSumSet(LAMBDA e : Emitted(i)[e] * Copies(r, e.rows), E)

Belongs(ts, w, q) == w % q.slide = 0 /\ w <= ts /\ ts < w + q.size

Starts(q) == (Min(env.times) - q.size)..(Max(env.times) + q.size)

Once(b) == IF b THEN 1 ELSE 0

\* How often row r was counted, over the open state and all output.
WindowTally(i, r, w) ==
    Copies(<<w, r>>, Begun(i))
    + InEmissions(i, r, {e \in DOMAIN Emitted(i) : e.start = w})

SessionTally(i, r) ==
    MapThenSumSet(LAMBDA k : Copies(r, Begun(i)[k].rows), DOMAIN Begun(i))
    + InEmissions(i, r, DOMAIN Emitted(i))

\* Every row a query was run on is counted exactly once in each window it
\* belongs to (in exactly one session, one raw batch, once in a running
\* total), over what is open and what was emitted, whatever failed, and
\* across a checkpoint and the lazy restore: update_batch, close_windows,
\* snapshot_state and restore_state neither drop nor repeat a row.
RowsCountedOnce ==
    \A i \in Qs : Trusted(i) =>
        LET q == Query(i)
            offered(r) == r \in hist.offered[i]
        IN  CASE q.kind = "window" ->
                   \A r \in AllRows, w \in Starts(q) :
                       WindowTally(i, r, w) = Once(offered(r) /\ Belongs(r.ts, w, q))
              [] q.kind = "session" ->
                   \A r \in AllRows : SessionTally(i, r) = Once(offered(r))
              [] q.kind = "raw" ->
                   \A r \in AllRows :
                       Copies(r, Begun(i).rows) + Copies(r, Emitted(i)) = Once(offered(r))
              [] q.kind = "aggregate" ->
                   \A r \in AllRows : Copies(r, Begun(i)) = Once(offered(r))
              [] q.kind = "join" -> TRUE

\* An interval join emits each pair of rows within its bound exactly once,
\* in whichever order and cycles the two sides arrive: evict_before never
\* removes a row that an on-time row can still match, and the two probes of
\* a cycle never find the same pair.  Only a row behind the watermark that
\* recovery forgot may come too late for its partner.
PairsOnce ==
    \A i \in Qs : Trusted(i) /\ Query(i).kind = "join" =>
        LET q == Query(i)
        IN  \A l \in Range(log[q.left]), r \in Range(log[q.right]) :
                LET n == Copies(<<l, r>>, Emitted(i))
                    due == {l, r} \subseteq hist.offered[i] /\ Near(l, r, q.size)
                IN  n = Once(due) \/ (n = 0 /\ {l, r} \cap hist.revived # {})

\* A group's window is emitted once: close_fixed_windows removes it and no
\* row accepted later belongs to it, so a second emission has a row behind
\* the watermark that recovery forgot.
WindowOnce ==
    \A i \in Qs : Trusted(i) /\ Query(i).kind = "window" =>
        \A e, f \in DOMAIN Emitted(i) :
            e.start = f.start /\ e.key = f.key =>
                \/ e = f /\ Emitted(i)[e] = 1
                \/ (DOMAIN e.rows \cup DOMAIN f.rows) \cap hist.revived # {}

Reached == Greater(hist.floor, hist.closed)

\* Nothing is emitted before its time: a window or session closes only when
\* the combined watermark has passed its end and the allowed lateness, and a
\* raw-batch row leaves only when all windows it belongs to are closed
\* (compute_closed_boundary, with one watermarked source).
OnlyClosedEmitted ==
    \A i \in Live :
        LET q == Query(i)
        IN  \A e \in DOMAIN Emitted(i) :
                CASE q.kind \in {"window", "session"} -> e.end + q.late <= Reached
                  [] q.kind = "raw" ->
                       \A w \in Starts(q) : Belongs(e.ts, w, q) => w + q.size <= Reached
                  [] OTHER -> TRUE

\* The sessions of query i, open ones and emitted ones.
Sessions(i) ==
    {[start |-> k[2], end |-> Begun(i)[k].end, key |-> k[1], rows |-> Begun(i)[k].rows] :
        k \in DOMAIN Begun(i)}
    \cup DOMAIN Emitted(i)

\* Sessions are those of the rows' timestamps, not of their arrival order:
\* a session spans exactly its rows plus the gap, leaves no hole of more
\* than the gap, and two sessions of a group never overlap, whether
\* update_session_window created, extended or merged them and whether they
\* are open or emitted.
SessionsExact ==
    \A i \in Qs : Trusted(i) /\ Query(i).kind = "session" =>
        LET gap == Query(i).size
            ts(x) == {r.ts : r \in DOMAIN x.rows}
        IN  \A x \in Sessions(i) :
              /\ x.start = Min(ts(x)) /\ x.end = Max(ts(x)) + gap
              /\ \A t \in ts(x) : t = Max(ts(x)) \/ \E u \in ts(x) : t < u /\ u <= t + gap
              /\ \A y \in Sessions(i) :
                    \/ y.key # x.key \/ y = x \/ x.end <= y.start \/ y.end <= x.start
                    \/ (DOMAIN x.rows \cup DOMAIN y.rows) \cap hist.revived # {}

\* A row that filter_late_rows let through is not behind the watermark any
\* earlier cycle of this process closed windows at, although it is compared
\* with its own source's mark only and that cycle used the combined one.
AcceptedAreOpen ==
    \A s \in Src : \A r \in buf[s] : r.ts >= hist.closed

\* Within a process pipeline_watermark never goes back, and it is never
\* ahead of a source's own generator.
WatermarkAdvances ==
    [][/\ tracker'.combined >= tracker.combined \/ Crash
       /\ \A s \in Src : tracker'.combined <= gen'[s].wm]_vars

============================================================================
