------------------------- MODULE StreamingCutProofs -------------------------
(***************************************************************************)
(* What a completed checkpoint contains: the records of a source before    *)
(* and after each of its barriers, for any number of sources, any channel  *)
(* capacity and any value of the bounds.                                   *)
(***************************************************************************)
EXTENDS StreamingBarrierProofs

-----------------------------------------------------------------------------
(* The invariant.                                                          *)

\* A barrier taken at position a that is still in the channel: all its source's
\* records so far are before it (A, B and P as in Line), except one in hand.
Ahead(a, p, A, B, P, H) ==
    a <= p /\ AtMost(A \union B \union P, a) /\ Above(H, a)

\* A barrier that is in the cycle divides the source's records: what comes
\* after it is in the channel or, while nothing is late, deferred.
Divides(a, p, A, B, P, C, H) ==
    /\ a <= p /\ AtMost(A \union B, a) /\ Above(C \union H, a)
    /\ timeouts = 0 => Above(P, a)

AheadOf(m, b, q) ==
    Ahead(m.at, pos[m.src], applied[m.src], Elems(b[m.src]), Elems(q[m.src]), InHand(m.src))

DividesAt(m, b, q, c) ==
    Divides(m.at, pos[m.src], applied[m.src], Elems(b[m.src]), Elems(q[m.src]),
            Sent(c, m.src), InHand(m.src))

\* The barriers in channel c and among the barriers r of a cycle with batches
\* b and deferred batches q that has seen the barriers of sn.
CutStage(b, q, sn, r, c) ==
    /\ Split(c)
    /\ \A m \in Bars(c) : AheadOf(m, b, q)
    /\ \A m \in Bars(r) : m.src \in sn /\ DividesAt(m, b, q, c)

\* A source that has aligned.
Settled(s) ==
    /\ pending.cut[s] <= pending.offs[s]
    /\ errors = 0 /\ timeouts = 0 => 1 .. pending.cut[s] \subseteq applied[s]

\* In the cycle that saw the barrier of a source, the source's records are those
\* before the barrier, and the barrier is there to be aligned.
Exact(b, sn, r) ==
    /\ \A s \in pending.aligned \intersect sn :
         AtMost(applied[s] \union Elems(b[s]), pending.cut[s])
    /\ timeouts = 0 => \A s \in sn : s \in pending.aligned \/ HasBar(r, s)

CutInv ==
    /\ watch = pos
    /\ CutStage(batches, post, seen, barriers, chan)
    /\ \A s \in pending.aligned : Settled(s)
    /\ cpc \in {"drain", "execute", "barriers"} => Exact(batches, seen, barriers)

-----------------------------------------------------------------------------
(* Records before and after a barrier.                                     *)

\* The record that message m brings for source s.
Brings(m, s) == IF m.kind = "batch" /\ m.src = s THEN {m.n} ELSE {}

\* Where the records of s go when message m is received into cycle c.
Received(c, m, d, s) ==
    /\ Elems(d.b[s]) \subseteq Elems(c.b[s]) \union Brings(m, s)
    /\ Elems(d.p[s]) \subseteq Elems(c.p[s]) \union Brings(m, s)
    /\ s \in c.s => d.b[s] = c.b[s]
    /\ s \in c.s => s \in d.s
    /\ s \in d.s => s \in c.s \/ (m.kind = "barrier" /\ m.src = s)

LEMMA ProcessMsgReceives ==
    ASSUME NEW c \in Cycle, NEW m \in Msg, NEW s \in Sources
    PROVE  Received(c, m, ProcessMsg(c, m), s)
<1> DEFINE d == ProcessMsg(c, m)
<1>1. /\ m.n \in Nat /\ m.src \in Sources /\ m.kind \in {"batch", "barrier"}
      /\ c.b \in [Sources -> Seq(Nat)] /\ c.p \in [Sources -> Seq(Nat)]
      /\ c.b[s] \in Seq(Nat) /\ c.p[s] \in Seq(Nat)
  BY DEF Msg, Cycle
<1>2. CASE m.kind = "barrier"
  <2>1. d.b = c.b /\ d.p = c.p /\ d.s = c.s \union {m.src}
    BY <1>2 DEF ProcessMsg, Cycle
  <2> HIDE DEF d
  <2>2. Received(c, m, d, s)
    BY <1>2, <2>1, Zenon DEF Received
  <2> QED BY <2>2 DEF d
<1>3. CASE m.kind # "barrier" /\ m.src # s
  <2>1. d.b[s] = c.b[s] /\ d.p[s] = c.p[s] /\ d.s = c.s
    BY <1>1, <1>3 DEF ProcessMsg, Cycle
  <2> HIDE DEF d
  <2>2. Received(c, m, d, s)
    BY <1>3, <2>1, Zenon DEF Received
  <2> QED BY <2>2 DEF d
<1>4. CASE m.kind # "barrier" /\ m.src = s /\ s \in c.s
  <2>1. d.b[s] = c.b[s] /\ d.p[s] = Append(c.p[s], m.n) /\ d.s = c.s
    BY <1>1, <1>4 DEF ProcessMsg, Cycle
  <2>2. Elems(d.p[s]) = Elems(c.p[s]) \union {m.n} /\ Brings(m, s) = {m.n}
    <3>1. m.kind = "batch"
      BY <1>1, <1>4
    <3> QED BY <1>1, <1>4, <2>1, <3>1, AppendRecord, Zenon DEF Brings
  <2> HIDE DEF d
  <2>3. Received(c, m, d, s)
    BY <2>1, <2>2, Zenon DEF Received
  <2> QED BY <2>3 DEF d
<1>5. CASE m.kind # "barrier" /\ m.src = s /\ s \notin c.s
  <2>1. d.b[s] = Append(c.b[s], m.n) /\ d.p[s] = c.p[s] /\ d.s = c.s
    BY <1>1, <1>5 DEF ProcessMsg, Cycle
  <2>2. Elems(d.b[s]) = Elems(c.b[s]) \union {m.n} /\ Brings(m, s) = {m.n}
    <3>1. m.kind = "batch"
      BY <1>1, <1>5
    <3> QED BY <1>1, <1>5, <2>1, <3>1, AppendRecord, Zenon DEF Brings
  <2> HIDE DEF d
  <2>3. Received(c, m, d, s)
    BY <1>5, <2>1, <2>2, Zenon DEF Received
  <2> QED BY <2>3 DEF d
<1> QED BY <1>2, <1>3, <1>4, <1>5

\* Receiving a message into cycle c, when the barrier of no aligned source and,
\* while nothing is late, none of a source the cycle has seen is in the channel.
LEMMA CutTake ==
    ASSUME TypeOK, chan # <<>>, NEW c \in Cycle,
           \A s \in Sources : Stage(s, c.b[s], c.p[s], c.s, chan),
           CutStage(c.b, c.p, c.s, c.r, chan), Exact(c.b, c.s, c.r),
           \A s \in pending.aligned : ~HasBar(chan, s),
           timeouts = 0 => \A s \in c.s : ~HasBar(chan, s)
    PROVE  LET d == ProcessMsg(c, Head(chan))
           IN  CutStage(d.b, d.p, d.s, d.r, Tail(chan)) /\ Exact(d.b, d.s, d.r)
<1> DEFINE m == Head(chan)
           d == ProcessMsg(c, m)
           t == Tail(chan)
<1>1. chan \in Seq(Msg) /\ m \in Msg /\ c.r \in Seq(Msg) /\ t \in Seq(Msg) /\ c.s \subseteq Sources
  BY HeadTailType DEF TypeOK, Cycle
<1>2. \A s \in Sources : Received(c, m, d, s)
  BY <1>1, ProcessMsgReceives, Zenon
<1>3. d.r = IF m.kind = "barrier" THEN Append(c.r, m) ELSE c.r
  BY <1>1, ProcessMsgBarriers, Zenon
<1>4. /\ Bars(chan) = (IF m.kind = "barrier" THEN {m} ELSE {}) \union Bars(t)
      /\ Bars(Append(c.r, m)) = Bars(c.r) \union (IF m.kind = "barrier" THEN {m} ELSE {})
  BY <1>1, TailBars, AppendBars, Zenon
<1>5. Split(chan)
  BY DEF CutStage
<1>6. /\ Split(t)
      /\ m.kind = "barrier" => Above(Sent(t, m.src), m.at)
      /\ m.kind = "batch" => \A b \in Bars(t) : b.src = m.src => m.n <= b.at
  BY <1>1, <1>5, TailSplit, Zenon
<1>7. ASSUME NEW s \in Sources
      PROVE  Sent(t, s) \subseteq Sent(chan, s) /\ Brings(m, s) \subseteq Sent(chan, s)
  <2>1. Ordered(chan, s)
    BY Zenon DEF Stage
  <2>2. /\ m.kind = "batch" /\ m.src = s => Sent(chan, s) = {m.n} \union Sent(t, s)
        /\ ~(m.kind = "batch" /\ m.src = s) => Sent(chan, s) = Sent(t, s)
    BY <1>1, <2>1, TailSent, Zenon
  <2> HIDE DEF m, t
  <2> QED BY <2>2, Zenon DEF Brings
<1>8. m.src \in Sources /\ m.kind \in {"batch", "barrier"}
  BY <1>1 DEF Msg
<1> HIDE DEF m, d, t
<1>9. ASSUME NEW x \in Bars(t) PROVE AheadOf(x, d.b, d.p)
  <2> DEFINE s == x.src
  <2>1. s \in Sources
    BY <1>1, BarsType, Zenon
  <2>2. AheadOf(x, c.b, c.p)
    BY <1>4, Zenon DEF CutStage
  <2>3. AtMost(Brings(m, s), x.at)
    BY <1>6, Zenon DEF AtMost, Brings
  <2>4. Received(c, m, d, s)
    BY <1>2, <2>1
  <2> QED BY <2>2, <2>3, <2>4, Zenon DEF AheadOf, Ahead, AtMost, Received
<1>10. ASSUME NEW x \in Bars(c.r) PROVE x.src \in d.s /\ DividesAt(x, d.b, d.p, t)
  <2> DEFINE s == x.src
  <2>1. s \in Sources
    BY <1>1, BarsType, Zenon
  <2>2. s \in c.s /\ DividesAt(x, c.b, c.p, chan)
    BY Zenon DEF CutStage
  <2>3. Received(c, m, d, s) /\ d.b[s] = c.b[s] /\ s \in d.s
    BY <1>2, <2>1, <2>2, Zenon DEF Received
  <2>4. Sent(t, s) \subseteq Sent(chan, s) /\ Brings(m, s) \subseteq Sent(chan, s)
    BY <1>7, <2>1
  <2>5. Elems(d.p[s]) \subseteq Elems(c.p[s]) \union Sent(chan, s)
    BY <2>3, <2>4, Zenon DEF Received
  <2>6. DividesAt(x, d.b, d.p, t)
    BY <2>2, <2>3, <2>4, <2>5, Zenon DEF DividesAt, Divides, Above
  <2> QED BY <2>3, <2>6
<1>11. ASSUME m.kind = "barrier" PROVE m.src \in d.s /\ DividesAt(m, d.b, d.p, t)
  <2> DEFINE s == m.src
  <2>1. AheadOf(m, c.b, c.p) /\ HasBar(chan, s)
    BY <1>4, <1>11, Zenon DEF CutStage, HasBar
  <2>2. Received(c, m, d, s) /\ Brings(m, s) = {}
    BY <1>2, <1>8, <1>11, Zenon DEF Brings
  <2>3. Above(Sent(t, s), m.at)
    BY <1>6, <1>11
  <2>4. timeouts = 0 => Elems(c.p[s]) = {}
    <3>1. timeouts = 0 => c.p[s] = <<>>
      BY <1>8, <2>1, Zenon DEF Stage
    <3> QED BY <3>1, NoRecords
  <2>5. d.s = c.s \union {s}
    BY <1>1, <1>11 DEF d, ProcessMsg, Cycle
  <2>6. DividesAt(m, d.b, d.p, t)
    BY <2>1, <2>2, <2>3, <2>4, Zenon DEF AheadOf, Ahead, DividesAt, Divides, Above, AtMost, Received
  <2> QED BY <2>5, <2>6
<1>12. \A x \in Bars(d.r) : x \in Bars(c.r) \/ (m.kind = "barrier" /\ x = m)
  BY <1>3, <1>4, Zenon
<1>13. CutStage(d.b, d.p, d.s, d.r, t)
  BY <1>6, <1>9, <1>10, <1>11, <1>12, Zenon DEF CutStage
<1>14. ASSUME NEW s \in pending.aligned, s \in d.s
       PROVE  AtMost(applied[s] \union Elems(d.b[s]), pending.cut[s])
  <2>1. s \in Sources /\ ~HasBar(chan, s)
    BY DEF TypeOK, PendingBarrier
  <2>2. Received(c, m, d, s)
    BY <1>2, <2>1
  <2>3. ~(m.kind = "barrier" /\ m.src = s)
    BY <1>4, <2>1, Zenon DEF HasBar
  <2>4. s \in c.s /\ d.b[s] = c.b[s]
    BY <1>14, <2>2, <2>3, Zenon DEF Received
  <2> QED BY <2>4, Zenon DEF Exact
<1>15. ASSUME timeouts = 0, NEW s \in d.s PROVE s \in pending.aligned \/ HasBar(d.r, s)
  <2>1. CASE m.kind = "barrier"
    <3>1. d.s = c.s \union {m.src} /\ Bars(d.r) = Bars(c.r) \union {m}
      BY <1>1, <1>3, <1>4, <2>1 DEF d, ProcessMsg, Cycle
    <3> QED BY <1>15, <3>1, Zenon DEF Exact, HasBar
  <2>2. CASE m.kind # "barrier"
    <3>1. d.s = c.s /\ d.r = c.r
      BY <1>1, <1>3, <2>2 DEF d, ProcessMsg, Cycle
    <3> QED BY <1>15, <3>1, Zenon DEF Exact
  <2> QED BY <2>1, <2>2
<1>16. Exact(d.b, d.s, d.r)
  BY <1>14, <1>15, Zenon DEF Exact
<1> QED BY <1>13, <1>16, Zenon DEF d, m, t

\* A step in which source s polls, sends or has its batches executed.
Still(s) ==
    /\ pos[s] <= pos'[s]
    /\ applied'[s] \union Elems(batches'[s]) \subseteq applied[s] \union Elems(batches[s])
    /\ post'[s] = post[s]
    /\ \A n \in (InHand(s))' : n \in InHand(s) \/ (n \in Nat /\ pos[s] < n)
    /\ Sent(chan', s) \subseteq Sent(chan, s) \union InHand(s)

LEMMA CutSteady ==
    ASSUME TypeOK, TypeOK', CutStage(batches, post, seen, barriers, chan),
           \A s \in Sources : Still(s),
           seen' = seen, timeouts' = 0 => timeouts = 0, Split(chan'),
           Bars(barriers') \subseteq Bars(barriers),
           \A m \in Bars(chan') : m \in Bars(chan) \/ AheadOf(m, batches, post)'
    PROVE  CutStage(batches, post, seen, barriers, chan)'
<1>1. chan \in Seq(Msg) /\ barriers \in Seq(Msg) /\ pos \in [Sources -> Nat] /\ pos' \in [Sources -> Nat]
  BY DEF TypeOK
<1>2. ASSUME NEW m \in Bars(chan) \union Bars(barriers), m.at <= pos[m.src]
      PROVE  /\ m.at <= pos'[m.src]
             /\ \A n \in (InHand(m.src))' : n \in InHand(m.src) \/ m.at < n
  <2>1. m.src \in Sources /\ m.at \in Nat
    BY <1>1, BarsType, Zenon
  <2>2. /\ pos[m.src] <= pos'[m.src] /\ pos[m.src] \in Nat /\ pos'[m.src] \in Nat
        /\ \A n \in (InHand(m.src))' : n \in InHand(m.src) \/ (n \in Nat /\ pos[m.src] < n)
    BY <1>1, <2>1 DEF Still
  <2>3. \A n \in Nat : pos[m.src] < n => m.at < n
    BY <1>2, <2>1, <2>2, SMT
  <2>4. m.at <= pos'[m.src]
    BY <1>2, <2>1, <2>2, SMT
  <2> QED BY <2>2, <2>3, <2>4, Zenon
<1>3. ASSUME NEW m \in Bars(chan) PROVE AheadOf(m, batches, post)'
  <2> DEFINE s == m.src
  <2>1. s \in Sources
    BY <1>1, BarsType, Zenon
  <2>2. AheadOf(m, batches, post) /\ Still(s)
    BY <2>1, Zenon DEF CutStage
  <2>3. m.at <= pos'[s] /\ \A n \in (InHand(s))' : n \in InHand(s) \/ m.at < n
    BY <1>2, <2>2, Zenon DEF AheadOf, Ahead
  <2>4. \A n \in applied'[s] \union Elems(batches'[s]) \union Elems(post'[s]) :
          n \in applied[s] \union Elems(batches[s]) \union Elems(post[s])
    BY <2>2, Zenon DEF Still
  <2> QED BY <2>2, <2>3, <2>4, Zenon DEF AheadOf, Ahead, AtMost, Above
<1>4. ASSUME NEW m \in Bars(barriers) PROVE m.src \in seen' /\ DividesAt(m, batches, post, chan)'
  <2> DEFINE s == m.src
  <2>1. s \in Sources
    BY <1>1, BarsType, Zenon
  <2>2. s \in seen /\ DividesAt(m, batches, post, chan) /\ Still(s)
    BY <2>1, Zenon DEF CutStage
  <2>3. m.at <= pos'[s] /\ \A n \in (InHand(s))' : n \in InHand(s) \/ m.at < n
    BY <1>2, <2>2, Zenon DEF DividesAt, Divides
  <2>4. /\ AtMost(applied[s] \union Elems(batches[s]), m.at)
        /\ Above(Sent(chan, s) \union InHand(s), m.at)
        /\ timeouts = 0 => Above(Elems(post[s]), m.at)
    BY <2>2, Zenon DEF DividesAt, Divides
  <2>5. AtMost(applied'[s] \union Elems(batches'[s]), m.at)
    BY <2>2, <2>4, Zenon DEF Still, AtMost
  <2>6. Above(Sent(chan', s) \union (InHand(s))', m.at)
    BY <2>2, <2>3, <2>4, Zenon DEF Still, Above
  <2>7. timeouts' = 0 => Above(Elems(post'[s]), m.at)
    BY <2>2, <2>4, Zenon DEF Still
  <2> QED BY <2>2, <2>3, <2>5, <2>6, <2>7, Zenon DEF DividesAt, Divides
<1> QED BY <1>3, <1>4, Zenon DEF CutStage

\* A step that records no barrier and triggers no checkpoint.
LEMMA CutKeeps ==
    ASSUME TypeOK, TypeOK', CutInv, watch' = pos',
           \A s \in Sources : Still(s) /\ applied[s] \subseteq applied'[s],
           UNCHANGED <<seen, barriers>>, Split(chan'),
           pending'.aligned = pending.aligned, pending'.cut = pending.cut,
           pending'.offs = pending.offs,
           timeouts' = 0 => timeouts = 0, errors' = 0 => errors = 0,
           \A m \in Bars(chan') : m \in Bars(chan) \/ AheadOf(m, batches, post)',
           cpc' \in {"drain", "execute", "barriers"} => cpc \in {"drain", "execute", "barriers"}
    PROVE  CutInv'
<1>1. CutStage(batches, post, seen, barriers, chan)'
  BY CutSteady, Zenon DEF CutInv
<1>2. pending.aligned \subseteq Sources
  BY DEF TypeOK, PendingBarrier
<1>3. ASSUME NEW s \in pending'.aligned PROVE Settled(s)'
  <2>1. s \in pending.aligned /\ Settled(s) /\ applied[s] \subseteq applied'[s]
    BY <1>2, Zenon DEF CutInv
  <2> QED BY <2>1, Zenon DEF Settled
<1>4. ASSUME Exact(batches, seen, barriers) PROVE Exact(batches, seen, barriers)'
  <2>1. ASSUME NEW s \in pending.aligned, s \in seen
        PROVE  AtMost(applied'[s] \union Elems(batches'[s]), pending.cut[s])
    <3>1. Still(s) /\ AtMost(applied[s] \union Elems(batches[s]), pending.cut[s])
      BY <1>2, <1>4, <2>1, Zenon DEF Exact
    <3> QED BY <3>1, Zenon DEF Still, AtMost
  <2> QED BY <1>4, <2>1, Zenon DEF Exact
<1> QED BY <1>1, <1>3, <1>4, Zenon DEF CutInv

\* The coordinator fills cycle c while it drains the channel.
LEMMA CutCycle ==
    ASSUME NEW c, SetCycle(c), CutInv, UNCHANGED <<pos, watch, spc, pending, applied, timeouts, errors>>,
           CutStage(c.b, c.p, c.s, c.r, chan'), Exact(c.b, c.s, c.r)
    PROVE  CutInv'
<1>1. batches' = c.b /\ post' = c.p /\ seen' = c.s /\ barriers' = c.r
  BY DEF SetCycle
<1>2. \A s : (InHand(s))' = InHand(s)
  BY Zenon DEF InHand
<1>3. CutStage(batches, post, seen, barriers, chan)'
  BY <1>1, <1>2, Zenon DEF CutStage, AheadOf, DividesAt, Divides
<1>4. Exact(batches, seen, barriers)'
  BY <1>1, Zenon DEF Exact
<1>5. \A s \in pending'.aligned : Settled(s)'
  BY Zenon DEF CutInv, Settled
<1> QED BY <1>3, <1>4, <1>5, Zenon DEF CutInv

\* The buffers a cycle starts with.
LEMMA CutFresh ==
    ASSUME CutInv, \A s \in Sources : batches[s] = <<>>, TypeOK
    PROVE  /\ CutStage(FreshCycle.b, FreshCycle.p, FreshCycle.s, FreshCycle.r, chan)
           /\ Exact(FreshCycle.b, FreshCycle.s, FreshCycle.r)
           /\ FreshCycle.s = {}
<1>1. FreshCycle.b = post /\ FreshCycle.p = Empty /\ FreshCycle.s = {} /\ FreshCycle.r = <<>>
  BY DEF FreshCycle
<1>2. ASSUME NEW m \in Bars(chan) PROVE AheadOf(m, post, Empty)
  <2>1. m.src \in Sources
    BY BarsType DEF TypeOK
  <2>2. AheadOf(m, batches, post) /\ Elems(Empty[m.src]) = {}
    BY <2>1, NoRecords DEF CutInv, CutStage, Empty
  <2> QED BY <2>2, Zenon DEF AheadOf, Ahead, AtMost
<1> QED BY <1>1, <1>2, NoBars, Zenon DEF CutInv, CutStage, Exact

LEMMA CutStep ==
    ASSUME TypeOK, TypeOK', OrderInv, FlightInv, PromptInv, CutInv, [Next]_vars
    PROVE  CutInv'
<1> DEFINE Seeing == {"drain", "execute", "barriers"}
<1>1. ASSUME NEW s \in Sources
      PROVE  /\ applied[s] \union Elems(batches[s]) \union Elems(post[s]) \union Sent(chan, s)
                  \union InHand(s) \subseteq 1 .. pos[s]
             /\ pos[s] \in Nat
  <2>1. Line(pos[s], applied[s], Elems(batches[s]), Elems(post[s]), Sent(chan, s), InHand(s))
    BY Zenon DEF OrderInv, Stage
  <2> QED BY <2>1, Zenon DEF Line, TypeOK
<1>2. Split(chan) /\ watch = pos
  BY DEF CutInv, CutStage
<1>3. ASSUME UNCHANGED <<pos, watch, spc, chan, batches, post, seen, barriers, applied>>,
             pending'.aligned = pending.aligned, pending'.cut = pending.cut,
             pending'.offs = pending.offs,
             timeouts' = 0 => timeouts = 0, errors' = 0 => errors = 0,
             cpc' \in Seeing => cpc \in Seeing
      PROVE  CutInv'
  <2>1. ASSUME NEW x \in Sources PROVE Still(x)
    <3>1. pos[x] <= pos'[x]
      BY <1>1, <1>3
    <3>2. (InHand(x))' = InHand(x)
      BY <1>3, Zenon DEF InHand
    <3> QED BY <1>3, <3>1, <3>2, Zenon DEF Still
  <2>2. \A x \in Sources : Still(x) /\ applied[x] \subseteq applied'[x]
    BY <1>3, <2>1, Zenon
  <2>3. watch' = pos' /\ Split(chan') /\ \A m \in Bars(chan') : m \in Bars(chan)
    BY <1>2, <1>3
  <2> QED BY <1>3, <2>2, <2>3, CutKeeps, Zenon
<1>4. ASSUME NEW s \in Sources, PollBatch(s) PROVE CutInv'
  <2>1. /\ UNCHANGED <<chan, batches, post, seen, barriers, applied, pending, timeouts, errors, cpc>>
        /\ spc[s] = "poll" /\ spc' = [spc EXCEPT ![s] = "sendBatch"] /\ DOMAIN spc = Sources
        /\ pos' = [pos EXCEPT ![s] = pos[s] + 1] /\ watch' = [watch EXCEPT ![s] = pos[s] + 1]
        /\ pos \in [Sources -> Nat]
    BY <1>4 DEF PollBatch, cycleVars, boundVars, TypeOK
  <2>2. ASSUME NEW x \in Sources PROVE Still(x)
    <3>1. /\ pos[x] <= pos'[x]
          /\ \A n \in (InHand(x))' : n \in InHand(x) \/ (n \in Nat /\ pos[x] < n)
      BY <2>1 DEF InHand
    <3> QED BY <2>1, <3>1, Zenon DEF Still
  <2>3. watch' = pos' /\ Split(chan') /\ \A m \in Bars(chan') : m \in Bars(chan)
    BY <1>2, <2>1
  <2>4. \A x \in Sources : Still(x) /\ applied[x] \subseteq applied'[x]
    BY <2>1, <2>2, Zenon
  <2> QED BY <2>1, <2>3, <2>4, CutKeeps, Zenon
<1>5. ASSUME NEW s \in Sources, PollNone(s) \/ PollBarrier(s) \/ StopSource(s) PROVE CutInv'
  <2>1. /\ UNCHANGED <<pos, chan, batches, post, seen, barriers, applied, pending, timeouts, errors, cpc>>
        /\ watch' \in {watch, [watch EXCEPT ![s] = pos[s]]}
        /\ \E w \in {"pollBarrier", "poll", "sendBarrier", "stopped"} : spc' = [spc EXCEPT ![s] = w]
        /\ spc[s] # "sendBatch" /\ DOMAIN spc = Sources /\ watch \in [Sources -> Nat]
    BY <1>5, Zenon DEF PollNone, PollBarrier, StopSource, cycleVars, boundVars, TypeOK
  <2>2. watch' = pos'
    BY <1>2, <2>1
  <2>3. ASSUME NEW x \in Sources PROVE Still(x)
    <3>1. pos[x] <= pos'[x]
      BY <1>1, <2>1
    <3>2. (InHand(x))' = InHand(x)
      BY <2>1 DEF InHand
    <3> QED BY <2>1, <3>1, <3>2, Zenon DEF Still
  <2>4. \A x \in Sources : Still(x) /\ applied[x] \subseteq applied'[x]
    BY <2>1, <2>3, Zenon
  <2>5. Split(chan') /\ \A m \in Bars(chan') : m \in Bars(chan)
    BY <1>2, <2>1
  <2> QED BY <2>1, <2>2, <2>4, <2>5, CutKeeps, Zenon
<1>6. ASSUME NEW s \in Sources, SendBatch(s) PROVE CutInv'
  <2> DEFINE m == Batch(s, pos[s])
  <2>1. /\ UNCHANGED <<pos, watch, batches, post, seen, barriers, applied, pending, timeouts, errors, cpc>>
        /\ spc[s] = "sendBatch" /\ spc' = [spc EXCEPT ![s] = "pollBarrier"] /\ DOMAIN spc = Sources
        /\ chan' = Append(chan, m) /\ chan \in Seq(Msg) /\ pos[s] \in Nat
    BY <1>6 DEF SendBatch, cycleVars, boundVars, TypeOK
  <2>2. m \in Msg /\ m.kind = "batch" /\ m.kind # "barrier" /\ m.src = s /\ m.n = pos[s]
    BY <2>1 DEF Batch, Msg
  <2>3. /\ InHand(s) = {pos[s]}
        /\ \A x \in Sources : (InHand(x))' = IF x = s THEN {} ELSE InHand(x)
    BY <2>1 DEF InHand
  <2> HIDE DEF m
  <2>4. Bars(chan') = Bars(chan)
    <3>1. Bars(chan') = Bars(chan) \union {}
      BY <2>1, <2>2, AppendBars, Zenon
    <3> QED BY <3>1, Zenon
  <2>5. \A b \in Bars(chan) : b.src = m.src => b.at < m.n
    BY <2>2, <2>3, Zenon DEF CutInv, CutStage, AheadOf, Ahead, Above
  <2>6. Split(chan')
    BY <1>2, <2>1, <2>2, <2>5, AppendSplit, Zenon
  <2>7. ASSUME NEW x \in Sources PROVE Still(x)
    <3>1. pos[x] <= pos'[x]
      BY <1>1, <2>1
    <3>2. Sent(chan', x) = Sent(chan, x) \union (IF m.kind = "batch" /\ m.src = x THEN {m.n} ELSE {})
      BY <2>1, <2>2, AppendSent, Zenon
    <3>3. Sent(chan', x) \subseteq Sent(chan, x) \union InHand(x)
      BY <2>2, <2>3, <3>2, Zenon
    <3>4. (InHand(x))' \subseteq InHand(x)
      BY <2>3, Zenon
    <3> QED BY <2>1, <3>1, <3>3, <3>4, Zenon DEF Still
  <2>8. \A x \in Sources : Still(x) /\ applied[x] \subseteq applied'[x]
    BY <2>1, <2>7, Zenon
  <2>9. watch' = pos' /\ \A b \in Bars(chan') : b \in Bars(chan)
    BY <1>2, <2>1, <2>4
  <2> QED BY <2>1, <2>6, <2>8, <2>9, CutKeeps, Zenon
<1>7. ASSUME NEW s \in Sources, SendBarrier(s) PROVE CutInv'
  <2> DEFINE m == Barrier(s, held[s], pos[s])
  <2>1. /\ UNCHANGED <<pos, watch, batches, post, seen, barriers, applied, pending, timeouts, errors, cpc>>
        /\ spc[s] = "sendBarrier" /\ spc' = [spc EXCEPT ![s] = "poll"] /\ DOMAIN spc = Sources
        /\ chan' = Append(chan, m) /\ chan \in Seq(Msg) /\ pos[s] \in Nat /\ held[s] \in Nat
    BY <1>7 DEF SendBarrier, cycleVars, boundVars, TypeOK
  <2>2. m \in Msg /\ m.kind = "barrier" /\ m.kind # "batch" /\ m.src = s /\ m.at = pos[s]
    BY <2>1 DEF Barrier, Msg
  <2>3. (InHand(s))' = {} /\ \A x \in Sources : (InHand(x))' = InHand(x)
    BY <2>1 DEF InHand
  <2> HIDE DEF m
  <2>4. Bars(chan') = Bars(chan) \union {m}
    BY <2>1, <2>2, AppendBars, Zenon
  <2>5. \A n \in 1 .. pos[s] : n <= pos[s]
    OBVIOUS
  <2>6. /\ AtMost(Sent(chan, m.src), m.at)
        /\ AtMost(applied[s] \union Elems(batches[s]) \union Elems(post[s]), pos[s])
    BY <1>1, <2>2, <2>5, Zenon DEF AtMost
  <2>7. Split(chan')
    BY <1>2, <2>1, <2>2, <2>6, AppendSplit, Zenon
  <2>8. ASSUME NEW x \in Sources PROVE Still(x)
    <3>1. pos[x] <= pos'[x]
      BY <1>1, <2>1
    <3>2. Sent(chan', x) = Sent(chan, x) \union (IF m.kind = "batch" /\ m.src = x THEN {m.n} ELSE {})
      BY <2>1, <2>2, AppendSent, Zenon
    <3>3. Sent(chan', x) \subseteq Sent(chan, x)
      BY <2>2, <3>2, Zenon
    <3> QED BY <2>1, <2>3, <3>1, <3>3, Zenon DEF Still
  <2>9. \A x \in Sources : Still(x) /\ applied[x] \subseteq applied'[x]
    BY <2>1, <2>8, Zenon
  <2>10. ASSUME NEW b \in Bars(chan') PROVE b \in Bars(chan) \/ AheadOf(b, batches, post)'
    <3>1. CASE b = m
      <4>1. b.src = s /\ b.at = pos'[s] /\ pos'[s] = pos[s] /\ pos'[s] <= pos'[s]
        BY <2>1, <2>2, <3>1
      <4>2. /\ AtMost(applied'[s] \union Elems(batches'[s]) \union Elems(post'[s]), pos'[s])
            /\ Above((InHand(s))', pos'[s])
        BY <2>1, <2>3, <2>6, Zenon DEF Above
      <4> QED BY <4>1, <4>2, Zenon DEF AheadOf, Ahead
    <3> QED BY <2>4, <3>1, Zenon
  <2>11. watch' = pos'
    BY <1>2, <2>1
  <2> QED BY <2>1, <2>7, <2>9, <2>10, <2>11, CutKeeps, Zenon
<1>8. CASE Recv
  <2>1. /\ UNCHANGED <<pos, watch, spc, pending, applied, timeouts, errors>>
        /\ cpc = "wait" /\ chan # <<>> /\ chan' = Tail(chan)
        /\ SetCycle(ProcessMsg(FreshCycle, Head(chan)))
    BY <1>8 DEF Recv, sourceVars, boundVars
  <2>2. \A s \in Sources : batches[s] = <<>>
    BY <2>1, Zenon DEF OrderInv
  <2>3. /\ CutStage(FreshCycle.b, FreshCycle.p, FreshCycle.s, FreshCycle.r, chan)
        /\ Exact(FreshCycle.b, FreshCycle.s, FreshCycle.r) /\ FreshCycle.s = {}
    BY <2>2, CutFresh, Zenon
  <2>4. \A s \in pending.aligned : ~HasBar(chan, s)
    BY Zenon DEF FlightInv, FlightOf, TypeOK, PendingBarrier
  <2>5. /\ FreshCycle \in Cycle
        /\ \A s \in Sources : Stage(s, FreshCycle.b[s], FreshCycle.p[s], FreshCycle.s, chan)
    BY <2>1, FreshStage
  <2> QED BY <2>1, <2>3, <2>4, <2>5, CutTake, CutCycle, Zenon
<1>9. CASE Idle
  <2>1. /\ UNCHANGED <<pos, watch, spc, pending, applied, timeouts, errors, chan>>
        /\ cpc = "wait" /\ SetCycle(FreshCycle)
    BY <1>9 DEF Idle, sourceVars, boundVars
  <2>2. \A s \in Sources : batches[s] = <<>>
    BY <2>1, Zenon DEF OrderInv
  <2> QED BY <2>1, <2>2, CutFresh, CutCycle, Zenon
<1>10. CASE Drain
  <2>1. /\ UNCHANGED <<pos, watch, spc, pending, applied, timeouts, errors>>
        /\ cpc = "drain" /\ chan # <<>> /\ chan' = Tail(chan)
        /\ SetCycle(ProcessMsg(ThisCycle, Head(chan)))
    BY <1>10 DEF Drain, sourceVars, boundVars
  <2>2. /\ ThisCycle \in Cycle /\ ThisCycle.b = batches /\ ThisCycle.p = post
        /\ ThisCycle.s = seen /\ ThisCycle.r = barriers
    BY DEF ThisCycle, Cycle, TypeOK
  <2>3. /\ CutStage(batches, post, seen, barriers, chan) /\ Exact(batches, seen, barriers)
        /\ \A s \in Sources : Stage(s, batches[s], post[s], seen, chan)
    BY <2>1, Zenon DEF CutInv, OrderInv
  <2>4. \A s \in pending.aligned : ~HasBar(chan, s)
    BY Zenon DEF FlightInv, FlightOf, TypeOK, PendingBarrier
  <2>5. ASSUME timeouts = 0, NEW s \in seen PROVE ~HasBar(chan, s)
    <3>1. CASE s \in pending.aligned
      BY <2>4, <3>1
    <3>2. CASE HasBar(barriers, s)
      <4>1. HasId(barriers, s, pending.id)
        BY <2>5, <3>2, Zenon DEF PromptInv, Carried, HasBar, HasId
      <4> QED BY <4>1, Zenon DEF FlightInv, FlightOf, TypeOK
    <3> QED BY <2>3, <2>5, <3>1, <3>2, Zenon DEF Exact
  <2> QED BY <2>1, <2>2, <2>3, <2>4, <2>5, CutTake, CutCycle, Zenon
<1>11. CASE ExecuteCycle \/ CycleError
  <2>1. /\ UNCHANGED <<pos, watch, spc, chan, post, seen, barriers, pending, timeouts>>
        /\ batches' = Empty /\ cpc = "execute"
        /\ errors' = 0 => errors = 0
        /\ applied' \in {applied, [s \in Sources |-> applied[s] \union Elems(batches[s])]}
    BY <1>11 DEF ExecuteCycle, CycleError, sourceVars, boundVars, TypeOK
  <2>2. ASSUME NEW x \in Sources
        PROVE  /\ applied[x] \subseteq applied'[x] /\ batches'[x] = <<>>
               /\ applied'[x] \subseteq applied[x] \union Elems(batches[x])
    BY <2>1 DEF Empty
  <2>3. ASSUME NEW x \in Sources PROVE Still(x)
    <3>1. pos[x] <= pos'[x]
      BY <1>1, <2>1
    <3>2. (InHand(x))' = InHand(x)
      BY <2>1, Zenon DEF InHand
    <3> QED BY <2>1, <2>2, <3>1, <3>2, NoRecords, Zenon DEF Still
  <2>4. \A x \in Sources : Still(x) /\ applied[x] \subseteq applied'[x]
    BY <2>2, <2>3, Zenon
  <2>5. watch' = pos' /\ Split(chan') /\ \A m \in Bars(chan') : m \in Bars(chan)
    BY <1>2, <2>1
  <2> QED BY <2>1, <2>4, <2>5, CutKeeps, Zenon
<1>12. CASE HandleBarrier
  <2> DEFINE b == Head(barriers)
             s == b.src
  <2>1. /\ UNCHANGED <<pos, watch, spc, chan, batches, post, seen, applied, timeouts, errors, cpc>>
        /\ cpc = "barriers" /\ barriers # <<>> /\ barriers' = Tail(barriers) /\ barriers \in Seq(Msg)
    BY <1>12 DEF HandleBarrier, sourceVars, boundVars, TypeOK
  <2>2. b.kind = "barrier" /\ Bars(barriers) = {b} \union Bars(barriers')
    <3>1. /\ b.kind = "barrier"
          /\ Bars(barriers) = (IF b.kind = "barrier" THEN {b} ELSE {}) \union Bars(barriers')
      BY <2>1, TailBars, Zenon DEF FlightInv
    <3> QED BY <3>1
  <2>3. \/ pending' = pending /\ ~Matches(b)
        \/ /\ Matches(b) /\ pending'.aligned = pending.aligned \union {s}
           /\ pending'.offs = [pending.offs EXCEPT ![s] = watch[s]]
           /\ pending'.cut = [pending.cut EXCEPT ![s] = b.at]
    BY <1>12, Recorded, Zenon
  <2>4. s \in Sources /\ b.at \in Nat /\ s \in seen /\ DividesAt(b, batches, post, chan)
    BY <2>1, <2>2, BarsType, Zenon DEF CutInv, CutStage
  <2> HIDE DEF b
  <2>5. CutStage(batches, post, seen, barriers, chan)'
    <3>1. ASSUME NEW x \in Sources PROVE Still(x)
      <4>1. pos[x] <= pos'[x]
        BY <1>1, <2>1
      <4>2. (InHand(x))' = InHand(x)
        BY <2>1, Zenon DEF InHand
      <4> QED BY <2>1, <4>1, <4>2, Zenon DEF Still
    <3>2. Split(chan') /\ (\A m \in Bars(chan') : m \in Bars(chan)) /\ Bars(barriers') \subseteq Bars(barriers)
      BY <1>2, <2>1, <2>2
    <3> QED BY <2>1, <3>1, <3>2, CutSteady, Zenon DEF CutInv
  <2>6. b.at <= pos[s] /\ AtMost(applied[s] \union Elems(batches[s]), b.at)
    BY <2>4, Zenon DEF DividesAt, Divides
  <2>7. errors = 0 /\ timeouts = 0 => 1 .. b.at \subseteq applied[s]
    <3> SUFFICES ASSUME errors = 0, timeouts = 0, NEW n \in 1 .. b.at PROVE n \in applied[s]
      OBVIOUS
    <3>1. /\ Whole(pos[s], applied[s], Elems(batches[s]), Elems(post[s]), Sent(chan, s), InHand(s))
          /\ batches[s] = <<>>
      BY <2>1, <2>4, Zenon DEF OrderInv, Stage
    <3>2. n \in applied[s] \union Elems(batches[s]) \union Elems(post[s]) \union Sent(chan, s) \union InHand(s)
      <4>1. n \in 1 .. pos[s]
        BY <1>1, <2>4, <2>6
      <4> QED BY <3>1, <4>1, Zenon DEF Whole
    <3>3. Elems(batches[s]) = {}
      BY <3>1, NoRecords
    <3>4. Above(Elems(post[s]) \union Sent(chan, s) \union InHand(s), b.at)
      BY <2>4, Zenon DEF DividesAt, Divides, Above
    <3>5. ~(b.at < n)
      BY <2>4
    <3> QED BY <3>2, <3>3, <3>4, <3>5, Zenon DEF Above
  <2>8. ASSUME Matches(b)
        PROVE  /\ pending'.offs[s] = watch[s] /\ pending'.cut[s] = b.at
               /\ \A x \in Sources \ {s} : pending'.offs[x] = pending.offs[x]
                                           /\ pending'.cut[x] = pending.cut[x]
               /\ pending'.aligned = pending.aligned \union {s}
    <3>1. pending.offs \in [Sources -> Nat] /\ pending.cut \in [Sources -> Nat]
      BY DEF TypeOK, PendingBarrier
    <3> QED BY <2>3, <2>4, <2>8, <3>1
  <2>9. ASSUME NEW x \in pending'.aligned PROVE Settled(x)'
    <3>1. CASE ~Matches(b)
      BY <2>1, <2>3, <2>9, <3>1, Zenon DEF CutInv, Settled
    <3>2. CASE Matches(b) /\ x = s
      BY <1>2, <2>1, <2>6, <2>7, <2>8, <3>2, Zenon DEF Settled
    <3>3. CASE Matches(b) /\ x # s
      <4>1. x \in pending.aligned /\ x \in Sources \ {s}
        <5>1. x \in pending.aligned
          BY <2>8, <2>9, <3>3, Zenon
        <5>2. pending.aligned \subseteq Sources
          BY DEF TypeOK, PendingBarrier
        <5> QED BY <3>3, <5>1, <5>2, Zenon
      <4>2. pending'.offs[x] = pending.offs[x] /\ pending'.cut[x] = pending.cut[x]
        BY <2>8, <3>3, <4>1
      <4> QED BY <2>1, <4>1, <4>2, Zenon DEF CutInv, Settled
    <3> QED BY <3>1, <3>2, <3>3
  <2>10. Exact(batches, seen, barriers)
    BY <2>1, Zenon DEF CutInv
  <2>11. ASSUME NEW x \in pending'.aligned, x \in seen
         PROVE  AtMost(applied[x] \union Elems(batches[x]), pending'.cut[x])
    <3>1. CASE ~Matches(b)
      BY <2>3, <2>10, <2>11, <3>1, Zenon DEF Exact
    <3>2. CASE Matches(b) /\ x = s
      BY <2>6, <2>8, <3>2, Zenon
    <3>3. CASE Matches(b) /\ x # s
      <4>1. x \in pending.aligned /\ x \in Sources \ {s}
        <5>1. x \in pending.aligned
          BY <2>8, <2>11, <3>3, Zenon
        <5>2. pending.aligned \subseteq Sources
          BY DEF TypeOK, PendingBarrier
        <5> QED BY <3>3, <5>1, <5>2, Zenon
      <4>2. pending'.cut[x] = pending.cut[x]
        BY <2>8, <3>3, <4>1
      <4> QED BY <2>10, <2>11, <4>1, <4>2, Zenon DEF Exact
    <3> QED BY <3>1, <3>2, <3>3
  <2>12. ASSUME timeouts = 0, NEW x \in seen PROVE x \in pending'.aligned \/ HasBar(barriers', x)
    <3>1. Matches(b)
      BY <2>2, <2>12, Zenon DEF PromptInv, Carried, Matches
    <3>2. CASE x \in pending.aligned
      BY <2>8, <3>1, <3>2, Zenon
    <3>3. CASE HasBar(barriers, x)
      BY <2>2, <2>8, <3>1, <3>3, Zenon DEF HasBar
    <3> QED BY <2>10, <2>12, <3>2, <3>3, Zenon DEF Exact
  <2>13. Exact(batches, seen, barriers)'
    BY <2>1, <2>11, <2>12, Zenon DEF Exact
  <2> QED BY <1>2, <2>1, <2>5, <2>9, <2>13, Zenon DEF CutInv
<1>13. CASE Trigger
  <2>1. /\ UNCHANGED <<pos, watch, spc, chan, batches, post, seen, barriers, applied, timeouts>>
        /\ pending'.aligned = {} /\ cpc' = "timeout"
    BY <1>13 DEF Trigger, Reset, sourceVars, cycleVars, boundVars
  <2>2. ASSUME NEW x \in Sources PROVE Still(x)
    <3>1. pos[x] <= pos'[x]
      BY <1>1, <2>1
    <3>2. (InHand(x))' = InHand(x)
      BY <2>1, Zenon DEF InHand
    <3> QED BY <2>1, <3>1, <3>2, Zenon DEF Still
  <2>3. Split(chan') /\ watch' = pos' /\ \A m \in Bars(chan') : m \in Bars(chan)
    BY <1>2, <2>1
  <2>4. CutStage(batches, post, seen, barriers, chan)'
    BY <2>1, <2>2, <2>3, CutSteady, Zenon DEF CutInv
  <2> QED BY <2>1, <2>3, <2>4, Zenon DEF CutInv
<1>14. CASE BarrierTimeout
  <2>1. /\ UNCHANGED <<pos, watch, spc, chan, batches, post, seen, barriers, applied, errors>>
        /\ timeouts' # 0 /\ cpc' = "wait"
        /\ pending'.aligned = pending.aligned /\ pending'.cut = pending.cut
        /\ pending'.offs = pending.offs
    BY <1>14 DEF BarrierTimeout, sourceVars, cycleVars, TypeOK, PendingBarrier
  <2> QED BY <1>3, <2>1, Zenon
<1>15. ASSUME UNCHANGED <<pos, watch, spc, chan, batches, post, seen, barriers, applied, errors,
                          timeouts, pending>>,
              cpc' \in Seeing => cpc \in Seeing
       PROVE  CutInv'
  BY <1>3, <1>15, Zenon
<1>16. ASSUME NEW s \in Sources, RequestCheckpoint(s) PROVE CutInv'
  BY <1>15, <1>16 DEF RequestCheckpoint, sourceVars, cycleVars
<1>17. CASE EndDrain \/ EndBarriers \/ SkipCheckpoint
  BY <1>15, <1>17 DEF EndDrain, EndBarriers, SkipCheckpoint, sourceVars, cycleVars, boundVars
<1>18. CASE EndCycle \/ Leave \/ Join \/ Shutdown
  BY <1>15, <1>18 DEF EndCycle, Leave, Join, Shutdown, sourceVars, cycleVars, boundVars
<1>19. CASE UNCHANGED vars
  BY <1>15, <1>19 DEF vars
<1> QED
  BY <1>4, <1>5, <1>6, <1>7, <1>8, <1>9, <1>10, <1>11, <1>12, <1>13, <1>14, <1>16, <1>17, <1>18,
     <1>19, Zenon
     DEF Next, SourceStep, CoordinatorStep, Returned, TriggerOnInterval, TriggerOnRequest

-----------------------------------------------------------------------------
(* The checkpoint that completes.                                          *)

LastInv == PreBarrierIncluded /\ SameCycleExact /\ OffsetCoversState

LEMMA LastStep ==
    ASSUME TypeOK, TypeOK', OrderInv, LastInv, CutInv', [Next]_vars
    PROVE  LastInv'
<1>1. ASSUME last' = last, timeouts' = 0 => timeouts = 0, errors' = 0 => errors = 0
      PROVE  LastInv'
  BY <1>1, Zenon DEF LastInv, PreBarrierIncluded, SameCycleExact, OffsetCoversState
<1>2. CASE HandleBarrier
  <2>1. UNCHANGED <<applied, seen, timeouts, errors, cpc>> /\ cpc = "barriers"
    BY <1>2 DEF HandleBarrier, boundVars
  <2>2. \/ last' = last
        \/ /\ pending'.aligned = Sources
           /\ last'.offs = pending'.offs /\ last'.cut = pending'.cut
           /\ last'.snap = applied /\ last'.sameCycle = seen
    BY <1>2, Recorded, Zenon
  <2>3. CASE last' = last
    BY <1>1, <2>1, <2>3
  <2>4. CASE /\ pending'.aligned = Sources
             /\ last'.offs = pending'.offs /\ last'.cut = pending'.cut
             /\ last'.snap = applied /\ last'.sameCycle = seen
    <3>1. /\ \A s \in Sources : Settled(s)'
          /\ Exact(batches, seen, barriers)'
      BY <2>1, <2>4, Zenon DEF CutInv
    <3>2. ASSUME NEW s \in Sources
          PROVE  /\ last'.cut[s] <= last'.offs[s]
                 /\ errors' = 0 /\ timeouts' = 0 => 1 .. last'.cut[s] \subseteq last'.snap[s]
      BY <2>1, <2>4, <3>1, Zenon DEF Settled
    <3>3. seen \subseteq Sources
      BY DEF TypeOK
    <3>4. ASSUME NEW s \in seen
          PROVE  last'.snap[s] \subseteq 1 .. last'.cut[s] /\ last'.snap[s] \subseteq 1 .. last'.offs[s]
      <4>1. s \in Sources
        BY <3>3
      <4>2. \A n \in last'.snap[s] : n <= last'.cut[s]
        BY <2>1, <2>4, <3>1, <4>1, Zenon DEF Exact, AtMost
      <4>3. Line(pos[s], applied[s], Elems(batches[s]), Elems(post[s]), Sent(chan, s), InHand(s))
        BY <4>1, Zenon DEF OrderInv, Stage
      <4>4. \A n \in last'.snap[s] : n \in 1 .. pos[s]
        BY <2>4, <4>3, Zenon DEF Line
      <4>5. last'.cut[s] \in Nat /\ last'.offs[s] \in Nat /\ pos[s] \in Nat
        BY <4>1 DEF TypeOK, Checkpoint
      <4>6. last'.cut[s] <= last'.offs[s]
        BY <3>2, <4>1
      <4> QED BY <4>2, <4>4, <4>5, <4>6, SMT
    <3>5. PreBarrierIncluded'
      BY <3>2, Zenon DEF PreBarrierIncluded
    <3>6. SameCycleExact'
      BY <2>4, <3>2, <3>3, <3>4, Zenon DEF SameCycleExact
    <3>7. OffsetCoversState'
      BY <2>4, <3>2, <3>4, Zenon DEF OffsetCoversState
    <3> QED BY <3>5, <3>6, <3>7 DEF LastInv
  <2> QED BY <2>2, <2>3, <2>4
<1>3. CASE BarrierTimeout
  BY <1>1, <1>3 DEF BarrierTimeout, TypeOK
<1>4. CASE CycleError
  BY <1>1, <1>4 DEF CycleError, TypeOK
<1>5. ASSUME UNCHANGED <<last, timeouts, errors>> PROVE LastInv'
  BY <1>1, <1>5, Zenon
<1>6. ASSUME NEW s \in Sources, SourceStep(s) \/ RequestCheckpoint(s) PROVE LastInv'
  BY <1>5, <1>6, Zenon
     DEF SourceStep, PollBatch, PollNone, SendBatch, PollBarrier, SendBarrier, StopSource,
         RequestCheckpoint, boundVars
<1>7. CASE Recv \/ Idle \/ Drain \/ EndDrain \/ ExecuteCycle
  BY <1>5, <1>7, Zenon DEF Recv, Idle, Drain, EndDrain, ExecuteCycle, boundVars
<1>8. CASE EndBarriers \/ SkipCheckpoint \/ Trigger \/ EndCycle \/ Leave \/ Join \/ Shutdown
  BY <1>5, <1>8, Zenon DEF EndBarriers, SkipCheckpoint, Trigger, EndCycle, Leave, Join, Shutdown, boundVars
<1>9. CASE UNCHANGED vars
  BY <1>5, <1>9 DEF vars
<1> QED
  BY <1>2, <1>3, <1>4, <1>6, <1>7, <1>8, <1>9, Zenon
     DEF Next, CoordinatorStep, Returned, TriggerOnInterval, TriggerOnRequest

LEMMA CutInit == Init => FlightInv /\ PromptInv /\ CutInv /\ LastInv
<1> SUFFICES ASSUME Init PROVE FlightInv /\ PromptInv /\ CutInv /\ LastInv
  OBVIOUS
<1>1. /\ chan = <<>> /\ barriers = <<>> /\ pending.aligned = {} /\ pos = watch /\ last.id = 0
      /\ cpc = "wait"
      /\ \A s \in Sources : inj[s] = 0 /\ spc[s] = "poll"
  BY DEF Init, NoBarrier, NoCheckpoint, Zeros
<1>2. \A s, id : IdLast(<<>>, s, id) /\ ~HasBar(<<>>, s) /\ ~HasId(<<>>, s, id)
  BY NoBars DEF IdLast, HasBar, HasId
<1>3. Split(<<>>)
  BY DEF Split
<1>4. FlightInv
  BY <1>1, <1>2, NoBars, Zenon DEF FlightInv, FlightOf, InTask
<1>5. PromptInv
  BY <1>1, NoBars, Zenon DEF PromptInv, PromptTask
<1>6. CutInv
  BY <1>1, <1>3, NoBars, Zenon DEF CutInv, CutStage
<1>7. LastInv
  BY <1>1 DEF LastInv, PreBarrierIncluded, SameCycleExact, OffsetCoversState
<1> QED BY <1>4, <1>5, <1>6, <1>7

LEMMA LastInvariant == Spec => []LastInv
<1>1. TypeOK /\ FreshInv /\ FlightInv /\ [Next]_vars => FlightInv'
  BY FlightStep
<1>2. TypeOK /\ FlightInv /\ FlightInv' /\ PromptInv /\ [Next]_vars => PromptInv'
  BY PromptStep
<1>3. TypeOK /\ TypeOK' /\ OrderInv /\ FlightInv /\ PromptInv /\ CutInv /\ [Next]_vars => CutInv'
  BY CutStep
<1>4. TypeOK /\ TypeOK' /\ OrderInv /\ LastInv /\ CutInv' /\ [Next]_vars => LastInv'
  BY LastStep
<1> QED
  BY <1>1, <1>2, <1>3, <1>4, CutInit, TypeCorrect, FreshInvariant, OrderInvariant, PTL DEF Spec

\* Without cancelled alignments and failed cycles, the operator state in a
\* checkpoint contains every record that a source sent before its barrier:
\* handle_barrier runs after the SQL cycle on the batches drained before it.
THEOREM PreBarrierDataIncluded == Spec => []PreBarrierIncluded
BY LastInvariant, PTL DEF LastInv

\* Under the same conditions, a source whose barrier came in the cycle that
\* completed the checkpoint contributes exactly the records before its barrier:
\* process_msg deferred the later ones.
THEOREM SameCycleCutExact == Spec => []SameCycleExact
BY LastInvariant, PTL DEF LastInv

\* Whatever times out or fails, the offset handle_barrier reads from the watch
\* channel is not behind the barrier, nor behind the operator state if the
\* barrier came in the completing cycle: no such record is replayed.
THEOREM OffsetsCoverState == Spec => []OffsetCoversState
BY LastInvariant, PTL DEF LastInv
=============================================================================
