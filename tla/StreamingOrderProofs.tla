------------------------ MODULE StreamingOrderProofs ------------------------
(***************************************************************************)
(* Where the records and the barriers of a source are on their way through *)
(* the coordinator, for any number of sources, any channel capacity and    *)
(* any value of the bounds.                                                *)
(***************************************************************************)
EXTENDS StreamingCoordinatorProofs

-----------------------------------------------------------------------------
(* The stages of a source's records as sets: A in the operators, B in the  *)
(* cycle, P deferred, C in the channel, H in the task's hand.              *)

\* Every stage is behind the one before it, and all were polled.
Line(p, A, B, P, C, H) ==
    /\ A \union B \union P \union C \union H \subseteq 1 .. p
    /\ Below(A, B \union P \union C \union H)
    /\ Below(B, P \union C \union H)
    /\ Below(P, C \union H)
    /\ Below(C, H)

\* No record is missing.
Whole(p, A, B, P, C, H) == 1 .. p = A \union B \union P \union C \union H

\* poll_batch returns the next record.
LEMMA LinePoll ==
    ASSUME NEW p \in Nat, NEW A, NEW B, NEW P, NEW C, Line(p, A, B, P, C, {})
    PROVE  /\ Line(p + 1, A, B, P, C, {p + 1})
           /\ Whole(p, A, B, P, C, {}) => Whole(p + 1, A, B, P, C, {p + 1})
<1>1. \A n \in A \union B \union P \union C : n \in 1 .. p
  BY DEF Line
<1>2. \A n \in 1 .. p : n \in 1 .. p + 1 /\ n < p + 1
  OBVIOUS
<1>3. p + 1 \in 1 .. p + 1
  OBVIOUS
<1>4. Line(p + 1, A, B, P, C, {p + 1})
  BY <1>1, <1>2, <1>3, Zenon DEF Line, Below
<1>5. 1 .. p + 1 = 1 .. p \union {p + 1}
  OBVIOUS
<1>6. Whole(p, A, B, P, C, {}) => Whole(p + 1, A, B, P, C, {p + 1})
  BY <1>5 DEF Whole
<1> QED BY <1>4, <1>6

\* The record in hand is sent.
LEMMA LineSend ==
    ASSUME NEW p \in Nat, NEW A, NEW B, NEW P, NEW C, NEW H, Line(p, A, B, P, C, H)
    PROVE  /\ Line(p, A, B, P, C \union H, {})
           /\ Whole(p, A, B, P, C, H) => Whole(p, A, B, P, C \union H, {})
<1>1. Line(p, A, B, P, C \union H, {})
  BY Zenon DEF Line, Below
<1>2. Whole(p, A, B, P, C, H) => Whole(p, A, B, P, C \union H, {})
  BY DEF Whole
<1> QED BY <1>1, <1>2

\* The first record of the channel is taken into the cycle, nothing being
\* deferred.
LEMMA LineTake ==
    ASSUME NEW p \in Nat, NEW A, NEW B, NEW n, NEW D, NEW H,
           Line(p, A, B, {}, {n} \union D, H), Below({n}, D)
    PROVE  /\ Line(p, A, B \union {n}, {}, D, H)
           /\ Whole(p, A, B, {}, {n} \union D, H) => Whole(p, A, B \union {n}, {}, D, H)
<1>1. Line(p, A, B \union {n}, {}, D, H)
  BY Zenon DEF Line, Below
<1>2. Whole(p, A, B, {}, {n} \union D, H) => Whole(p, A, B \union {n}, {}, D, H)
  BY DEF Whole
<1> QED BY <1>1, <1>2

\* The first record of the channel is deferred.
LEMMA LineDefer ==
    ASSUME NEW p \in Nat, NEW A, NEW B, NEW P, NEW n, NEW D, NEW H,
           Line(p, A, B, P, {n} \union D, H), Below({n}, D)
    PROVE  /\ Line(p, A, B, P \union {n}, D, H)
           /\ Whole(p, A, B, P, {n} \union D, H) => Whole(p, A, B, P \union {n}, D, H)
<1>1. Line(p, A, B, P \union {n}, D, H)
  BY Zenon DEF Line, Below
<1>2. Whole(p, A, B, P, {n} \union D, H) => Whole(p, A, B, P \union {n}, D, H)
  BY DEF Whole
<1> QED BY <1>1, <1>2

\* A cycle starts with what the one before deferred.
LEMMA LineFresh ==
    ASSUME NEW p \in Nat, NEW A, NEW P, NEW C, NEW H, Line(p, A, {}, P, C, H)
    PROVE  /\ Line(p, A, P, {}, C, H)
           /\ Whole(p, A, {}, P, C, H) => Whole(p, A, P, {}, C, H)
<1>1. Line(p, A, P, {}, C, H)
  BY Zenon DEF Line, Below
<1>2. Whole(p, A, {}, P, C, H) => Whole(p, A, P, {}, C, H)
  BY DEF Whole
<1> QED BY <1>1, <1>2

\* The SQL cycle applies its batches, or fails and drops them.
LEMMA LineExecute ==
    ASSUME NEW p \in Nat, NEW A, NEW B, NEW P, NEW C, NEW H, Line(p, A, B, P, C, H)
    PROVE  /\ Line(p, A \union B, {}, P, C, H) /\ Line(p, A, {}, P, C, H)
           /\ Whole(p, A, B, P, C, H) => Whole(p, A \union B, {}, P, C, H)
<1>1. Line(p, A \union B, {}, P, C, H) /\ Line(p, A, {}, P, C, H)
  BY Zenon DEF Line, Below
<1>2. Whole(p, A, B, P, C, H) => Whole(p, A \union B, {}, P, C, H)
  BY DEF Whole
<1> QED BY <1>1, <1>2

-----------------------------------------------------------------------------
(* The same for the sequences the records are in.                          *)

\* The records of source s in channel c, and that they are in order.
Sent(c, s) == {c[i].n : i \in {k \in 1 .. Len(c) : c[k].kind = "batch" /\ c[k].src = s}}

Ordered(c, s) ==
    \A i, j \in 1 .. Len(c) :
      i < j /\ c[i].kind = "batch" /\ c[j].kind = "batch" /\ c[i].src = s /\ c[j].src = s
        => c[i].n < c[j].n

LEMMA AppendRecord ==
    ASSUME NEW q \in Seq(Nat), NEW n \in Nat
    PROVE  /\ Elems(Append(q, n)) = Elems(q) \union {n}
           /\ Increasing(q) /\ Below(Elems(q), {n}) => Increasing(Append(q, n))
<1> DEFINE r == Append(q, n)
<1>1. /\ Len(q) \in Nat /\ Len(r) = Len(q) + 1 /\ r[Len(r)] = n
      /\ \A i \in 1 .. Len(q) : r[i] = q[i] /\ q[i] \in Nat
  OBVIOUS
<1> HIDE DEF r
<1>2. 1 .. Len(r) = 1 .. Len(q) \union {Len(r)}
  BY <1>1
<1>3. Elems(r) = Elems(q) \union {n}
  <2>1. \A i \in 1 .. Len(q) : r[i] \in Elems(q) /\ q[i] \in Elems(r)
    BY <1>1, <1>2, Zenon DEF Elems
  <2>2. Elems(r) \subseteq Elems(q) \union {n}
    BY <1>1, <1>2, <2>1, Zenon DEF Elems
  <2>3. Elems(q) \union {n} \subseteq Elems(r)
    BY <1>1, <1>2, <2>1, Zenon DEF Elems
  <2> QED BY <2>2, <2>3, Zenon
<1>4. ASSUME Increasing(q), Below(Elems(q), {n}), NEW i \in 1 .. Len(r), NEW j \in 1 .. Len(r), i < j
      PROVE  r[i] < r[j]
  <2>1. i \in 1 .. Len(q)
    BY <1>1, <1>4
  <2>2. CASE j \in 1 .. Len(q)
    BY <1>1, <1>4, <2>1, <2>2 DEF Increasing
  <2>3. CASE j = Len(r)
    <3>1. q[i] \in Elems(q)
      BY <2>1 DEF Elems
    <3> QED BY <1>1, <1>4, <2>1, <2>3, <3>1 DEF Below
  <2> QED BY <1>2, <2>2, <2>3
<1> QED BY <1>3, <1>4 DEF r, Increasing

LEMMA NoRecords ==
    /\ Elems(<<>>) = {} /\ Increasing(<<>>)
    /\ \A s \in Sources : Sent(<<>>, s) = {} /\ Ordered(<<>>, s)
BY DEF Elems, Increasing, Sent, Ordered

\* What task_tx.send does to the records of source s in the channel.
LEMMA AppendSent ==
    ASSUME NEW c \in Seq(Msg), NEW m \in Msg, NEW s \in Sources
    PROVE  LET mine == m.kind = "batch" /\ m.src = s
           IN  /\ Sent(Append(c, m), s) = Sent(c, s) \union (IF mine THEN {m.n} ELSE {})
               /\ Ordered(c, s) /\ (mine => Below(Sent(c, s), {m.n})) => Ordered(Append(c, m), s)
<1> DEFINE r == Append(c, m)
           mine == m.kind = "batch" /\ m.src = s
           My(q) == {k \in 1 .. Len(q) : q[k].kind = "batch" /\ q[k].src = s}
<1>1. /\ Len(c) \in Nat /\ Len(r) = Len(c) + 1 /\ r[Len(r)] = m
      /\ \A i \in 1 .. Len(c) : r[i] = c[i]
  OBVIOUS
<1> HIDE DEF r
<1>2. /\ 1 .. Len(r) = 1 .. Len(c) \union {Len(r)} /\ Len(r) \notin 1 .. Len(c)
      /\ \A i, j \in 1 .. Len(r) : i < j => i \in 1 .. Len(c)
  BY <1>1
<1>3. /\ \A k : k \in My(r) <=> k \in My(c) \/ (k = Len(r) /\ mine)
  BY <1>1, <1>2, Zenon
<1>4. Sent(r, s) = Sent(c, s) \union (IF mine THEN {m.n} ELSE {})
  <2>1. Sent(r, s) = {r[k].n : k \in My(r)} /\ Sent(c, s) = {c[k].n : k \in My(c)}
    BY DEF Sent
  <2>2. \A k \in My(c) : r[k] = c[k]
    BY <1>1
  <2>3. ASSUME NEW x \in Sent(r, s) PROVE x \in Sent(c, s) \/ (mine /\ x = m.n)
    <3>1. PICK k \in My(r) : x = r[k].n
      BY <2>1, Zenon
    <3>2. CASE k \in My(c)
      BY <2>1, <2>2, <3>1, <3>2, Zenon
    <3>3. CASE k = Len(r) /\ mine
      BY <1>1, <3>1, <3>3, Zenon
    <3> QED BY <1>3, <3>1, <3>2, <3>3, Zenon
  <2>4. ASSUME NEW x \in Sent(c, s) PROVE x \in Sent(r, s)
    <3>1. PICK k \in My(c) : x = c[k].n
      BY <2>1, Zenon
    <3> QED BY <1>3, <2>1, <2>2, <3>1, Zenon
  <2>5. mine => m.n \in Sent(r, s)
    BY <1>1, <1>3, <2>1, Zenon
  <2> HIDE DEF mine
  <2> QED BY <2>3, <2>4, <2>5, Zenon
<1>5. ASSUME Ordered(c, s), mine => Below(Sent(c, s), {m.n}),
             NEW i \in 1 .. Len(r), NEW j \in 1 .. Len(r), i < j, i \in My(r), j \in My(r)
      PROVE  r[i].n < r[j].n
  <2>1. i \in 1 .. Len(c) /\ r[i] = c[i] /\ i \in My(c)
    BY <1>1, <1>2, <1>5
  <2>2. CASE j \in My(c)
    <3>1. r[j] = c[j] /\ j \in 1 .. Len(c)
      BY <1>1, <2>2
    <3> QED BY <1>5, <2>1, <2>2, <3>1, Zenon DEF Ordered
  <2>3. CASE j = Len(r) /\ mine
    <3>1. c[i].n \in Sent(c, s)
      BY <2>1, Zenon DEF Sent
    <3> QED BY <1>1, <1>5, <2>1, <2>3, <3>1, Zenon DEF Below
  <2> QED BY <1>3, <1>5, <2>2, <2>3
<1> QED BY <1>4, <1>5, Zenon DEF r, Ordered

\* What receiving the next message does to them.
LEMMA TailSent ==
    ASSUME NEW c \in Seq(Msg), c # <<>>, NEW s \in Sources, Ordered(c, s)
    PROVE  LET m == Head(c)
               mine == m.kind = "batch" /\ m.src = s
           IN  /\ m \in Msg /\ Tail(c) \in Seq(Msg)
               /\ Ordered(Tail(c), s)
               /\ mine => Sent(c, s) = {m.n} \union Sent(Tail(c), s) /\ Below({m.n}, Sent(Tail(c), s))
               /\ ~mine => Sent(c, s) = Sent(Tail(c), s)
<1> DEFINE r == Tail(c)
           m == Head(c)
           mine == m.kind = "batch" /\ m.src = s
           My(q) == {k \in 1 .. Len(q) : q[k].kind = "batch" /\ q[k].src = s}
<1>1. /\ Len(c) \in Nat \ {0} /\ Len(r) = Len(c) - 1 /\ c[1] = m /\ m \in Msg /\ r \in Seq(Msg)
      /\ \A i \in 1 .. Len(r) : r[i] = c[i + 1]
  OBVIOUS
<1> HIDE DEF r, m
<1>2. /\ \A i \in 1 .. Len(r) : i + 1 \in 1 .. Len(c) /\ 1 < i + 1 /\ i \in Int
      /\ \A k \in 1 .. Len(c) : k = 1 \/ (k - 1 \in 1 .. Len(r) /\ k = (k - 1) + 1)
      /\ 1 \in 1 .. Len(c)
      /\ \A i, j \in 1 .. Len(r) : i < j => i + 1 < j + 1
  BY <1>1
<1>3. /\ \A k \in My(r) : k + 1 \in My(c) /\ r[k] = c[k + 1] /\ 1 < k + 1
      /\ \A k \in My(c) : (k = 1 /\ mine) \/ (k - 1 \in My(r) /\ r[k - 1] = c[k])
      /\ mine => 1 \in My(c)
  BY <1>1, <1>2, Zenon
<1>4. Sent(r, s) = {r[k].n : k \in My(r)} /\ Sent(c, s) = {c[k].n : k \in My(c)}
  BY DEF Sent
<1>5. ASSUME NEW i \in 1 .. Len(r), NEW j \in 1 .. Len(r), i < j, i \in My(r), j \in My(r)
      PROVE  r[i].n < r[j].n
  <2>1. i + 1 < j + 1 /\ i + 1 \in My(c) /\ j + 1 \in My(c) /\ r[i] = c[i + 1] /\ r[j] = c[j + 1]
    BY <1>2, <1>3, <1>5, Zenon
  <2> QED BY <2>1, Zenon DEF Ordered
<1>8. Ordered(r, s)
  BY <1>5, Zenon DEF Ordered
<1>6. /\ mine => Sent(c, s) = {m.n} \union Sent(r, s)
      /\ ~mine => Sent(c, s) = Sent(r, s)
  <2>1. ASSUME NEW x \in Sent(c, s) PROVE x \in Sent(r, s) \/ (mine /\ x = m.n)
    <3>1. PICK k \in My(c) : x = c[k].n
      BY <1>4, Zenon
    <3> QED BY <1>1, <1>3, <1>4, <3>1, Zenon
  <2>2. ASSUME NEW x \in Sent(r, s) PROVE x \in Sent(c, s)
    <3>1. PICK k \in My(r) : x = r[k].n
      BY <1>4, Zenon
    <3> QED BY <1>3, <1>4, <3>1, Zenon
  <2>3. mine => m.n \in Sent(c, s)
    BY <1>1, <1>3, <1>4, Zenon
  <2> HIDE DEF mine
  <2> QED BY <2>1, <2>2, <2>3, Zenon
<1>7. ASSUME mine, NEW n \in Sent(r, s)
      PROVE  m.n < n
  <2>1. PICK k \in My(r) : n = r[k].n
    BY <1>4, <1>7, Zenon
  <2>2. k + 1 \in My(c) /\ n = c[k + 1].n /\ 1 < k + 1 /\ 1 \in My(c)
    BY <1>3, <1>7, <2>1
  <2> QED BY <1>1, <2>2, Zenon DEF Ordered
<1> QED BY <1>1, <1>6, <1>7, <1>8, Zenon DEF r, m, Below

-----------------------------------------------------------------------------
(* The invariant behind InOrder.                                           *)

\* Source s with the batches b and the deferred batches q of a cycle that has
\* seen the barriers of sn, and with channel c.
Stage(s, b, q, sn, c) ==
    /\ Increasing(b) /\ Increasing(q) /\ Ordered(c, s)
    /\ Line(pos[s], applied[s], Elems(b), Elems(q), Sent(c, s), InHand(s))
    /\ errors = 0 => Whole(pos[s], applied[s], Elems(b), Elems(q), Sent(c, s), InHand(s))
    /\ q # <<>> => s \in sn

\* A batch is only deferred behind a barrier of its source, and the batches
\* of a cycle are executed before the next one starts.
OrderInv ==
    \A s \in Sources :
      /\ Stage(s, batches[s], post[s], seen, chan)
      /\ cpc \notin {"drain", "execute"} => batches[s] = <<>>

LEMMA OrderInvImplies == OrderInv => InOrder
BY Zenon DEF OrderInv, Stage, InOrder, Line, Whole, Ordered, Sent, InChan

\* Receiving a message into cycle c.
LEMMA TakeKeeps ==
    ASSUME TypeOK, chan # <<>>, NEW c \in Cycle,
           \A s \in Sources : Stage(s, c.b[s], c.p[s], c.s, chan)
    PROVE  LET d == ProcessMsg(c, Head(chan))
           IN  \A s \in Sources : Stage(s, d.b[s], d.p[s], d.s, Tail(chan))
<1> DEFINE m == Head(chan)
           d == ProcessMsg(c, m)
           t == Tail(chan)
<1> SUFFICES ASSUME NEW s \in Sources PROVE Stage(s, d.b[s], d.p[s], d.s, t)
  OBVIOUS
<1> DEFINE mine == m.kind = "batch" /\ m.src = s
           A == applied[s]
           B == Elems(c.b[s])
           P == Elems(c.p[s])
           D == Sent(t, s)
           H == InHand(s)
<1>1. /\ Increasing(c.b[s]) /\ Increasing(c.p[s]) /\ Ordered(chan, s)
      /\ Line(pos[s], A, B, P, Sent(chan, s), H)
      /\ errors = 0 => Whole(pos[s], A, B, P, Sent(chan, s), H)
      /\ c.p[s] # <<>> => s \in c.s
  BY Zenon DEF Stage
<1>2. /\ chan \in Seq(Msg) /\ pos[s] \in Nat /\ c.b[s] \in Seq(Nat) /\ c.p[s] \in Seq(Nat)
      /\ c.b \in [Sources -> Seq(Nat)] /\ c.p \in [Sources -> Seq(Nat)]
  BY DEF TypeOK, Cycle
<1>3. /\ m \in Msg /\ t \in Seq(Msg) /\ Ordered(t, s)
      /\ mine => Sent(chan, s) = {m.n} \union D /\ Below({m.n}, D)
      /\ ~mine => Sent(chan, s) = D
  BY <1>1, <1>2, TailSent, Zenon
<1>4. m.n \in Nat /\ m.src \in Sources /\ m.kind \in {"batch", "barrier"}
  BY <1>3 DEF Msg
<1> HIDE DEF m, t
<1>5. CASE ~mine
  <2>1. d.b[s] = c.b[s] /\ d.p[s] = c.p[s] /\ c.s \subseteq d.s
    <3>1. CASE m.kind = "barrier"
      BY <3>1 DEF ProcessMsg, Cycle
    <3>2. CASE m.kind # "barrier" /\ m.src # s
      BY <1>2, <1>4, <3>2 DEF ProcessMsg, Cycle
    <3> QED BY <1>4, <1>5, <3>1, <3>2
  <2> HIDE DEF d, mine
  <2> QED BY <1>1, <1>3, <1>5, <2>1, Zenon DEF Stage
<1>6. CASE mine /\ s \in c.s
  <2>1. d.b[s] = c.b[s] /\ d.p[s] = Append(c.p[s], m.n) /\ d.s = c.s
    BY <1>2, <1>4, <1>6 DEF ProcessMsg, Cycle
  <2>2. Line(pos[s], A, B, P, {m.n} \union D, H) /\ Below({m.n}, D)
    BY <1>1, <1>3, <1>6, Zenon
  <2> HIDE DEF d, mine, A, D, H
  <2>3. Below(P, {m.n})
    BY <2>2, Zenon DEF Line, Below
  <2>4. Elems(d.p[s]) = P \union {m.n} /\ Increasing(d.p[s])
    BY <1>1, <1>2, <1>4, <2>1, <2>3, AppendRecord, Zenon
  <2> HIDE DEF B, P
  <2>5. /\ Line(pos[s], A, B, P \union {m.n}, D, H)
        /\ errors = 0 => Whole(pos[s], A, B, P \union {m.n}, D, H)
    BY <1>1, <1>2, <1>3, <1>6, <2>2, LineDefer, Zenon
  <2> QED BY <1>1, <1>3, <1>6, <2>1, <2>4, <2>5, Zenon DEF Stage, A, B, D, H
<1>7. CASE mine /\ s \notin c.s
  <2>1. d.b[s] = Append(c.b[s], m.n) /\ d.p[s] = c.p[s] /\ d.s = c.s
    BY <1>2, <1>4, <1>7 DEF ProcessMsg, Cycle
  <2>2. /\ Line(pos[s], A, B, P, {m.n} \union D, H) /\ Below({m.n}, D)
        /\ c.p[s] = <<>> /\ P = {}
    BY <1>1, <1>3, <1>7, NoRecords, Zenon
  <2> HIDE DEF d, mine, A, D, H, P
  <2>3. Below(B, {m.n})
    BY <2>2, Zenon DEF Line, Below
  <2>4. Elems(d.b[s]) = B \union {m.n} /\ Increasing(d.b[s])
    BY <1>1, <1>2, <1>4, <2>1, <2>3, AppendRecord, Zenon
  <2> HIDE DEF B
  <2>5. /\ Line(pos[s], A, B \union {m.n}, P, D, H)
        /\ errors = 0 => Whole(pos[s], A, B \union {m.n}, P, D, H)
    BY <1>1, <1>2, <1>3, <1>7, <2>2, LineTake, Zenon
  <2> QED BY <1>1, <1>3, <1>7, <2>1, <2>2, <2>4, <2>5, Zenon DEF Stage, A, P, D, H
<1> QED BY <1>5, <1>6, <1>7, Zenon

\* The buffers a cycle starts with.
LEMMA FreshStage ==
    ASSUME TypeOK, OrderInv, cpc = "wait"
    PROVE  /\ FreshCycle \in Cycle
           /\ \A s \in Sources : Stage(s, FreshCycle.b[s], FreshCycle.p[s], FreshCycle.s, chan)
<1>1. FreshCycle \in Cycle /\ FreshCycle.b = post /\ FreshCycle.p = Empty
  BY ConstantTypes, SMTT(30) DEF FreshCycle, Cycle, TypeOK
<1>2. ASSUME NEW s \in Sources PROVE Stage(s, post[s], <<>>, FreshCycle.s, chan)
  <2>1. batches[s] = <<>> /\ Stage(s, <<>>, post[s], seen, chan) /\ pos[s] \in Nat
    BY Zenon DEF OrderInv, TypeOK
  <2> QED BY <2>1, NoRecords, LineFresh, Zenon DEF Stage
<1>3. \A s \in Sources : Empty[s] = <<>>
  BY DEF Empty
<1> QED BY <1>1, <1>2, <1>3, Zenon

\* A step that leaves every record where it is.
LEMMA OrderStutter ==
    ASSUME OrderInv, UNCHANGED <<pos, chan, batches, post, seen, applied, errors>>,
           \A s \in Sources : (InHand(s))' = InHand(s),
           cpc' \notin {"drain", "execute"} =>
             \A s \in Sources : cpc \notin {"drain", "execute"} \/ batches[s] = <<>>
    PROVE  OrderInv'
<1> SUFFICES ASSUME NEW s \in Sources
             PROVE  /\ (Stage(s, batches[s], post[s], seen, chan))'
                    /\ cpc' \notin {"drain", "execute"} => batches'[s] = <<>>
  BY DEF OrderInv
<1>1. /\ Stage(s, batches[s], post[s], seen, chan) /\ (InHand(s))' = InHand(s)
      /\ pos'[s] = pos[s] /\ batches'[s] = batches[s] /\ post'[s] = post[s]
      /\ applied'[s] = applied[s] /\ seen' = seen /\ chan' = chan /\ errors' = errors
  BY DEF OrderInv
<1>2. (Stage(s, batches[s], post[s], seen, chan))'
  BY <1>1, Zenon DEF Stage
<1>3. cpc' \notin {"drain", "execute"} => batches'[s] = <<>>
  BY <1>1, Zenon DEF OrderInv
<1> QED BY <1>2, <1>3

\* The messages a source task sends: a batch it has in hand, or a barrier.
LEMMA SendKeepsOrder ==
    ASSUME TypeOK, OrderInv, NEW s \in Sources, NEW m \in Msg, m.src = s,
           m.kind = "batch" => InHand(s) = {m.n},
           m.kind # "batch" => InHand(s) = {},
           chan' = Append(chan, m), (InHand(s))' = {},
           \A x \in Sources \ {s} : (InHand(x))' = InHand(x),
           UNCHANGED <<pos, cpc, batches, post, seen, applied, errors>>
    PROVE  OrderInv'
<1> SUFFICES ASSUME NEW x \in Sources
             PROVE  /\ (Stage(x, batches[x], post[x], seen, chan))'
                    /\ cpc' \notin {"drain", "execute"} => batches'[x] = <<>>
  BY DEF OrderInv
<1> DEFINE mine == m.kind = "batch" /\ m.src = x
           A == applied[x]
           B == Elems(batches[x])
           P == Elems(post[x])
           C == Sent(chan, x)
           H == InHand(x)
<1>1. /\ Increasing(batches[x]) /\ Increasing(post[x]) /\ Ordered(chan, x)
      /\ Line(pos[x], A, B, P, C, H)
      /\ errors = 0 => Whole(pos[x], A, B, P, C, H)
      /\ post[x] # <<>> => x \in seen
      /\ cpc \notin {"drain", "execute"} => batches[x] = <<>>
  BY Zenon DEF OrderInv, Stage
<1>2. chan \in Seq(Msg) /\ pos[x] \in Nat
  BY DEF TypeOK
<1>3. /\ Sent(chan', x) = C \union (IF mine THEN {m.n} ELSE {})
      /\ Ordered(chan, x) /\ (mine => Below(C, {m.n})) => Ordered(chan', x)
  BY <1>2, AppendSent, Zenon
<1>4. mine => H = {m.n}
  BY Zenon
<1>5. (InHand(x))' = IF x = s THEN {} ELSE H
  BY Zenon
<1>6. Below(C, H)
  BY <1>1, Zenon DEF Line
<1>7. Ordered(chan', x)
  BY <1>1, <1>3, <1>4, <1>6, Zenon
<1>8. \/ Sent(chan', x) = C \union H /\ (InHand(x))' = {}
      \/ Sent(chan', x) = C /\ (InHand(x))' = H
  <2>1. CASE mine
    BY <1>3, <1>4, <1>5, <2>1, Zenon
  <2>2. CASE ~mine
    <3>1. Sent(chan', x) = C
      BY <1>3, <2>2
    <3> QED BY <1>5, <2>2, <3>1, Zenon
  <2> QED BY <2>1, <2>2
<1> HIDE DEF A, B, P, C, H, mine
<1>9. /\ Line(pos[x], A, B, P, Sent(chan', x), (InHand(x))')
      /\ errors = 0 => Whole(pos[x], A, B, P, Sent(chan', x), (InHand(x))')
  <2>1. /\ Line(pos[x], A, B, P, C \union H, {})
        /\ Whole(pos[x], A, B, P, C, H) => Whole(pos[x], A, B, P, C \union H, {})
    BY <1>1, <1>2, LineSend, Zenon
  <2>2. CASE Sent(chan', x) = C \union H /\ (InHand(x))' = {}
    BY <1>1, <2>1, <2>2
  <2>3. CASE Sent(chan', x) = C /\ (InHand(x))' = H
    BY <1>1, <2>3
  <2> QED BY <1>8, <2>2, <2>3
<1>10. /\ pos'[x] = pos[x] /\ batches'[x] = batches[x] /\ post'[x] = post[x]
       /\ applied'[x] = applied[x] /\ seen' = seen /\ errors' = errors /\ cpc' = cpc
  OBVIOUS
<1>11. (Stage(x, batches[x], post[x], seen, chan))'
  BY <1>1, <1>7, <1>9, <1>10, Zenon DEF Stage, A, B, P
<1> QED BY <1>1, <1>10, <1>11, Zenon

\* The coordinator's steps on the buffers of the cycle.
LEMMA CycleKeepsOrder ==
    ASSUME NEW c, SetCycle(c), UNCHANGED <<pos, spc, applied, errors>>,
           cpc' = "drain", \A s \in Sources : Stage(s, c.b[s], c.p[s], c.s, chan')
    PROVE  OrderInv'
<1> SUFFICES ASSUME NEW s \in Sources
             PROVE  (Stage(s, batches[s], post[s], seen, chan))'
  BY Zenon DEF OrderInv
<1>1. /\ pos'[s] = pos[s] /\ applied'[s] = applied[s] /\ (InHand(s))' = InHand(s)
      /\ batches' = c.b /\ post' = c.p /\ seen' = c.s /\ errors' = errors
  BY DEF SetCycle, InHand
<1> QED BY <1>1, Zenon DEF Stage

LEMMA OrderStep ==
    ASSUME TypeOK, OrderInv, [Next]_vars
    PROVE  OrderInv'
<1>1. ASSUME NEW s \in Sources, PollBatch(s) PROVE OrderInv'
  <2> SUFFICES ASSUME NEW x \in Sources
               PROVE  /\ (Stage(x, batches[x], post[x], seen, chan))'
                      /\ cpc' \notin {"drain", "execute"} => batches'[x] = <<>>
    BY DEF OrderInv
  <2> DEFINE A == applied[x]
             B == Elems(batches[x])
             P == Elems(post[x])
             C == Sent(chan, x)
  <2>1. /\ Increasing(batches[x]) /\ Increasing(post[x]) /\ Ordered(chan, x)
        /\ Line(pos[x], A, B, P, C, InHand(x))
        /\ errors = 0 => Whole(pos[x], A, B, P, C, InHand(x))
        /\ post[x] # <<>> => x \in seen
        /\ cpc \notin {"drain", "execute"} => batches[x] = <<>>
    BY Zenon DEF OrderInv, Stage
  <2>2. /\ UNCHANGED <<chan, cpc, batches, post, seen, applied, errors>>
        /\ spc[s] = "poll" /\ spc' = [spc EXCEPT ![s] = "sendBatch"]
        /\ pos' = [pos EXCEPT ![s] = @ + 1]
        /\ pos \in [Sources -> Nat] /\ DOMAIN spc = Sources
    BY <1>1 DEF PollBatch, cycleVars, boundVars, TypeOK
  <2>3. \/ pos'[x] = pos[x] + 1 /\ InHand(x) = {} /\ (InHand(x))' = {pos[x] + 1}
        \/ pos'[x] = pos[x] /\ (InHand(x))' = InHand(x)
    BY <2>2, Zenon DEF InHand
  <2> HIDE DEF A, B, P, C
  <2>4. /\ Line(pos'[x], A, B, P, C, (InHand(x))')
        /\ errors = 0 => Whole(pos'[x], A, B, P, C, (InHand(x))')
    <3>1. CASE pos'[x] = pos[x] + 1 /\ InHand(x) = {} /\ (InHand(x))' = {pos[x] + 1}
      <4>1. /\ Line(pos[x], A, B, P, C, {}) /\ pos[x] \in Nat
            /\ errors = 0 => Whole(pos[x], A, B, P, C, {})
        BY <2>1, <2>2, <3>1
      <4>2. /\ Line(pos[x] + 1, A, B, P, C, {pos[x] + 1})
            /\ Whole(pos[x], A, B, P, C, {}) => Whole(pos[x] + 1, A, B, P, C, {pos[x] + 1})
        BY <4>1, LinePoll, Zenon
      <4> QED BY <3>1, <4>1, <4>2
    <3>2. CASE pos'[x] = pos[x] /\ (InHand(x))' = InHand(x)
      BY <2>1, <3>2
    <3> QED BY <2>3, <3>1, <3>2
  <2>5. (Stage(x, batches[x], post[x], seen, chan))'
    BY <2>1, <2>2, <2>4, Zenon DEF Stage, A, B, P, C
  <2> QED BY <2>1, <2>2, <2>5, Zenon
<1>2. ASSUME NEW s \in Sources, PollNone(s) \/ PollBarrier(s) \/ StopSource(s)
      PROVE  OrderInv'
  <2>1. /\ UNCHANGED <<pos, chan, cpc, batches, post, seen, applied, errors>>
        /\ spc[s] # "sendBatch" /\ DOMAIN spc = Sources
        /\ \E w \in {"pollBarrier", "poll", "sendBarrier", "stopped"} : spc' = [spc EXCEPT ![s] = w]
    BY <1>2 DEF PollNone, PollBarrier, StopSource, cycleVars, boundVars, TypeOK
  <2>2. \A x \in Sources : (InHand(x))' = InHand(x)
    BY <2>1 DEF InHand
  <2> QED BY <2>1, <2>2, OrderStutter, Zenon
<1>3. ASSUME NEW s \in Sources, SendBatch(s) PROVE OrderInv'
  <2> DEFINE m == Batch(s, pos[s])
  <2>1. /\ UNCHANGED <<pos, cpc, batches, post, seen, applied, errors>>
        /\ spc[s] = "sendBatch" /\ spc' = [spc EXCEPT ![s] = "pollBarrier"]
        /\ chan' = Append(chan, m) /\ DOMAIN spc = Sources /\ pos[s] \in Nat
    BY <1>3 DEF SendBatch, cycleVars, boundVars, TypeOK
  <2>2. m \in Msg /\ m.src = s /\ m.kind = "batch" /\ m.n = pos[s]
    BY <2>1 DEF Batch, Msg
  <2>3. /\ InHand(s) = {pos[s]} /\ (InHand(s))' = {}
        /\ \A x \in Sources \ {s} : (InHand(x))' = InHand(x)
    BY <2>1 DEF InHand
  <2> HIDE DEF m
  <2> QED BY <2>1, <2>2, <2>3, SendKeepsOrder, Zenon
<1>4. ASSUME NEW s \in Sources, SendBarrier(s) PROVE OrderInv'
  <2> DEFINE m == Barrier(s, held[s], pos[s])
  <2>1. /\ UNCHANGED <<pos, cpc, batches, post, seen, applied, errors>>
        /\ spc[s] = "sendBarrier" /\ spc' = [spc EXCEPT ![s] = "poll"]
        /\ chan' = Append(chan, m) /\ DOMAIN spc = Sources
        /\ pos[s] \in Nat /\ held[s] \in Nat
    BY <1>4 DEF SendBarrier, cycleVars, boundVars, TypeOK
  <2>2. m \in Msg /\ m.src = s /\ m.kind # "batch"
    BY <2>1 DEF Barrier, Msg
  <2>3. /\ InHand(s) = {} /\ (InHand(s))' = {}
        /\ \A x \in Sources \ {s} : (InHand(x))' = InHand(x)
    BY <2>1 DEF InHand
  <2> HIDE DEF m
  <2> QED BY <2>1, <2>2, <2>3, SendKeepsOrder, Zenon
<1>5. CASE Recv
  <2>1. /\ UNCHANGED <<pos, spc, applied, errors>> /\ cpc' = "drain"
        /\ cpc = "wait" /\ chan # <<>> /\ chan' = Tail(chan)
        /\ SetCycle(ProcessMsg(FreshCycle, Head(chan)))
    BY <1>5 DEF Recv, sourceVars, boundVars
  <2> QED BY <2>1, FreshStage, TakeKeeps, CycleKeepsOrder, Zenon
<1>6. CASE Idle
  <2>1. /\ UNCHANGED <<pos, spc, applied, errors>> /\ cpc' = "drain"
        /\ cpc = "wait" /\ chan' = chan /\ SetCycle(FreshCycle)
    BY <1>6 DEF Idle, sourceVars, boundVars
  <2> QED BY <2>1, FreshStage, CycleKeepsOrder, Zenon
<1>7. CASE Drain
  <2>1. /\ UNCHANGED <<pos, spc, applied, errors>> /\ cpc' = "drain"
        /\ chan # <<>> /\ chan' = Tail(chan)
        /\ SetCycle(ProcessMsg(ThisCycle, Head(chan)))
    BY <1>7 DEF Drain, sourceVars, boundVars
  <2>2. ThisCycle \in Cycle /\ ThisCycle.b = batches /\ ThisCycle.p = post /\ ThisCycle.s = seen
    BY DEF ThisCycle, Cycle, TypeOK
  <2>3. \A s \in Sources : Stage(s, ThisCycle.b[s], ThisCycle.p[s], ThisCycle.s, chan)
    BY <2>2, Zenon DEF OrderInv
  <2> QED BY <2>1, <2>2, <2>3, TakeKeeps, CycleKeepsOrder, Zenon
<1>8. CASE ExecuteCycle \/ CycleError
  <2> SUFFICES ASSUME NEW s \in Sources
               PROVE  /\ (Stage(s, batches[s], post[s], seen, chan))'
                      /\ batches'[s] = <<>>
    BY Zenon DEF OrderInv
  <2> DEFINE A == applied[s]
             B == Elems(batches[s])
             P == Elems(post[s])
             C == Sent(chan, s)
             H == InHand(s)
  <2>1. /\ Increasing(batches[s]) /\ Increasing(post[s]) /\ Ordered(chan, s)
        /\ Line(pos[s], A, B, P, C, H)
        /\ errors = 0 => Whole(pos[s], A, B, P, C, H)
        /\ post[s] # <<>> => s \in seen
    BY Zenon DEF OrderInv, Stage
  <2>2. /\ UNCHANGED <<pos, spc, post, seen, chan>> /\ batches' = Empty
        /\ \/ errors' = errors /\ applied'[s] = applied[s] \union Elems(batches[s])
           \/ errors' # 0 /\ applied' = applied
        /\ pos[s] \in Nat
    BY <1>8 DEF ExecuteCycle, CycleError, sourceVars, boundVars, TypeOK
  <2>3. batches'[s] = <<>> /\ (InHand(s))' = H
    BY <2>2 DEF Empty, InHand
  <2> HIDE DEF A, B, P, C, H
  <2>4. /\ Line(pos[s], A \union B, {}, P, C, H) /\ Line(pos[s], A, {}, P, C, H)
        /\ errors = 0 => Whole(pos[s], A \union B, {}, P, C, H)
    BY <2>1, <2>2, LineExecute, Zenon
  <2>5. Elems(<<>>) = {} /\ Increasing(<<>>)
    BY NoRecords
  <2>6. (Stage(s, batches[s], post[s], seen, chan))'
    BY <2>1, <2>2, <2>3, <2>4, <2>5, Zenon DEF Stage, A, B, P, C
  <2> QED BY <2>3, <2>6
<1>9. CASE EndDrain
  <2>1. /\ UNCHANGED <<pos, spc, chan, batches, post, seen, applied, errors>>
        /\ cpc' \notin {"drain", "execute"} => batches = Empty
    BY <1>9 DEF EndDrain, sourceVars, cycleVars, boundVars
  <2>2. \A x \in Sources : (InHand(x))' = InHand(x) /\ Empty[x] = <<>>
    BY <2>1 DEF InHand, Empty
  <2> QED BY <2>1, <2>2, OrderStutter, Zenon
<1>10. ASSUME UNCHANGED <<pos, spc, chan, batches, post, seen, applied, errors>>,
              cpc' = cpc \/ cpc \notin {"drain", "execute"}
       PROVE  OrderInv'
  <2>1. \A x \in Sources : (InHand(x))' = InHand(x)
    BY <1>10 DEF InHand
  <2> QED BY <1>10, <2>1, OrderStutter, Zenon
<1>11. ASSUME NEW s \in Sources, RequestCheckpoint(s) PROVE OrderInv'
  BY <1>10, <1>11 DEF RequestCheckpoint, sourceVars, cycleVars, boundVars
<1>12. CASE HandleBarrier
  BY <1>10, <1>12 DEF HandleBarrier, sourceVars, boundVars
<1>13. CASE Trigger \/ BarrierTimeout
  BY <1>10, <1>13 DEF Trigger, BarrierTimeout, sourceVars, cycleVars, boundVars
<1>14. CASE EndBarriers \/ SkipCheckpoint \/ EndCycle \/ Leave \/ Join \/ Shutdown
  BY <1>10, <1>14
     DEF EndBarriers, SkipCheckpoint, EndCycle, Leave, Join, Shutdown,
         sourceVars, cycleVars, boundVars
<1>15. CASE UNCHANGED vars
  BY <1>10, <1>15 DEF vars
<1> QED
  BY <1>1, <1>2, <1>3, <1>4, <1>5, <1>6, <1>7, <1>8, <1>9, <1>11, <1>12, <1>13, <1>14, <1>15
     DEF Next, SourceStep, CoordinatorStep, Returned, TriggerOnInterval, TriggerOnRequest

LEMMA OrderInit == Init => OrderInv
<1> SUFFICES ASSUME Init, NEW s \in Sources
             PROVE  Stage(s, batches[s], post[s], seen, chan) /\ batches[s] = <<>>
  BY Zenon DEF OrderInv
<1>1. /\ batches[s] = <<>> /\ post[s] = <<>> /\ chan = <<>> /\ pos[s] = 0 /\ applied[s] = {}
      /\ spc[s] = "poll"
  BY DEF Init, Empty, Zeros
<1>2. InHand(s) = {} /\ Sent(chan, s) = {} /\ Ordered(chan, s)
  BY <1>1, NoRecords DEF InHand
<1>3. Line(0, {}, {}, {}, {}, {}) /\ Whole(0, {}, {}, {}, {}, {})
  BY DEF Line, Whole, Below
<1> QED BY <1>1, <1>2, <1>3, NoRecords, Zenon DEF Stage

LEMMA OrderInvariant == Spec => []OrderInv
<1>1. TypeOK /\ OrderInv /\ [Next]_vars => OrderInv'
  BY OrderStep
<1> QED BY <1>1, OrderInit, TypeCorrect, PTL DEF Spec

\* The records of a source keep their order on their way from the connector
\* through the channel, the cycle and the deferral behind a barrier, and none
\* is lost or applied twice unless a SQL cycle failed.
THEOREM RecordsInOrder == Spec => []InOrder
BY OrderInvImplies, OrderInvariant, PTL
=============================================================================
