----------------------- MODULE StreamingBarrierProofs -----------------------
(***************************************************************************)
(* Where the barriers of a source are on their way to the coordinator, for *)
(* any number of sources, any channel capacity and any value of the        *)
(* bounds.                                                                 *)
(***************************************************************************)
EXTENDS StreamingOrderProofs

-----------------------------------------------------------------------------
(* The barriers in a sequence of messages.                                 *)

Bars(q) == {q[i] : i \in {k \in 1 .. Len(q) : q[k].kind = "barrier"}}

AllBars(q) == \A i \in 1 .. Len(q) : q[i].kind = "barrier"

\* A barrier of source s is in q; one of the checkpoint id is.
HasBar(q, s) == \E b \in Bars(q) : b.src = s
HasId(q, s, id) == \E b \in Bars(q) : b.src = s /\ b.n = id

\* No barrier of s follows the one of checkpoint id.
IdLast(q, s, id) ==
    \A i, j \in 1 .. Len(q) :
      /\ i < j
      /\ q[i].kind = "barrier" /\ q[i].src = s
      /\ q[j].kind = "barrier" /\ q[j].src = s
      => q[i].n # id

\* A barrier divides the records of its source in q at its position.
Split(q) ==
    \A i, j \in 1 .. Len(q) :
      i < j /\ q[i].src = q[j].src =>
        /\ q[i].kind = "barrier" /\ q[j].kind = "batch" => q[i].at < q[j].n
        /\ q[i].kind = "batch" /\ q[j].kind = "barrier" => q[i].n <= q[j].at

AtMost(S, p) == \A n \in S : n <= p
Above(S, p) == \A n \in S : p < n

\* The places of a message appended to q, and of the ones behind its head.
LEMMA AppendPlaces ==
    ASSUME NEW q \in Seq(Msg), NEW m \in Msg
    PROVE  LET r == Append(q, m)
           IN  /\ r[Len(r)] = m
               /\ \A i \in 1 .. Len(q) : i \in 1 .. Len(r) /\ r[i] = q[i]
               /\ \A i \in 1 .. Len(r) : i \in 1 .. Len(q) \/ i = Len(r)
               /\ Len(r) \in 1 .. Len(r)
               /\ \A i, j \in 1 .. Len(r) : i < j => i \in 1 .. Len(q)
OBVIOUS

LEMMA TailPlaces ==
    ASSUME NEW q \in Seq(Msg), q # <<>>
    PROVE  LET r == Tail(q)
           IN  /\ q[1] = Head(q) /\ 1 \in 1 .. Len(q)
               /\ \A i \in 1 .. Len(r) : i + 1 \in 1 .. Len(q) /\ r[i] = q[i + 1] /\ 1 < i + 1
               /\ \A k \in 1 .. Len(q) : k = 1 \/ (k - 1 \in 1 .. Len(r) /\ r[k - 1] = q[k])
               /\ \A i, j \in 1 .. Len(r) : i < j => i + 1 < j + 1
<1> DEFINE r == Tail(q)
<1>1. /\ Len(q) \in Nat \ {0} /\ Len(r) = Len(q) - 1 /\ q[1] = Head(q)
      /\ \A i \in 1 .. Len(r) : r[i] = q[i + 1]
  OBVIOUS
<1> HIDE DEF r
<1>2. \A k \in 1 .. Len(q) : k = 1 \/ (k - 1 \in 1 .. Len(r) /\ (k - 1) + 1 = k)
  BY <1>1
<1> QED BY <1>1, <1>2 DEF r

LEMMA NoBars == Bars(<<>>) = {} /\ AllBars(<<>>)
BY DEF Bars, AllBars

\* A barrier, and a record, in q.
LEMMA BarsPlace ==
    ASSUME NEW q, NEW i \in 1 .. Len(q)
    PROVE  /\ q[i].kind = "barrier" => q[i] \in Bars(q)
           /\ \A s : q[i].kind = "batch" /\ q[i].src = s => q[i].n \in Sent(q, s)
BY Zenon DEF Bars, Sent

\* What sending message m does to the barriers.
LEMMA AppendBars ==
    ASSUME NEW q \in Seq(Msg), NEW m \in Msg
    PROVE  LET r == Append(q, m)
           IN  /\ Bars(r) = Bars(q) \union (IF m.kind = "barrier" THEN {m} ELSE {})
               /\ AllBars(q) /\ m.kind = "barrier" => AllBars(r)
               /\ \A s, id : IdLast(q, s, id) /\ (m.kind = "barrier" /\ m.src = s => ~HasId(q, s, id))
                               => IdLast(r, s, id)
<1> DEFINE r == Append(q, m)
<1>1. /\ r[Len(r)] = m
      /\ \A i \in 1 .. Len(q) : i \in 1 .. Len(r) /\ r[i] = q[i]
      /\ \A i \in 1 .. Len(r) : i \in 1 .. Len(q) \/ i = Len(r)
      /\ Len(r) \in 1 .. Len(r)
      /\ \A i, j \in 1 .. Len(r) : i < j => i \in 1 .. Len(q)
  BY AppendPlaces
<1> HIDE DEF r
<1>2. ASSUME NEW b \in Bars(r) PROVE b \in Bars(q) \/ (m.kind = "barrier" /\ b = m)
  <2>1. PICK i \in 1 .. Len(r) : b = r[i] /\ r[i].kind = "barrier"
    BY Zenon DEF Bars
  <2>2. CASE i \in 1 .. Len(q)
    BY <1>1, <2>1, <2>2, BarsPlace, Zenon
  <2>3. CASE i = Len(r)
    BY <1>1, <2>1, <2>3, Zenon
  <2> QED BY <1>1, <2>2, <2>3
<1>3. ASSUME NEW b \in Bars(q) PROVE b \in Bars(r)
  <2>1. PICK i \in 1 .. Len(q) : b = q[i] /\ q[i].kind = "barrier"
    BY Zenon DEF Bars
  <2> QED BY <1>1, <2>1, BarsPlace, Zenon
<1>4. m.kind = "barrier" => m \in Bars(r)
  BY <1>1, BarsPlace, Zenon
<1>5. Bars(r) = Bars(q) \union (IF m.kind = "barrier" THEN {m} ELSE {})
  BY <1>2, <1>3, <1>4, Zenon
<1>6. AllBars(q) /\ m.kind = "barrier" => AllBars(r)
  BY <1>1, Zenon DEF AllBars
<1>7. ASSUME NEW s, NEW id, IdLast(q, s, id), m.kind = "barrier" /\ m.src = s => ~HasId(q, s, id)
      PROVE  IdLast(r, s, id)
  <2> SUFFICES ASSUME NEW i \in 1 .. Len(r), NEW j \in 1 .. Len(r), i < j,
                      r[i].kind = "barrier", r[i].src = s, r[j].kind = "barrier", r[j].src = s
               PROVE  r[i].n # id
    BY Zenon DEF IdLast
  <2>1. i \in 1 .. Len(q) /\ r[i] = q[i]
    BY <1>1, <1>7, Zenon
  <2>2. CASE j \in 1 .. Len(q)
    <3>1. r[j] = q[j]
      BY <1>1, <2>2, Zenon
    <3> QED BY <1>7, <2>1, <2>2, <3>1, Zenon DEF IdLast
  <2>3. CASE j = Len(r)
    <3>1. q[i] \in Bars(q) /\ m.kind = "barrier" /\ m.src = s
      BY <1>1, <1>7, <2>1, <2>3, BarsPlace, Zenon
    <3> QED BY <1>7, <2>1, <3>1, Zenon DEF HasId
  <2> QED BY <1>1, <2>2, <2>3, Zenon
<1>8. \A s, id : IdLast(q, s, id) /\ (m.kind = "barrier" /\ m.src = s => ~HasId(q, s, id))
                   => IdLast(r, s, id)
  BY <1>7, Zenon
<1> QED BY <1>5, <1>6, <1>8, Zenon DEF r

\* What receiving the next message does to them.
LEMMA TailBars ==
    ASSUME NEW q \in Seq(Msg), q # <<>>
    PROVE  LET r == Tail(q)
               m == Head(q)
           IN  /\ Bars(q) = (IF m.kind = "barrier" THEN {m} ELSE {}) \union Bars(r)
               /\ AllBars(q) => AllBars(r) /\ m.kind = "barrier"
               /\ \A s, id : IdLast(q, s, id) =>
                    /\ IdLast(r, s, id)
                    /\ m.kind = "barrier" /\ m.src = s /\ m.n = id => ~HasBar(r, s)
<1> DEFINE r == Tail(q)
           m == Head(q)
<1>1. /\ q[1] = m /\ 1 \in 1 .. Len(q)
      /\ \A i \in 1 .. Len(r) : i + 1 \in 1 .. Len(q) /\ r[i] = q[i + 1] /\ 1 < i + 1
      /\ \A k \in 1 .. Len(q) : k = 1 \/ (k - 1 \in 1 .. Len(r) /\ r[k - 1] = q[k])
      /\ \A i, j \in 1 .. Len(r) : i < j => i + 1 < j + 1
  BY TailPlaces
<1> HIDE DEF r, m
<1>2. ASSUME NEW b \in Bars(q) PROVE b \in Bars(r) \/ (m.kind = "barrier" /\ b = m)
  <2>1. PICK k \in 1 .. Len(q) : b = q[k] /\ q[k].kind = "barrier"
    BY Zenon DEF Bars
  <2>2. CASE k = 1
    BY <1>1, <2>1, <2>2, Zenon
  <2>3. CASE k - 1 \in 1 .. Len(r) /\ r[k - 1] = q[k]
    BY <2>1, <2>3, BarsPlace, Zenon
  <2> QED BY <1>1, <2>2, <2>3, Zenon
<1>3. ASSUME NEW b \in Bars(r) PROVE b \in Bars(q)
  <2>1. PICK i \in 1 .. Len(r) : b = r[i] /\ r[i].kind = "barrier"
    BY Zenon DEF Bars
  <2> QED BY <1>1, <2>1, BarsPlace, Zenon
<1>4. m.kind = "barrier" => m \in Bars(q)
  BY <1>1, BarsPlace, Zenon
<1>5. Bars(q) = (IF m.kind = "barrier" THEN {m} ELSE {}) \union Bars(r)
  BY <1>2, <1>3, <1>4, Zenon
<1>6. AllBars(q) => AllBars(r) /\ m.kind = "barrier"
  BY <1>1, Zenon DEF AllBars
<1>7. ASSUME NEW s, NEW id, IdLast(q, s, id) PROVE IdLast(r, s, id)
  <2> SUFFICES ASSUME NEW i \in 1 .. Len(r), NEW j \in 1 .. Len(r), i < j,
                      r[i].kind = "barrier", r[i].src = s, r[j].kind = "barrier", r[j].src = s
               PROVE  r[i].n # id
    BY Zenon DEF IdLast
  <2>1. /\ i + 1 \in 1 .. Len(q) /\ j + 1 \in 1 .. Len(q) /\ i + 1 < j + 1
        /\ r[i] = q[i + 1] /\ r[j] = q[j + 1]
    BY <1>1, Zenon
  <2> QED BY <1>7, <2>1, Zenon DEF IdLast
<1>8. ASSUME NEW s, NEW id, IdLast(q, s, id), m.kind = "barrier", m.src = s, m.n = id
      PROVE  ~HasBar(r, s)
  <2> SUFFICES ASSUME NEW b \in Bars(r), b.src = s PROVE FALSE
    BY DEF HasBar
  <2>1. PICK i \in 1 .. Len(r) : b = r[i] /\ r[i].kind = "barrier"
    BY Zenon DEF Bars
  <2>2. i + 1 \in 1 .. Len(q) /\ q[i + 1] = b /\ 1 < i + 1
    BY <1>1, <2>1, Zenon
  <2> QED BY <1>1, <1>8, <2>1, <2>2, Zenon DEF IdLast
<1>9. \A s, id : IdLast(q, s, id) =>
        /\ IdLast(r, s, id)
        /\ m.kind = "barrier" /\ m.src = s /\ m.n = id => ~HasBar(r, s)
  BY <1>7, <1>8, Zenon
<1> QED BY <1>5, <1>6, <1>9, Zenon DEF r, m

\* The same for the division of the records by the barriers.
LEMMA AppendSplit ==
    ASSUME NEW q \in Seq(Msg), NEW m \in Msg, Split(q),
           m.kind = "batch" => \A b \in Bars(q) : b.src = m.src => b.at < m.n,
           m.kind = "barrier" => AtMost(Sent(q, m.src), m.at)
    PROVE  Split(Append(q, m))
<1> DEFINE r == Append(q, m)
<1>1. /\ r[Len(r)] = m
      /\ \A i \in 1 .. Len(q) : i \in 1 .. Len(r) /\ r[i] = q[i]
      /\ \A i \in 1 .. Len(r) : i \in 1 .. Len(q) \/ i = Len(r)
      /\ \A i, j \in 1 .. Len(r) : i < j => i \in 1 .. Len(q)
  BY AppendPlaces
<1> HIDE DEF r
<1> SUFFICES ASSUME NEW i \in 1 .. Len(r), NEW j \in 1 .. Len(r), i < j, r[i].src = r[j].src
             PROVE  /\ r[i].kind = "barrier" /\ r[j].kind = "batch" => r[i].at < r[j].n
                    /\ r[i].kind = "batch" /\ r[j].kind = "barrier" => r[i].n <= r[j].at
  BY Zenon DEF Split, r
<1>2. i \in 1 .. Len(q) /\ r[i] = q[i]
  BY <1>1, Zenon
<1>3. CASE j \in 1 .. Len(q)
  <2>1. r[j] = q[j]
    BY <1>1, <1>3, Zenon
  <2> QED BY <1>2, <1>3, <2>1, Zenon DEF Split
<1>4. CASE j = Len(r)
  <2>1. r[j] = m
    BY <1>1, <1>4
  <2>2. r[i].kind = "barrier" /\ m.kind = "batch" => r[i].at < m.n
    BY <1>2, <2>1, BarsPlace, Zenon
  <2>3. r[i].kind = "batch" /\ m.kind = "barrier" => r[i].n <= m.at
    BY <1>2, <2>1, BarsPlace, Zenon DEF AtMost
  <2> QED BY <2>1, <2>2, <2>3, Zenon
<1> QED BY <1>1, <1>3, <1>4, Zenon

LEMMA TailSplit ==
    ASSUME NEW q \in Seq(Msg), q # <<>>, Split(q)
    PROVE  LET r == Tail(q)
               m == Head(q)
           IN  /\ Split(r)
               /\ m.kind = "barrier" => Above(Sent(r, m.src), m.at)
               /\ m.kind = "batch" => \A b \in Bars(r) : b.src = m.src => m.n <= b.at
<1> DEFINE r == Tail(q)
           m == Head(q)
<1>1. /\ q[1] = m /\ 1 \in 1 .. Len(q)
      /\ \A i \in 1 .. Len(r) : i + 1 \in 1 .. Len(q) /\ r[i] = q[i + 1] /\ 1 < i + 1
      /\ \A i, j \in 1 .. Len(r) : i < j => i + 1 < j + 1
  BY TailPlaces
<1> HIDE DEF r, m
<1>2. Split(r)
  <2> SUFFICES ASSUME NEW i \in 1 .. Len(r), NEW j \in 1 .. Len(r), i < j, r[i].src = r[j].src
               PROVE  /\ r[i].kind = "barrier" /\ r[j].kind = "batch" => r[i].at < r[j].n
                      /\ r[i].kind = "batch" /\ r[j].kind = "barrier" => r[i].n <= r[j].at
    BY Zenon DEF Split
  <2>1. /\ i + 1 \in 1 .. Len(q) /\ j + 1 \in 1 .. Len(q) /\ i + 1 < j + 1
        /\ r[i] = q[i + 1] /\ r[j] = q[j + 1]
    BY <1>1, Zenon
  <2> QED BY <2>1, Zenon DEF Split
<1>3. ASSUME m.kind = "barrier", NEW n \in Sent(r, m.src) PROVE m.at < n
  <2>1. PICK i \in 1 .. Len(r) : n = r[i].n /\ r[i].kind = "batch" /\ r[i].src = m.src
    BY Zenon DEF Sent
  <2>2. i + 1 \in 1 .. Len(q) /\ r[i] = q[i + 1] /\ 1 < i + 1
    BY <1>1, Zenon
  <2> QED BY <1>1, <1>3, <2>1, <2>2, Zenon DEF Split
<1>4. ASSUME m.kind = "batch", NEW b \in Bars(r), b.src = m.src PROVE m.n <= b.at
  <2>1. PICK i \in 1 .. Len(r) : b = r[i] /\ r[i].kind = "barrier"
    BY Zenon DEF Bars
  <2>2. i + 1 \in 1 .. Len(q) /\ r[i] = q[i + 1] /\ 1 < i + 1
    BY <1>1, Zenon
  <2> QED BY <1>1, <1>4, <2>1, <2>2, Zenon DEF Split
<1> QED BY <1>2, <1>3, <1>4, Zenon DEF r, m, Above

-----------------------------------------------------------------------------
(* The invariants.                                                         *)

\* No barrier of source s waits in its injector or in its task.
Quiet(s) == inj[s] = 0 /\ spc[s] # "sendBarrier"

\* The barrier of the pending checkpoint is the last one of its source: where
\* it is, nothing follows it, and once it is aligned nothing is under way.
FlightOf(s, r, q) ==
    /\ IdLast(q, s, pending.id) /\ IdLast(r, s, pending.id)
    /\ HasId(q, s, pending.id) => Quiet(s)
    /\ HasId(r, s, pending.id) => Quiet(s) /\ ~HasBar(q, s)
    /\ s \in pending.aligned => Quiet(s) /\ ~HasBar(q, s) /\ ~HasBar(r, s)

\* The injector and the task of a source.
InTask(s) ==
    /\ inj[s] \in {0, pending.id}
    /\ spc[s] = "sendBarrier" /\ held[s] = pending.id => inj[s] = 0

FlightInv ==
    /\ AllBars(barriers)
    /\ \A s \in Sources : InTask(s) /\ FlightOf(s, barriers, chan)

\* Until an alignment is cancelled, every barrier under way is one of the
\* pending checkpoint.
Carried(b) == b.n = pending.id /\ pending.active

PromptTask(s) ==
    /\ spc[s] = "sendBarrier" => held[s] = pending.id /\ pending.active
    /\ inj[s] # 0 => pending.active

PromptInv ==
    timeouts = 0 =>
      /\ \A s \in Sources : PromptTask(s)
      /\ \A b \in Bars(chan) \union Bars(barriers) : Carried(b)

-----------------------------------------------------------------------------
(* Barriers under way.                                                     *)

\* The barriers of r are those of q and message m, if it is one.
Adds(q, m, r, s, id) ==
    /\ HasBar(r, s) <=> HasBar(q, s) \/ (m.kind = "barrier" /\ m.src = s)
    /\ HasId(r, s, id) <=> HasId(q, s, id) \/ (m.kind = "barrier" /\ m.src = s /\ m.n = id)

LEMMA AppendAdds ==
    ASSUME NEW q \in Seq(Msg), NEW m \in Msg, NEW s, NEW id
    PROVE  Adds(q, m, Append(q, m), s, id)
<1>1. Bars(Append(q, m)) = Bars(q) \union (IF m.kind = "barrier" THEN {m} ELSE {})
  BY AppendBars, Zenon
<1> QED BY <1>1, Zenon DEF Adds, HasBar, HasId

LEMMA TailAdds ==
    ASSUME NEW q \in Seq(Msg), q # <<>>, NEW s, NEW id
    PROVE  Adds(Tail(q), Head(q), q, s, id)
<1> DEFINE m == Head(q)
<1>1. Bars(q) = (IF m.kind = "barrier" THEN {m} ELSE {}) \union Bars(Tail(q))
  BY TailBars, Zenon
<1> HIDE DEF m
<1>2. Adds(Tail(q), m, q, s, id)
  BY <1>1, Zenon DEF Adds, HasBar, HasId
<1> QED BY <1>2 DEF m

\* A step that takes no barrier off the channel or the cycle.
LEMMA FlightKeeps ==
    ASSUME FlightInv, UNCHANGED <<chan, barriers>>,
           pending'.id = pending.id, pending'.aligned = pending.aligned,
           \A s \in Sources : (Quiet(s) => Quiet(s)') /\ InTask(s)'
    PROVE  FlightInv'
<1> SUFFICES ASSUME NEW s \in Sources PROVE InTask(s)' /\ FlightOf(s, barriers, chan)'
  BY Zenon DEF FlightInv
<1>1. FlightOf(s, barriers, chan) /\ (Quiet(s) => Quiet(s)')
  BY Zenon DEF FlightInv
<1> QED BY <1>1, Zenon DEF FlightOf

\* A source task sends a batch, or a barrier it had taken.
LEMMA FlightSend ==
    ASSUME TypeOK, FlightInv, NEW s \in Sources, NEW m \in Msg, m.src = s,
           chan' = Append(chan, m), UNCHANGED <<barriers, pending>>,
           \A x \in Sources : (Quiet(x) => Quiet(x)') /\ InTask(x)',
           m.kind = "barrier" => ~Quiet(s) /\ (m.n = pending.id => Quiet(s)')
    PROVE  FlightInv'
<1> SUFFICES ASSUME NEW x \in Sources PROVE InTask(x)' /\ FlightOf(x, barriers, chan)'
  BY Zenon DEF FlightInv
<1> DEFINE id == pending.id
           mine == m.kind = "barrier" /\ m.src = x
<1>1. /\ FlightOf(x, barriers, chan) /\ (Quiet(x) => Quiet(x)')
      /\ mine => ~Quiet(x) /\ (m.n = id => Quiet(x)')
  BY Zenon DEF FlightInv
<1>2. chan \in Seq(Msg)
  BY DEF TypeOK
<1>3. Adds(chan, m, chan', x, id)
  BY <1>2, AppendAdds, Zenon
<1>4. IdLast(chan, x, id) /\ (mine => ~HasId(chan, x, id)) => IdLast(chan', x, id)
  BY <1>2, AppendBars, Zenon
<1>5. mine => ~HasId(chan, x, id) /\ ~HasId(barriers, x, id) /\ x \notin pending.aligned
  BY <1>1, Zenon DEF FlightOf
<1>6. FlightOf(x, barriers, chan)'
  BY <1>1, <1>3, <1>4, <1>5, Zenon DEF FlightOf, Adds
<1> QED BY <1>6

\* The coordinator receives the next message into cycle c.
LEMMA FlightTake ==
    ASSUME TypeOK, chan # <<>>, NEW c \in Cycle,
           NEW s \in Sources, FlightOf(s, c.r, chan)
    PROVE  LET d == ProcessMsg(c, Head(chan))
           IN  FlightOf(s, d.r, Tail(chan))
<1> DEFINE id == pending.id
           m == Head(chan)
           d == ProcessMsg(c, m)
           t == Tail(chan)
           mine == m.kind = "barrier" /\ m.src = s
<1>1. chan \in Seq(Msg) /\ m \in Msg /\ c.r \in Seq(Msg)
  BY HeadTailType DEF TypeOK, Cycle
<1>2. d.r = IF m.kind = "barrier" THEN Append(c.r, m) ELSE c.r
  BY <1>1, ProcessMsgBarriers, Zenon
<1>3. Adds(t, m, chan, s, id)
  BY <1>1, TailAdds, Zenon
<1>4. IdLast(chan, s, id) => IdLast(t, s, id) /\ (mine /\ m.n = id => ~HasBar(t, s))
  BY <1>1, TailBars, Zenon
<1>5. Adds(c.r, m, Append(c.r, m), s, id)
  BY <1>1, AppendAdds, Zenon
<1>6. IdLast(c.r, s, id) /\ (mine => ~HasId(c.r, s, id)) => IdLast(Append(c.r, m), s, id)
  BY <1>1, AppendBars, Zenon
<1> HIDE DEF m, t, d
<1>8. CASE m.kind = "barrier"
  <2>1. d.r = Append(c.r, m)
    BY <1>2, <1>8
  <2> DEFINE r == Append(c.r, m)
  <2>2. Adds(c.r, m, r, s, id) /\ (IdLast(c.r, s, id) /\ (mine => ~HasId(c.r, s, id)) => IdLast(r, s, id))
    BY <1>5, <1>6
  <2> HIDE DEF r
  <2>3. FlightOf(s, r, t)
    BY <1>3, <1>4, <2>2, Zenon DEF FlightOf, Adds
  <2> QED BY <2>1, <2>3, Zenon DEF r, d, m, t
<1>9. CASE m.kind # "barrier"
  <2>1. d.r = c.r /\ ~mine
    BY <1>2, <1>9
  <2>2. FlightOf(s, c.r, t)
    BY <1>3, <1>4, <2>1, Zenon DEF FlightOf, Adds
  <2> QED BY <2>1, <2>2, Zenon DEF d, m, t
<1> QED BY <1>8, <1>9

LEMMA FlightTakeBars ==
    ASSUME TypeOK, chan # <<>>, NEW c \in Cycle, AllBars(c.r)
    PROVE  AllBars(ProcessMsg(c, Head(chan)).r)
<1>1. Head(chan) \in Msg /\ c.r \in Seq(Msg)
  BY HeadTailType DEF TypeOK, Cycle
<1> QED BY <1>1, ProcessMsgBarriers, AppendBars, Zenon

LEMMA FlightFresh ==
    ASSUME FlightInv, NEW s \in Sources
    PROVE  AllBars(<<>>) /\ FlightOf(s, <<>>, chan)
<1>1. IdLast(<<>>, s, pending.id) /\ ~HasBar(<<>>, s) /\ ~HasId(<<>>, s, pending.id)
  BY NoBars DEF IdLast, HasBar, HasId
<1> QED BY <1>1, NoBars, Zenon DEF FlightInv, FlightOf

LEMMA FlightCycle ==
    ASSUME FlightInv, NEW c, SetCycle(c), AllBars(c.r),
           UNCHANGED <<inj, spc, held, pending>>,
           \A s \in Sources : FlightOf(s, c.r, chan')
    PROVE  FlightInv'
<1> SUFFICES ASSUME NEW s \in Sources PROVE InTask(s)' /\ FlightOf(s, barriers, chan)'
  BY Zenon DEF FlightInv, SetCycle
<1>1. InTask(s) /\ barriers' = c.r /\ FlightOf(s, c.r, chan')
  BY Zenon DEF FlightInv, SetCycle
<1>2. InTask(s)'
  BY <1>1 DEF InTask
<1>3. FlightOf(s, barriers, chan)'
  BY <1>1, Zenon DEF FlightOf, Quiet
<1> QED BY <1>1, <1>2, <1>3

\* No barrier under way carries an id that was not used yet.
LEMMA NoNextId ==
    ASSUME TypeOK, FreshInv, AllBars(barriers), NEW s \in Sources
    PROVE  /\ IdLast(chan, s, nextId) /\ ~HasId(chan, s, nextId)
           /\ IdLast(barriers, s, nextId) /\ ~HasId(barriers, s, nextId)
<1>1. pending.id \in Nat /\ nextId = pending.id + 1
  BY DEF TypeOK, PendingBarrier, FreshInv
<1>2. /\ \A i \in 1 .. Len(chan) : chan[i].n \in Nat
      /\ \A i \in 1 .. Len(barriers) : barriers[i].n \in Nat
  <2>1. chan \in Seq(Msg) /\ barriers \in Seq(Msg) /\ \A m \in Msg : m.n \in Nat
    BY DEF TypeOK, Msg
  <2> QED BY <2>1
<1>3. /\ \A i \in 1 .. Len(chan) : chan[i].kind = "barrier" => chan[i].n <= pending.id
      /\ \A i \in 1 .. Len(barriers) : barriers[i].n <= pending.id
  BY Zenon DEF FreshInv, FreshBarrier
<1>4. /\ \A i \in 1 .. Len(chan) : chan[i].kind = "barrier" => chan[i].n # nextId
      /\ \A i \in 1 .. Len(barriers) : barriers[i].n # nextId
  BY <1>1, <1>2, <1>3, SMT
<1> QED BY <1>4, Zenon DEF IdLast, HasId, Bars

LEMMA BarsType ==
    ASSUME NEW q \in Seq(Msg), NEW b \in Bars(q)
    PROVE  b \in Msg /\ b.src \in Sources /\ b.at \in Nat /\ b.n \in Nat /\ b.kind = "barrier"
<1>1. PICK i \in 1 .. Len(q) : b = q[i] /\ q[i].kind = "barrier"
  BY Zenon DEF Bars
<1>2. b \in Msg
  BY <1>1
<1> QED BY <1>1, <1>2 DEF Msg

\* What handle_barrier does to the pending alignment and to the checkpoint.
LEMMA Recorded ==
    ASSUME TypeOK, HandleBarrier
    PROVE  LET b == Head(barriers)
           IN  /\ pending'.id = pending.id
               /\ \/ ~Matches(b) /\ pending' = pending /\ last' = last
                  \/ /\ Matches(b)
                     /\ pending'.aligned = pending.aligned \union {b.src}
                     /\ pending'.offs = [pending.offs EXCEPT ![b.src] = watch[b.src]]
                     /\ pending'.cut = [pending.cut EXCEPT ![b.src] = b.at]
                     /\ pending'.active = pending.active \/ pending'.aligned = Sources
                     /\ \/ last' = last
                        \/ /\ pending'.aligned = Sources
                           /\ last'.offs = pending'.offs /\ last'.cut = pending'.cut
                           /\ last'.snap = applied /\ last'.sameCycle = seen
<1> DEFINE b == Head(barriers)
           p == Record(b)
           e == [p EXCEPT !.active = FALSE]
<1>1. /\ p.id = pending.id /\ p.active = pending.active
      /\ p.aligned = pending.aligned \union {b.src}
      /\ p.offs = [pending.offs EXCEPT ![b.src] = watch[b.src]]
      /\ p.cut = [pending.cut EXCEPT ![b.src] = b.at]
      /\ e.id = p.id /\ e.aligned = p.aligned /\ e.offs = p.offs /\ e.cut = p.cut
  BY DEF Record, TypeOK, PendingBarrier
<1>2. /\ Completed(p).offs = p.offs /\ Completed(p).cut = p.cut
      /\ Completed(p).snap = applied /\ Completed(p).sameCycle = seen
  BY DEF Completed
<1>3. \/ ~Matches(b) /\ pending' = pending /\ last' = last
      \/ Matches(b) /\ p.aligned # Sources /\ pending' = p /\ last' = last
      \/ /\ Matches(b) /\ p.aligned = Sources /\ pending' = e
         /\ last' = last \/ last' = Completed(p)
  BY Zenon DEF HandleBarrier
<1> HIDE DEF b, p, e
<1>4. CASE ~Matches(b) /\ pending' = pending /\ last' = last
  BY <1>4 DEF b
<1>5. CASE Matches(b) /\ p.aligned # Sources /\ pending' = p /\ last' = last
  BY <1>1, <1>5, Zenon DEF b
<1>6. CASE /\ Matches(b) /\ p.aligned = Sources /\ pending' = e
           /\ last' = last \/ last' = Completed(p)
  BY <1>1, <1>2, <1>6, Zenon DEF b
<1> QED BY <1>3, <1>4, <1>5, <1>6

LEMMA FlightStep ==
    ASSUME TypeOK, FreshInv, FlightInv, [Next]_vars
    PROVE  FlightInv'
<1>1. ASSUME UNCHANGED <<inj, spc, held, chan, barriers>>,
             pending'.id = pending.id, pending'.aligned = pending.aligned
      PROVE  FlightInv'
  <2>1. \A x \in Sources : (Quiet(x) => Quiet(x)') /\ InTask(x)'
    BY <1>1, Zenon DEF FlightInv, InTask, Quiet
  <2> QED BY <1>1, <2>1, FlightKeeps, Zenon
<1>2. ASSUME NEW s \in Sources, PollBatch(s) \/ PollNone(s) \/ StopSource(s)
      PROVE  FlightInv'
  <2>1. /\ UNCHANGED <<inj, held, chan, barriers, pending>> /\ DOMAIN spc = Sources
        /\ \E w \in {"sendBatch", "pollBarrier", "stopped"} : spc' = [spc EXCEPT ![s] = w]
    BY <1>2 DEF PollBatch, PollNone, StopSource, cycleVars, TypeOK
  <2>2. \A x \in Sources : spc'[x] = "sendBarrier" => spc[x] = "sendBarrier"
    BY <2>1
  <2>3. \A x \in Sources : (Quiet(x) => Quiet(x)') /\ InTask(x)'
    BY <2>1, <2>2, Zenon DEF FlightInv, InTask, Quiet
  <2> QED BY <2>1, <2>3, FlightKeeps, Zenon
<1>3. ASSUME NEW s \in Sources, PollBarrier(s) PROVE FlightInv'
  <2>1. UNCHANGED <<chan, barriers, pending>>
    BY <1>3 DEF PollBarrier, cycleVars
  <2>2. CASE inj[s] = 0
    <3>1. UNCHANGED <<inj, held>> /\ spc' = [spc EXCEPT ![s] = "poll"] /\ DOMAIN spc = Sources
      BY <1>3, <2>2 DEF PollBarrier, TypeOK
    <3>2. \A x \in Sources : spc'[x] = "sendBarrier" => spc[x] = "sendBarrier"
      BY <3>1
    <3>3. \A x \in Sources : (Quiet(x) => Quiet(x)') /\ InTask(x)'
      BY <2>1, <3>1, <3>2, Zenon DEF FlightInv, InTask, Quiet
    <3> QED BY <2>1, <3>3, FlightKeeps, Zenon
  <2>3. CASE inj[s] # 0
    <3>1. /\ inj'[s] = 0
          /\ \A x \in Sources \ {s} : inj'[x] = inj[x] /\ spc'[x] = spc[x] /\ held'[x] = held[x]
      BY <1>3, <2>3 DEF PollBarrier, TypeOK
    <3>2. ASSUME NEW x \in Sources PROVE (Quiet(x) => Quiet(x)') /\ InTask(x)'
      <4>1. CASE x = s
        BY <2>3, <3>1, <4>1 DEF Quiet, InTask
      <4>2. CASE x # s
        BY <2>1, <3>1, <4>2, Zenon DEF FlightInv, InTask, Quiet
      <4> QED BY <4>1, <4>2
    <3> QED BY <2>1, <3>2, FlightKeeps, Zenon
  <2> QED BY <2>2, <2>3
<1>4. ASSUME NEW s \in Sources, SendBatch(s) PROVE FlightInv'
  <2> DEFINE m == Batch(s, pos[s])
  <2>1. /\ UNCHANGED <<inj, held, barriers, pending>> /\ chan' = Append(chan, m)
        /\ spc' = [spc EXCEPT ![s] = "pollBarrier"] /\ DOMAIN spc = Sources /\ pos[s] \in Nat
    BY <1>4 DEF SendBatch, cycleVars, TypeOK
  <2>2. \A x \in Sources : spc'[x] = "sendBarrier" => spc[x] = "sendBarrier"
    BY <2>1
  <2>3. \A x \in Sources : (Quiet(x) => Quiet(x)') /\ InTask(x)'
    BY <2>1, <2>2, Zenon DEF FlightInv, InTask, Quiet
  <2>4. m \in Msg /\ m.kind # "barrier" /\ m.src = s
    BY <2>1 DEF Batch, Msg
  <2> HIDE DEF m
  <2> QED BY <2>1, <2>3, <2>4, FlightSend, Zenon
<1>5. ASSUME NEW s \in Sources, SendBarrier(s) PROVE FlightInv'
  <2> DEFINE m == Barrier(s, held[s], pos[s])
  <2>1. /\ UNCHANGED <<inj, barriers, pending>> /\ chan' = Append(chan, m)
        /\ spc[s] = "sendBarrier" /\ spc'[s] = "poll"
        /\ \A x \in Sources \ {s} : spc'[x] = spc[x] /\ held'[x] = held[x]
        /\ pos[s] \in Nat /\ held[s] \in Nat
    BY <1>5 DEF SendBarrier, cycleVars, TypeOK
  <2>2. m \in Msg /\ m.kind = "barrier" /\ m.src = s /\ m.n = held[s]
    BY <2>1 DEF Barrier, Msg
  <2>3. ASSUME NEW x \in Sources PROVE (Quiet(x) => Quiet(x)') /\ InTask(x)'
    <3>1. InTask(x)
      BY Zenon DEF FlightInv
    <3>2. CASE x = s
      BY <2>1, <3>1, <3>2 DEF InTask, Quiet
    <3>3. CASE x # s
      BY <2>1, <3>1, <3>3, Zenon DEF InTask, Quiet
    <3> QED BY <3>2, <3>3
  <2>4. ~Quiet(s) /\ (m.n = pending.id => Quiet(s)')
    <3>1. InTask(s)
      BY Zenon DEF FlightInv
    <3> QED BY <2>1, <2>2, <3>1 DEF InTask, Quiet
  <2> HIDE DEF m
  <2> QED BY <2>1, <2>2, <2>3, <2>4, FlightSend, Zenon
<1>6. CASE Recv
  <2>1. /\ UNCHANGED <<inj, spc, held, pending>> /\ chan # <<>> /\ chan' = Tail(chan)
        /\ SetCycle(ProcessMsg(FreshCycle, Head(chan)))
    BY <1>6 DEF Recv, sourceVars
  <2>2. FreshCycle \in Cycle /\ FreshCycle.r = <<>>
    BY ConstantTypes, SMTT(30) DEF FreshCycle, Cycle, TypeOK
  <2>3. \A s \in Sources : AllBars(FreshCycle.r) /\ FlightOf(s, FreshCycle.r, chan)
    BY <2>2, FlightFresh, Zenon
  <2>4. AllBars(FreshCycle.r)
    BY <2>2, NoBars, Zenon
  <2> QED BY <2>1, <2>2, <2>3, <2>4, FlightTake, FlightTakeBars, FlightCycle, Zenon
<1>7. CASE Idle
  <2>1. UNCHANGED <<inj, spc, held, pending, chan>> /\ SetCycle(FreshCycle) /\ FreshCycle.r = <<>>
    BY <1>7 DEF Idle, sourceVars, FreshCycle
  <2>2. AllBars(FreshCycle.r) /\ \A s \in Sources : FlightOf(s, FreshCycle.r, chan')
    BY <2>1, NoBars, FlightFresh, Zenon
  <2> QED BY <2>1, <2>2, FlightCycle, Zenon
<1>8. CASE Drain
  <2>1. /\ UNCHANGED <<inj, spc, held, pending>> /\ chan # <<>> /\ chan' = Tail(chan)
        /\ SetCycle(ProcessMsg(ThisCycle, Head(chan)))
    BY <1>8 DEF Drain, sourceVars
  <2>2. ThisCycle \in Cycle /\ ThisCycle.r = barriers
    BY DEF ThisCycle, Cycle, TypeOK
  <2>3. AllBars(ThisCycle.r) /\ \A s \in Sources : FlightOf(s, ThisCycle.r, chan)
    BY <2>2, Zenon DEF FlightInv
  <2> QED BY <2>1, <2>2, <2>3, FlightTake, FlightTakeBars, FlightCycle, Zenon
<1>9. CASE HandleBarrier
  <2> DEFINE b == Head(barriers)
             t == Tail(barriers)
             id == pending.id
  <2>1. /\ UNCHANGED <<inj, spc, held, chan>> /\ barriers # <<>> /\ barriers' = t
        /\ barriers \in Seq(Msg)
    BY <1>9 DEF HandleBarrier, sourceVars, TypeOK
  <2>2. /\ pending'.id = id
        /\ \/ pending'.aligned = pending.aligned
           \/ pending'.aligned = pending.aligned \union {b.src} /\ b.n = id
    BY <1>9, Recorded, Zenon DEF Matches
  <2>3. AllBars(t) /\ b.kind = "barrier"
    BY <2>1, TailBars, Zenon DEF FlightInv
  <2> HIDE DEF b, t
  <2>4. ASSUME NEW s \in Sources PROVE InTask(s)' /\ FlightOf(s, barriers, chan)'
    <3>1. InTask(s) /\ FlightOf(s, barriers, chan)
      BY Zenon DEF FlightInv
    <3>2. Adds(t, b, barriers, s, id)
      BY <2>1, TailAdds, Zenon DEF b, t
    <3>3. IdLast(barriers, s, id) => IdLast(t, s, id) /\ (b.src = s /\ b.n = id => ~HasBar(t, s))
      BY <2>1, <2>3, TailBars, Zenon DEF b, t
    <3>4. InTask(s)'
      BY <2>1, <2>2, <3>1, Zenon DEF InTask
    <3>5. s \in pending'.aligned => s \in pending.aligned \/ (b.src = s /\ b.n = id)
      BY <2>2, Zenon
    <3>6. Quiet(s) => Quiet(s)'
      BY <2>1 DEF Quiet
    <3>7. FlightOf(s, barriers, chan)'
      BY <2>1, <2>2, <2>3, <3>1, <3>2, <3>3, <3>5, <3>6, Zenon DEF FlightOf, Adds
    <3> QED BY <3>4, <3>7
  <2> QED BY <2>1, <2>3, <2>4, Zenon DEF FlightInv
<1>10. CASE Trigger
  <2>1. /\ UNCHANGED <<spc, held, chan, barriers>> /\ inj' = [s \in Sources |-> nextId]
        /\ pending'.id = nextId /\ pending'.aligned = {}
    BY <1>10 DEF Trigger, Reset, sourceVars, cycleVars
  <2>2. AllBars(barriers)
    BY DEF FlightInv
  <2>3. ASSUME NEW s \in Sources PROVE InTask(s)' /\ FlightOf(s, barriers, chan)'
    <3>1. held[s] \in Nat /\ held[s] <= pending.id /\ pending.id \in Nat /\ nextId = pending.id + 1
      BY DEF TypeOK, FreshInv, PendingBarrier
    <3>2. held[s] # nextId
      BY <3>1
    <3>3. InTask(s)'
      BY <2>1, <3>2 DEF InTask
    <3>4. FlightOf(s, barriers, chan)'
      BY <2>1, <2>2, NoNextId, Zenon DEF FlightOf
    <3> QED BY <3>3, <3>4
  <2> QED BY <2>1, <2>2, <2>3, Zenon DEF FlightInv
<1>11. CASE BarrierTimeout
  BY <1>1, <1>11 DEF BarrierTimeout, sourceVars, cycleVars, TypeOK, PendingBarrier
<1>12. ASSUME NEW s \in Sources, RequestCheckpoint(s) PROVE FlightInv'
  BY <1>1, <1>12 DEF RequestCheckpoint, sourceVars, cycleVars
<1>13. CASE EndDrain \/ ExecuteCycle \/ CycleError \/ EndBarriers \/ SkipCheckpoint
  BY <1>1, <1>13
     DEF EndDrain, ExecuteCycle, CycleError, EndBarriers, SkipCheckpoint, sourceVars, cycleVars
<1>14. CASE EndCycle \/ Leave \/ Join \/ Shutdown
  BY <1>1, <1>14 DEF EndCycle, Leave, Join, Shutdown, sourceVars, cycleVars
<1>15. CASE UNCHANGED vars
  BY <1>1, <1>15 DEF vars
<1> QED
  BY <1>2, <1>3, <1>4, <1>5, <1>6, <1>7, <1>8, <1>9, <1>10, <1>11, <1>12, <1>13, <1>14, <1>15
     DEF Next, SourceStep, CoordinatorStep, Returned, TriggerOnInterval, TriggerOnRequest

\* Receiving a message moves a barrier from the channel to the cycle.
LEMMA TakeMoves ==
    ASSUME TypeOK, chan # <<>>, NEW c \in Cycle
    PROVE  Bars(Tail(chan)) \union Bars(ProcessMsg(c, Head(chan)).r) \subseteq Bars(chan) \union Bars(c.r)
<1> DEFINE m == Head(chan)
           d == ProcessMsg(c, m)
<1>1. chan \in Seq(Msg) /\ m \in Msg /\ c.r \in Seq(Msg)
  BY HeadTailType DEF TypeOK, Cycle
<1>2. d.r = IF m.kind = "barrier" THEN Append(c.r, m) ELSE c.r
  BY <1>1, ProcessMsgBarriers, Zenon
<1>3. Bars(chan) = (IF m.kind = "barrier" THEN {m} ELSE {}) \union Bars(Tail(chan))
  BY <1>1, TailBars, Zenon
<1>4. Bars(Append(c.r, m)) = Bars(c.r) \union (IF m.kind = "barrier" THEN {m} ELSE {})
  BY <1>1, AppendBars, Zenon
<1> HIDE DEF m, d
<1>5. Bars(Tail(chan)) \union Bars(d.r) \subseteq Bars(chan) \union Bars(c.r)
  <2>1. CASE m.kind = "barrier"
    <3>1. /\ Bars(d.r) = Bars(c.r) \union {m} /\ Bars(chan) = {m} \union Bars(Tail(chan))
      BY <1>2, <1>3, <1>4, <2>1
    <3> QED BY <3>1, Zenon
  <2>2. CASE m.kind # "barrier"
    <3>1. /\ Bars(d.r) = Bars(c.r) /\ Bars(chan) = Bars(Tail(chan))
      BY <1>2, <1>3, <2>2
    <3> QED BY <3>1, Zenon
  <2> QED BY <2>1, <2>2
<1> QED BY <1>5 DEF d, m

LEMMA PromptStep ==
    ASSUME TypeOK, FlightInv, FlightInv', PromptInv, [Next]_vars
    PROVE  PromptInv'
<1>1. ASSUME UNCHANGED <<inj, spc, held, pending, timeouts>>,
             Bars(chan') \union Bars(barriers') \subseteq Bars(chan) \union Bars(barriers)
      PROVE  PromptInv'
  BY <1>1, Zenon DEF PromptInv, PromptTask, Carried
<1>2. ASSUME NEW s \in Sources, PollBatch(s) \/ PollNone(s) \/ StopSource(s) \/ SendBatch(s)
      PROVE  PromptInv'
  <2>1. /\ UNCHANGED <<inj, held, barriers, pending, timeouts>> /\ DOMAIN spc = Sources
        /\ \E w \in {"sendBatch", "pollBarrier", "stopped"} : spc' = [spc EXCEPT ![s] = w]
        /\ chan' \in {chan, Append(chan, Batch(s, pos[s]))} /\ chan \in Seq(Msg) /\ pos[s] \in Nat
    BY <1>2 DEF PollBatch, PollNone, StopSource, SendBatch, cycleVars, boundVars, TypeOK
  <2>2. Batch(s, pos[s]) \in Msg /\ Batch(s, pos[s]).kind # "barrier"
    BY <2>1 DEF Batch, Msg
  <2>3. Bars(Append(chan, Batch(s, pos[s]))) = Bars(chan) \union {}
    BY <2>1, <2>2, AppendBars, Zenon
  <2>4. Bars(chan') = Bars(chan)
    BY <2>1, <2>3, Zenon
  <2>5. \A x \in Sources : spc'[x] = "sendBarrier" => spc[x] = "sendBarrier"
    BY <2>1
  <2> QED BY <2>1, <2>4, <2>5, Zenon DEF PromptInv, PromptTask, Carried
<1>3. ASSUME NEW s \in Sources, PollBarrier(s) PROVE PromptInv'
  <2>1. UNCHANGED <<chan, barriers, pending, timeouts>>
    BY <1>3 DEF PollBarrier, cycleVars, boundVars
  <2>2. ASSUME NEW x \in Sources, PromptTask(x) PROVE PromptTask(x)'
    <3>1. InTask(s) /\ pending.id \in Nat
      BY Zenon DEF FlightInv, TypeOK, PendingBarrier
    <3>2. CASE x # s
      <4>1. inj'[x] = inj[x] /\ spc'[x] = spc[x] /\ held'[x] = held[x]
        BY <1>3, <3>2 DEF PollBarrier, TypeOK
      <4> QED BY <2>1, <2>2, <4>1, Zenon DEF PromptTask, Carried
    <3>3. CASE x = s /\ inj[s] = 0
      <4>1. inj'[s] = 0 /\ spc'[s] = "poll"
        BY <1>3, <3>3 DEF PollBarrier, TypeOK
      <4> QED BY <3>3, <4>1 DEF PromptTask
    <3>4. CASE x = s /\ inj[s] # 0
      <4>1. inj'[s] = 0 /\ held'[s] = inj[s]
        BY <1>3, <3>4 DEF PollBarrier, TypeOK
      <4>2. inj[s] = pending.id /\ pending.active
        BY <2>2, <3>1, <3>4, Zenon DEF InTask, PromptTask
      <4> QED BY <2>1, <3>4, <4>1, <4>2 DEF PromptTask
    <3> QED BY <3>2, <3>3, <3>4
  <2> QED BY <2>1, <2>2, Zenon DEF PromptInv, Carried
<1>4. ASSUME NEW s \in Sources, SendBarrier(s) PROVE PromptInv'
  <2> DEFINE m == Barrier(s, held[s], pos[s])
  <2>1. /\ UNCHANGED <<inj, barriers, pending, timeouts>> /\ chan' = Append(chan, m)
        /\ spc[s] = "sendBarrier" /\ spc'[s] = "poll"
        /\ \A x \in Sources \ {s} : spc'[x] = spc[x] /\ held'[x] = held[x]
        /\ chan \in Seq(Msg) /\ pos[s] \in Nat /\ held[s] \in Nat
    BY <1>4 DEF SendBarrier, cycleVars, boundVars, TypeOK
  <2>2. m \in Msg /\ m.kind = "barrier" /\ m.n = held[s]
    BY <2>1 DEF Barrier, Msg
  <2> HIDE DEF m
  <2>3. Bars(chan') = Bars(chan) \union {m}
    BY <2>1, <2>2, AppendBars
  <2>4. ASSUME NEW x \in Sources, PromptTask(x) PROVE PromptTask(x)'
    <3>1. CASE x = s
      BY <2>1, <2>4, <3>1 DEF PromptTask
    <3>2. CASE x # s
      BY <2>1, <2>4, <3>2, Zenon DEF PromptTask
    <3> QED BY <3>1, <3>2
  <2>5. timeouts = 0 => m.n = pending.id /\ pending.active
    BY <2>1, <2>2, Zenon DEF PromptInv, PromptTask
  <2> QED BY <2>1, <2>3, <2>4, <2>5, Zenon DEF PromptInv, Carried
<1>5. CASE Recv
  <2>1. /\ UNCHANGED <<inj, spc, held, pending, timeouts>> /\ chan # <<>> /\ chan' = Tail(chan)
        /\ barriers' = ProcessMsg(FreshCycle, Head(chan)).r
    BY <1>5 DEF Recv, sourceVars, boundVars, SetCycle
  <2>2. FreshCycle \in Cycle /\ FreshCycle.r = <<>>
    BY ConstantTypes, SMTT(30) DEF FreshCycle, Cycle, TypeOK
  <2>3. Bars(chan') \union Bars(barriers') \subseteq Bars(chan) \union Bars(FreshCycle.r)
    BY <2>1, <2>2, TakeMoves
  <2>4. Bars(FreshCycle.r) = {}
    BY <2>2, NoBars
  <2>5. Bars(chan') \union Bars(barriers') \subseteq Bars(chan) \union Bars(barriers)
    BY <2>3, <2>4, Zenon
  <2> QED BY <1>1, <2>1, <2>5
<1>6. CASE Idle
  <2>1. UNCHANGED <<inj, spc, held, pending, timeouts, chan>> /\ barriers' = <<>>
    BY <1>6 DEF Idle, sourceVars, boundVars, SetCycle, FreshCycle
  <2> QED BY <1>1, <2>1, NoBars
<1>7. CASE Drain
  <2>1. /\ UNCHANGED <<inj, spc, held, pending, timeouts>> /\ chan # <<>> /\ chan' = Tail(chan)
        /\ barriers' = ProcessMsg(ThisCycle, Head(chan)).r
    BY <1>7 DEF Drain, sourceVars, boundVars, SetCycle
  <2>2. ThisCycle \in Cycle /\ ThisCycle.r = barriers
    BY DEF ThisCycle, Cycle, TypeOK
  <2>3. Bars(chan') \union Bars(barriers') \subseteq Bars(chan) \union Bars(barriers)
    BY <2>1, <2>2, TakeMoves
  <2> QED BY <1>1, <2>1, <2>3
<1>8. CASE HandleBarrier
  <2>1. /\ UNCHANGED <<inj, spc, held, chan, timeouts>> /\ barriers # <<>> /\ barriers' = Tail(barriers)
        /\ barriers \in Seq(Msg) /\ chan \in Seq(Msg)
    BY <1>8 DEF HandleBarrier, sourceVars, boundVars, TypeOK
  <2>2. Bars(barriers') \subseteq Bars(barriers) /\ barriers' \in Seq(Msg)
    <3>1. Bars(barriers) = (IF Head(barriers).kind = "barrier" THEN {Head(barriers)} ELSE {})
                             \union Bars(barriers')
      BY <2>1, TailBars
    <3> QED BY <2>1, <3>1
  <2>3. pending'.id = pending.id /\ (pending'.active = pending.active \/ pending'.aligned = Sources)
    BY <1>8, Recorded, Zenon
  <2>4. CASE pending'.active = pending.active
    BY <2>1, <2>2, <2>3, <2>4, Zenon DEF PromptInv, PromptTask, Carried
  <2>5. CASE pending'.aligned = Sources
    <3>1. \A s \in Sources : Quiet(s)' /\ ~HasBar(chan', s) /\ ~HasBar(barriers', s)
      BY <2>5, Zenon DEF FlightInv, FlightOf
    <3>2. \A b \in Bars(chan') \union Bars(barriers') : b.src \in Sources
      BY <2>1, <2>2, BarsType
    <3> QED BY <3>1, <3>2, Zenon DEF PromptInv, PromptTask, Carried, Quiet, HasBar
  <2> QED BY <2>3, <2>4, <2>5
<1>9. CASE Trigger
  <2>1. /\ UNCHANGED <<spc, held, chan, barriers, timeouts>> /\ ~pending.active
        /\ pending'.active
    BY <1>9 DEF Trigger, Reset, sourceVars, cycleVars, boundVars
  <2>2. timeouts = 0 => /\ \A s \in Sources : spc[s] # "sendBarrier"
                        /\ Bars(chan) \union Bars(barriers) = {}
    BY <2>1, Zenon DEF PromptInv, PromptTask, Carried
  <2> QED BY <2>1, <2>2, Zenon DEF PromptInv, PromptTask, Carried
<1>10. CASE BarrierTimeout
  <2>1. timeouts' # 0
    BY <1>10 DEF BarrierTimeout, TypeOK
  <2> QED BY <2>1 DEF PromptInv
<1>11. ASSUME UNCHANGED <<inj, spc, held, pending, timeouts, chan, barriers>> PROVE PromptInv'
  BY <1>1, <1>11
<1>12. ASSUME NEW s \in Sources, RequestCheckpoint(s) PROVE PromptInv'
  BY <1>11, <1>12 DEF RequestCheckpoint, sourceVars, cycleVars
<1>13. CASE EndDrain \/ ExecuteCycle \/ CycleError \/ EndBarriers \/ SkipCheckpoint
  BY <1>11, <1>13
     DEF EndDrain, ExecuteCycle, CycleError, EndBarriers, SkipCheckpoint, sourceVars, cycleVars, boundVars
<1>14. CASE EndCycle \/ Leave \/ Join \/ Shutdown
  BY <1>11, <1>14 DEF EndCycle, Leave, Join, Shutdown, sourceVars, cycleVars, boundVars
<1>15. CASE UNCHANGED vars
  BY <1>11, <1>15 DEF vars
<1> QED
  BY <1>2, <1>3, <1>4, <1>5, <1>6, <1>7, <1>8, <1>9, <1>10, <1>12, <1>13, <1>14, <1>15
     DEF Next, SourceStep, CoordinatorStep, Returned, TriggerOnInterval, TriggerOnRequest
=============================================================================
