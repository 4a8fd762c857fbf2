----------------------- MODULE BroadcastChannelProofs -----------------------
(***************************************************************************)
(* Under the Block policy the broadcast channel loses, repeats and tears   *)
(* nothing, for any capacity, number of cursors and threads, and any       *)
(* sequence of subscriptions.                                              *)
(***************************************************************************)
EXTENDS BroadcastChannel, Integers, TLAPS

Position(t) == readSeq[local[t].cursor]

\* A thread that holds a cursor, and a subscription that reads from it.
Holds(t) == rpc[t] \notin {"out", "claim"}
Live(t) == Holds(t) /\ rpc[t] # "position" /\ t \notin overtaken

Scan == [why : {"check", "wait", "drop"}, at : Nat \ {0},
         least : [any : BOOLEAN, pos : Nat, cursor : Nat]]

Places == {"out", "claim", "position", "in", "load", "compare", "clone", "advance", "leave"}

Local == [cursor : Nat, read : Nat, value : Nat, joins : Nat]

Types ==
    /\ config \in Channels
    /\ buffer \in [0..Cap-1 -> Nat] /\ writeSeq \in Nat
    /\ active \in [Cursors -> BOOLEAN] /\ readSeq \in [Cursors -> Nat]
    /\ wpc \in {"idle", "scan", "position", "write", "publish"}
    /\ scan \in Scan
    /\ rpc \in [Readers -> Places]
    /\ local \in [Readers -> Local]
    /\ start \in [Readers -> Nat] /\ got \in [Readers -> Seq(Nat)]

\* A cursor in use is active, and no two threads hold it.
Held(t) ==
    Holds(t) => /\ local[t].cursor \in Cursors /\ active[local[t].cursor]
                /\ \A u \in Readers : Holds(u) /\ local[u].cursor = local[t].cursor => u = t

Joining(t) ==
    rpc[t] \in {"claim", "position"} =>
        got[t] = <<>> /\ t \notin overtaken /\ start[t] <= writeSeq

\* A live subscription has been given the items from its start up to its
\* position, which the writer is ahead of by at most the capacity.
Reading(t) ==
    Live(t) =>
        /\ Position(t) = start[t] + Len(got[t])
        /\ Position(t) <= writeSeq /\ writeSeq <= Position(t) + Cap
        /\ rpc[t] \in {"compare", "clone", "advance"} => local[t].read = Position(t)
        /\ rpc[t] \in {"clone", "advance"} => Position(t) < writeSeq
        /\ rpc[t] = "advance" => local[t].value = Position(t)

\* What the scan has established of a cursor behind it.
Scanning(t) ==
    wpc \in {"scan", "position"} /\ Live(t) /\ local[t].cursor < scan.at =>
        writeSeq < Position(t) + Cap \/ (scan.least.any /\ scan.least.pos <= Position(t))

\* The slot that broadcast assigns is one that a live subscription has read.
Writing(t) ==
    wpc \in {"write", "publish"} /\ Live(t) => writeSeq < Position(t) + Cap

Given(t) ==
    t \notin overtaken => \A i \in 1..Len(got[t]) : got[t][i] = start[t] + i - 1

\* The buffer holds the last items, but for the one whose slot was assigned.
Buffered ==
    /\ \A q \in Nat : q < writeSeq /\ writeSeq <= q + Cap
                      /\ ~(wpc = "publish" /\ writeSeq = q + Cap) => buffer[SlotIndex(q)] = q
    /\ wpc = "publish" => buffer[SlotIndex(writeSeq)] = writeSeq

\* Block never drops a subscriber.
Blocking == scan.why # "drop" /\ (wpc = "position" => scan.at \in Cursors)

BlockInv ==
    /\ Types /\ Buffered /\ Blocking
    /\ \A t \in Readers : Held(t) /\ Joining(t) /\ Reading(t) /\ Scanning(t) /\ Writing(t) /\ Given(t)

Inv == config.policy = "Block" => BlockInv

-----------------------------------------------------------------------------
(* Items less than a round apart are in different slots.                   *)

LEMMA Rounds ==
    ASSUME NEW n \in Nat \ {0}, NEW a \in Nat
    PROVE  /\ a % n \in 0..n-1 /\ a \div n \in Int
           /\ a = n * (a \div n) + (a % n)
  BY SMT

LEMMA WholeRounds ==
    ASSUME NEW n \in Nat \ {0}, NEW k \in Int, n * k > 0
    PROVE  n * k >= n
  BY SMT

LEMMA SlotsApart ==
    ASSUME config \in Channels, NEW a \in Nat, NEW b \in Nat, a < b, b < a + Cap
    PROVE  SlotIndex(a) # SlotIndex(b)
<1> DEFINE n == Cap
           x == a \div n
           y == b \div n
           u == a % n
           v == b % n
<1>1. n \in Nat \ {0}
  BY BroadcastAssumption DEF Cap
<1> HIDE DEF n
<1>2. x \in Int /\ y \in Int /\ u \in Int /\ v \in Int
  BY <1>1, Rounds
<1>3. a = n * x + u /\ b = n * y + v
  BY <1>1, Rounds
<1> HIDE DEF x, y, u, v
<1>4. SUFFICES ASSUME u = v PROVE FALSE
  BY DEF u, v, n, SlotIndex
<1>5. n * (y - x) = n * y - n * x
  BY <1>1, <1>2, SMT
<1>6. n * (y - x) > 0 /\ n * (y - x) < n
  <2>1. b < a + n
    BY DEF n
  <2> QED BY <1>1, <1>2, <1>3, <1>4, <1>5, <2>1
<1> QED
  BY <1>1, <1>2, <1>6, WholeRounds

LEMMA SlotInBuffer ==
    ASSUME config \in Channels, NEW a \in Nat
    PROVE  SlotIndex(a) \in 0..Cap-1 /\ Cap \in Nat \ {0}
<1>1. Cap \in Nat \ {0}
  BY BroadcastAssumption DEF Cap
<1> QED
  BY <1>1, Rounds DEF SlotIndex

-----------------------------------------------------------------------------
(* The invariant.                                                          *)

LEMMA BlockInit ==
    ASSUME Init
    PROVE  BlockInv
<1>1. config \in Channels /\ Cap \in Nat \ {0} /\ config.cursors \in Nat
  BY BroadcastAssumption DEF Init, Cap
<1>2. Types
  BY <1>1 DEF Init, Types, Places, Local, Scan, NewScan, None, Cursors
<1>3. ASSUME NEW t \in Readers
      PROVE  Held(t) /\ Joining(t) /\ Reading(t) /\ Scanning(t) /\ Writing(t) /\ Given(t)
  BY DEF Init, Held, Joining, Reading, Scanning, Writing, Given, Live, Holds
<1>4. Buffered
  BY DEF Init, Buffered
<1>5. Blocking
  BY DEF Init, Blocking, NewScan
<1> QED
  BY <1>2, <1>3, <1>4, <1>5 DEF BlockInv

\* The steps of broadcast that only scan the cursors and decide.
LEMMA ScanKeeps ==
    ASSUME BlockInv, config.policy = "Block",
           Broadcast \/ ScanActive \/ ScanPosition \/ Decide \/ WaitForSlowest
    PROVE  BlockInv'
<1>1. UNCHANGED <<config, buffer, writeSeq, active, readSeq, rpc, local, start, overtaken, got>>
  BY DEF Broadcast, ScanActive, ScanPosition, Decide, WaitForSlowest, WriterStep, history
<1>2. /\ config.cursors \in Nat /\ Cap \in Nat \ {0} /\ Types
      /\ Cap' = Cap /\ Cursors' = Cursors
  BY <1>1, BroadcastAssumption DEF BlockInv, Types, Cap, Cursors
<1>3. \A t \in Readers : (Live(t))' = Live(t) /\ (Position(t))' = Position(t)
  BY <1>1 DEF Live, Holds, Position
<1>4. \A t \in Readers : Live(t) => /\ local[t].cursor \in 1..config.cursors
                                   /\ active[local[t].cursor] /\ Position(t) \in Nat
  BY DEF BlockInv, Held, Live, Types, Position, Cursors
<1>5. ASSUME NEW t \in Readers PROVE (Held(t) /\ Joining(t) /\ Reading(t) /\ Given(t))'
  <2>1. Held(t) /\ Joining(t) /\ Reading(t) /\ Given(t)
    BY DEF BlockInv
  <2> QED BY <1>1, <1>2, <1>3, <2>1 DEF Held, Holds, Joining, Reading, Given
<1>6. scan \in Scan /\ NewScan("check") \in Scan /\ NewScan("wait") \in Scan
  BY DEF NewScan, None, Scan, BlockInv, Types
<1>types. /\ scan.at \in Nat \ {0} /\ scan.least.any \in BOOLEAN /\ scan.least.pos \in Nat
      /\ writeSeq \in Nat /\ scan.least \in [any : BOOLEAN, pos : Nat, cursor : Nat]
  BY <1>6, <1>2 DEF Scan, Types
<1>7. /\ wpc' \in {"idle", "scan", "position", "write"} /\ scan' \in Scan
      /\ scan'.why # "drop" /\ (wpc' = "position" => scan'.at \in Cursors)
  <2>1. CASE Broadcast \/ Decide \/ WaitForSlowest
    BY <1>6, <2>1 DEF Broadcast, Decide, WaitForSlowest, WriterStep, NewScan, BlockInv, Blocking
  <2>2. CASE ScanActive
    <3>1. \/ wpc' = "position" /\ scan' = scan
          \/ wpc' = "scan" /\ scan' = [scan EXCEPT !.at = scan.at + 1]
      BY <2>2 DEF ScanActive, WriterStep
    <3>2. [scan EXCEPT !.at = scan.at + 1] \in Scan
      BY <1>6, <1>types DEF Scan
    <3>3. scan'.why = scan.why
      BY <1>6, <3>1 DEF Scan
    <3> QED BY <1>2, <1>6, <1>types, <2>2, <3>1, <3>2, <3>3 DEF ScanActive, BlockInv, Blocking, Cursors
  <2>3. CASE ScanPosition
    <3>1. readSeq[scan.at] \in Nat /\ scan.at \in Nat
      BY <1>6, <2>3 DEF ScanPosition, BlockInv, Types, Blocking, Scan
    <3>2. PICK least \in [any : BOOLEAN, pos : Nat, cursor : Nat] :
            wpc' = "scan" /\ scan' = [scan EXCEPT !.at = scan.at + 1, !.least = least]
      <4>1. [any |-> TRUE, pos |-> readSeq[scan.at], cursor |-> scan.at]
              \in [any : BOOLEAN, pos : Nat, cursor : Nat]
        BY <3>1
      <4> QED BY <1>types, <2>3, <4>1, Zenon DEF ScanPosition, WriterStep
    <3>3. scan' \in Scan /\ scan'.why = scan.why
      <4> DEFINE next == scan.at + 1
      <4>1. next \in Nat \ {0}
        BY <1>types
      <4>2. scan' = [scan EXCEPT !.at = next, !.least = least]
        BY <3>2
      <4> HIDE DEF next
      <4> QED BY <1>6, <4>1, <4>2, Zenon DEF Scan
    <3> QED BY <3>2, <3>3 DEF BlockInv, Blocking
  <2> QED BY <2>1, <2>2, <2>3
<1>8. ASSUME NEW t \in Readers, Live(t)
      PROVE  /\ wpc' = "write" => writeSeq < Position(t) + Cap
             /\ wpc' \in {"scan", "position"} /\ local[t].cursor < scan'.at =>
                  \/ writeSeq < Position(t) + Cap
                  \/ scan'.least.any /\ scan'.least.pos <= Position(t)
  <2>1. CASE Broadcast
    BY <1>4, <1>8, <2>1 DEF Broadcast, WriterStep, NewScan
  <2>2. CASE ScanActive
    BY <1>4, <1>6, <1>8, <2>2 DEF ScanActive, WriterStep, BlockInv, Scanning, Scan
  <2>3. CASE ScanPosition
    <3>1. /\ wpc = "position" /\ wpc' = "scan" /\ scan'.at = scan.at + 1
          /\ scan'.least = IF ~scan.least.any \/ readSeq[scan.at] < scan.least.pos
                           THEN [any |-> TRUE, pos |-> readSeq[scan.at], cursor |-> scan.at]
                           ELSE scan.least
      BY <1>6, <2>3 DEF ScanPosition, WriterStep, Scan
    <3>2. readSeq[scan.at] \in Nat
      BY <3>1 DEF BlockInv, Types, Blocking
    <3>3. CASE local[t].cursor = scan.at
      BY <1>4, <1>types, <1>8, <3>1, <3>2, <3>3 DEF Position
    <3>4. CASE local[t].cursor < scan.at
      BY <1>4, <1>types, <1>8, <3>1, <3>2, <3>4 DEF BlockInv, Scanning
    <3> QED BY <1>4, <1>types, <1>8, <3>1, <3>3, <3>4
  <2>4. CASE Decide \/ WaitForSlowest
    <3>1. /\ wpc = "scan" /\ scan.at > config.cursors
          /\ wpc' = "write" => scan.least.any /\ writeSeq < scan.least.pos + Cap
          /\ wpc' # "position" /\ (wpc' = "scan" => scan'.at = 1)
      BY <2>4 DEF Decide, WaitForSlowest, Scanned, Room, WriterStep, NewScan
    <3>2. writeSeq < Position(t) + Cap \/ scan.least.pos <= Position(t)
      BY <1>2, <1>4, <1>6, <1>8, <3>1 DEF BlockInv, Scanning, Scan
    <3> QED BY <1>2, <1>4, <1>types, <1>8, <3>1, <3>2
  <2> QED BY <2>1, <2>2, <2>3, <2>4
<1>9. ASSUME NEW t \in Readers PROVE (Scanning(t) /\ Writing(t))'
  BY <1>1, <1>2, <1>3, <1>7, <1>8 DEF Scanning, Writing
<1>10. Types' /\ Blocking'
  BY <1>1, <1>2, <1>7 DEF BlockInv, Types, Blocking
<1>11. Buffered'
  <2>1. wpc # "publish"
    BY DEF Broadcast, ScanActive, ScanPosition, Decide, WaitForSlowest, Scanned
  <2>2. \A q \in Nat : (SlotIndex(q))' = SlotIndex(q)
    BY <1>2 DEF SlotIndex
  <2> QED BY <1>1, <1>2, <1>7, <2>1, <2>2 DEF BlockInv, Buffered
<1> QED
  BY <1>5, <1>9, <1>10, <1>11 DEF BlockInv

\* broadcast assigns the slot and then publishes it.
LEMMA WriteKeeps ==
    ASSUME BlockInv, config.policy = "Block", WriteSlot \/ Publish
    PROVE  BlockInv'
<1>1. UNCHANGED <<config, active, readSeq, scan, rpc, local, start, overtaken, got>>
  BY DEF WriteSlot, Publish, WriterStep, history
<1>2. /\ Cap \in Nat \ {0} /\ Types /\ config \in Channels
      /\ writeSeq \in Nat /\ buffer \in [0..Cap-1 -> Nat]
      /\ Cap' = Cap /\ Cursors' = Cursors
  BY <1>1, BroadcastAssumption DEF BlockInv, Types, Cap, Cursors
<1>3. \A t \in Readers : (Live(t))' = Live(t) /\ (Position(t))' = Position(t)
  BY <1>1 DEF Live, Holds, Position
<1>4. \A t \in Readers : Live(t) => Position(t) \in Nat
  BY DEF BlockInv, Held, Live, Types, Position
<1>5. \A q \in Nat : (SlotIndex(q))' = SlotIndex(q) /\ SlotIndex(q) \in 0..Cap-1
  BY <1>2, SlotInBuffer, Zenon DEF SlotIndex
<1>6. ASSUME NEW t \in Readers PROVE (Held(t) /\ Given(t))'
  BY <1>1, <1>2 DEF BlockInv, Held, Holds, Given
<1>7. Blocking'
  BY <1>1, <1>2 DEF WriteSlot, Publish, WriterStep, BlockInv, Blocking
<1>8. CASE WriteSlot
  <2>1. /\ wpc = "write" /\ wpc' = "publish" /\ writeSeq' = writeSeq
        /\ buffer' = [buffer EXCEPT ![SlotIndex(writeSeq)] = writeSeq]
    BY <1>8 DEF WriteSlot, WriterStep
  <2>2. Types'
    BY <1>1, <1>2, <1>5, <2>1, Zenon DEF Types
  <2>3. ASSUME NEW t \in Readers
        PROVE  (Joining(t) /\ Reading(t) /\ Scanning(t) /\ Writing(t))'
    <3>1. Joining(t) /\ Reading(t) /\ Writing(t)
      BY DEF BlockInv
    <3> QED BY <1>1, <1>2, <1>3, <2>1, <3>1 DEF Joining, Reading, Scanning, Writing
  <2>4. ASSUME NEW q \in Nat, q < writeSeq, writeSeq < q + Cap
        PROVE  buffer'[SlotIndex(q)] = q
    <3>1. SlotIndex(q) # SlotIndex(writeSeq)
      BY <1>2, <2>4, SlotsApart
    <3>2. buffer[SlotIndex(q)] = q
      BY <1>2, <2>1, <2>4 DEF BlockInv, Buffered
    <3> QED BY <1>2, <1>5, <2>1, <3>1, <3>2
  <2>5. buffer'[SlotIndex(writeSeq)] = writeSeq
    BY <1>2, <1>5, <2>1
  <2>6. (SlotIndex(writeSeq))' = SlotIndex(writeSeq)
    BY <1>2, <2>1 DEF SlotIndex
  <2>7. Buffered'
    <3>1. ASSUME NEW q \in Nat, q < writeSeq, writeSeq <= q + Cap, writeSeq # q + Cap
          PROVE  buffer'[(SlotIndex(q))'] = q
      <4>1. writeSeq < q + Cap
        BY <1>2, <3>1
      <4>2. buffer'[SlotIndex(q)] = q
        BY <2>4, <3>1, <4>1
      <4>3. (SlotIndex(q))' = SlotIndex(q)
        BY <1>5
      <4> QED BY <4>2, <4>3
    <3> QED BY <1>2, <2>1, <2>5, <2>6, <3>1 DEF Buffered
  <2> QED BY <1>6, <1>7, <2>2, <2>3, <2>7 DEF BlockInv
<1>9. CASE Publish
  <2>1. wpc = "publish" /\ wpc' = "idle" /\ writeSeq' = writeSeq + 1 /\ buffer' = buffer
    BY <1>9 DEF Publish, WriterStep
  <2>2. Types'
    BY <1>1, <1>2, <2>1 DEF Types
  <2>3. ASSUME NEW t \in Readers PROVE (Scanning(t) /\ Writing(t))'
    BY <2>1 DEF Scanning, Writing
  <2>4. ASSUME NEW t \in Readers PROVE (Joining(t))'
    BY <1>1, <1>2, <2>1 DEF BlockInv, Joining, Types
  <2>5. ASSUME NEW t \in Readers PROVE (Reading(t))'
    <3> SUFFICES ASSUME Live(t)
                 PROVE  /\ Position(t) = start[t] + Len(got[t])
                        /\ Position(t) <= writeSeq + 1 /\ writeSeq + 1 <= Position(t) + Cap
                        /\ rpc[t] \in {"compare", "clone", "advance"} => local[t].read = Position(t)
                        /\ rpc[t] \in {"clone", "advance"} => Position(t) < writeSeq + 1
                        /\ rpc[t] = "advance" => local[t].value = Position(t)
      BY <1>1, <1>2, <1>3, <2>1 DEF Reading
    <3>1. writeSeq < Position(t) + Cap
      BY <2>1 DEF BlockInv, Writing
    <3> QED BY <1>2, <1>4, <3>1 DEF BlockInv, Reading
  <2>6. Buffered'
    <3> SUFFICES ASSUME NEW q \in Nat, q < writeSeq + 1, writeSeq + 1 <= q + Cap
                 PROVE  buffer[SlotIndex(q)] = q
      BY <1>2, <1>5, <2>1, Zenon DEF Buffered
    <3>1. CASE q = writeSeq
      BY <2>1, <3>1 DEF BlockInv, Buffered
    <3>2. CASE q < writeSeq
      BY <1>2, <2>1, <3>2 DEF BlockInv, Buffered
    <3> QED BY <1>2, <3>1, <3>2
  <2> QED BY <1>6, <1>7, <2>2, <2>3, <2>4, <2>5, <2>6 DEF BlockInv
<1> QED
  BY <1>8, <1>9

\* A step of one thread t leaves the others as they were: what is left to
\* show is the part of the invariant that is about t.
Untouched(u) ==
    /\ rpc'[u] = rpc[u] /\ local'[u] = local[u] /\ start'[u] = start[u]
    /\ got'[u] = got[u] /\ (u \in overtaken' <=> u \in overtaken)
    /\ Holds(u) => /\ active'[local[u].cursor]
                   /\ readSeq'[local[u].cursor] = readSeq[local[u].cursor]

LEMMA OneThread ==
    ASSUME BlockInv, NEW t \in Readers,
           UNCHANGED <<config, buffer, writeSeq, wpc, scan>>,
           \A u \in Readers \ {t} : Untouched(u),
           Types',
           (Held(t) /\ Joining(t) /\ Reading(t) /\ Scanning(t) /\ Writing(t) /\ Given(t))'
    PROVE  BlockInv'
<1>1. Cap' = Cap /\ Cursors' = Cursors
  BY DEF Cap, Cursors
<1>2. Blocking'
  BY <1>1 DEF BlockInv, Blocking
<1>3. Buffered'
  <2>1. \A q \in Nat : (SlotIndex(q))' = SlotIndex(q)
    BY <1>1 DEF SlotIndex
  <2>2. (SlotIndex(writeSeq))' = SlotIndex(writeSeq)
    BY <1>1 DEF SlotIndex
  <2> QED BY <1>1, <2>1, <2>2 DEF BlockInv, Buffered
<1>4. ASSUME NEW u \in Readers \ {t}
      PROVE  (Held(u) /\ Joining(u) /\ Reading(u) /\ Scanning(u) /\ Writing(u) /\ Given(u))'
  <2>1. /\ Untouched(u)
        /\ Held(u) /\ Joining(u) /\ Reading(u) /\ Scanning(u) /\ Writing(u) /\ Given(u)
    BY DEF BlockInv
  <2>2. (Holds(u))' = Holds(u) /\ (Live(u))' = Live(u)
    BY <2>1 DEF Untouched, Holds, Live
  <2>3. Holds(u) => (Position(u))' = Position(u)
    BY <2>1 DEF Untouched, Position
  <2>4. (Held(u))'
    <3>1. ASSUME NEW v \in Readers, Holds(u), (Holds(v))', local'[v].cursor = local'[u].cursor
          PROVE  v = u
      <4>1. CASE v = t
        BY <2>2, <3>1, <4>1, Zenon DEF Held
      <4>2. CASE v # t
        BY <2>1, <3>1, <4>2 DEF Untouched, Held, Holds
      <4> QED BY <4>1, <4>2
    <3> QED BY <1>1, <2>1, <2>2, <3>1 DEF Untouched, Held
  <2>5. (Joining(u))'
    BY <2>1, ZenonT(30) DEF Untouched, Joining
  <2>6. (Reading(u) /\ Scanning(u) /\ Writing(u))'
    BY <1>1, <2>1, <2>2, <2>3 DEF Untouched, Reading, Scanning, Writing, Live
  <2>7. (Given(u))'
    <3>1. got'[u] = got[u] /\ start'[u] = start[u] /\ (u \notin overtaken' => u \notin overtaken)
      BY <2>1, ZenonT(30) DEF Untouched
    <3>2. u \notin overtaken => \A i \in 1..Len(got[u]) : got[u][i] = start[u] + i - 1
      BY <2>1 DEF Given
    <3> QED BY <3>1, <3>2, Zenon DEF Given
  <2> QED BY <2>4, <2>5, <2>6, <2>7
<1>5. ASSUME NEW u \in Readers
      PROVE  (Held(u) /\ Joining(u) /\ Reading(u) /\ Scanning(u) /\ Writing(u) /\ Given(u))'
  BY <1>4
<1> QED
  BY <1>2, <1>3, <1>5 DEF BlockInv

\* The steps of subscribe.
LEMMA SubscribeKeeps ==
    ASSUME BlockInv, NEW t \in Readers, Subscribe(t) \/ Claim(t) \/ StorePosition(t)
    PROVE  BlockInv'
<1>1. UNCHANGED <<config, buffer, writeSeq, wpc, scan>>
  BY DEF Subscribe, Claim, StorePosition, ReaderStep, writer
<1>2. /\ Types /\ Held(t) /\ Joining(t) /\ Given(t) /\ Cap \in Nat \ {0}
      /\ Cap' = Cap /\ Cursors' = Cursors /\ writeSeq \in Nat /\ start[t] \in Nat
  BY <1>1, BroadcastAssumption DEF BlockInv, Types, Cap, Cursors
<1>3. \A u \in Readers : Held(u)
  BY DEF BlockInv
<1>4. CASE Subscribe(t)
  <2>1. /\ rpc' = [rpc EXCEPT ![t] = "claim"] /\ start' = [start EXCEPT ![t] = writeSeq]
        /\ overtaken' = overtaken \ {t} /\ got' = [got EXCEPT ![t] = <<>>]
        /\ local' = [local EXCEPT ![t].joins = @ + 1] /\ UNCHANGED <<active, readSeq>>
    BY <1>4 DEF Subscribe, Goto
  <2>2. Types'
    <3>1. local' \in [Readers -> Local]
      <4>1. local[t].joins + 1 \in Nat
        BY <1>2 DEF Types, Local
      <4>2. PICK n \in Nat : local' = [local EXCEPT ![t].joins = n]
        BY <2>1, <4>1, Zenon
      <4> QED BY <1>2, <4>2, Zenon DEF Types, Local
    <3> QED BY <1>1, <1>2, <2>1, <3>1 DEF Types, Places
  <2>3. \A u \in Readers \ {t} : Untouched(u)
    BY <1>2, <1>3, <2>1 DEF Untouched, Held, Types
  <2>4. /\ rpc'[t] = "claim" /\ got'[t] = <<>> /\ t \notin overtaken' /\ start'[t] = writeSeq
    BY <1>2, <2>1 DEF Types
  <2>5. (Held(t) /\ Joining(t) /\ Reading(t) /\ Scanning(t) /\ Writing(t) /\ Given(t))'
    BY <1>1, <1>2, <2>4, SMTT(30) DEF Held, Joining, Reading, Scanning, Writing, Given, Live, Holds
  <2> QED BY <1>1, <2>2, <2>3, <2>5, OneThread
<1>5. CASE Claim(t)
  <2>1. CASE \A c \in Cursors : active[c]
    <3>1. /\ rpc[t] = "claim" /\ rpc' = [rpc EXCEPT ![t] = "out"]
          /\ UNCHANGED <<active, local, readSeq, start, overtaken, got>>
      BY <1>5, <2>1 DEF Claim, Goto, history
    <3>2. Types'
      BY <1>1, <1>2, <3>1 DEF Types, Places
    <3>3. \A u \in Readers \ {t} : Untouched(u)
      BY <1>2, <1>3, <3>1 DEF Untouched, Held, Types
    <3>4. rpc'[t] = "out" /\ got'[t] = <<>>
      BY <1>2, <3>1 DEF Types, Joining
    <3>5. (Held(t) /\ Joining(t) /\ Reading(t) /\ Scanning(t) /\ Writing(t) /\ Given(t))'
      BY <3>4 DEF Held, Joining, Reading, Scanning, Writing, Given, Live, Holds
    <3> QED BY <1>1, <3>2, <3>3, <3>5, OneThread
  <2>2. CASE \E c \in Cursors : ~active[c]
    <3>1. PICK c \in Cursors :
            /\ ~active[c] /\ rpc[t] = "claim" /\ rpc' = [rpc EXCEPT ![t] = "position"]
            /\ active' = [active EXCEPT ![c] = TRUE]
            /\ local' = [local EXCEPT ![t].cursor = c]
            /\ UNCHANGED <<readSeq, start, overtaken, got>>
      BY <1>5, <2>2 DEF Claim, Goto, history
    <3>2. Types'
      <4>1. c \in Nat
        BY BroadcastAssumption, <1>2 DEF Types, Cursors
      <4>2. local' \in [Readers -> Local]
        BY <1>2, <3>1, <4>1, ZenonT(30) DEF Types, Local
      <4> QED BY <1>1, <1>2, <3>1, <4>2 DEF Types, Places
    <3>3. \A u \in Readers \ {t} : Untouched(u)
      BY <1>2, <1>3, <3>1 DEF Untouched, Held, Types
    <3>4. /\ rpc'[t] = "position" /\ local'[t].cursor = c /\ active'[c]
          /\ got'[t] = <<>> /\ t \notin overtaken' /\ start'[t] <= writeSeq
      BY <1>2, <3>1 DEF Types, Joining
    <3>5. ASSUME NEW u \in Readers, (Holds(u))', local'[u].cursor = c PROVE u = t
      BY <1>2, <1>3, <3>1, <3>3, <3>5 DEF Held, Holds, Untouched
    <3>6. (Held(t))'
      BY <1>2, <3>4, <3>5, Zenon DEF Held
    <3>7. (Joining(t) /\ Reading(t) /\ Scanning(t) /\ Writing(t) /\ Given(t))'
      BY <1>1, <3>4 DEF Joining, Reading, Scanning, Writing, Given, Live
    <3> QED BY <1>1, <3>2, <3>3, <3>6, <3>7, OneThread
  <2> QED BY <2>1, <2>2
<1>6. CASE StorePosition(t)
  <2>1. /\ rpc[t] = "position" /\ rpc' = [rpc EXCEPT ![t] = "in"]
        /\ readSeq' = [readSeq EXCEPT ![local[t].cursor] = start[t]]
        /\ overtaken' = IF writeSeq >= start[t] + Cap THEN overtaken \cup {t} ELSE overtaken
        /\ UNCHANGED <<active, local, start, got>>
    BY <1>6 DEF StorePosition, Goto
  <2>2. Types'
    BY <1>1, <1>2, <2>1, Zenon DEF Types, Places
  <2>3. Holds(t) /\ local[t].cursor \in Cursors /\ active[local[t].cursor]
    BY <1>2, <2>1 DEF Holds, Held
  <2>4. \A u \in Readers \ {t} : Untouched(u)
    BY <1>2, <1>3, <2>1, <2>3 DEF Untouched, Held, Types
  <2>5. /\ rpc'[t] = "in" /\ (Position(t))' = start[t] /\ got'[t] = <<>> /\ start'[t] = start[t]
        /\ t \notin overtaken' => writeSeq < start[t] + Cap
        /\ start[t] <= writeSeq
    BY <1>2, <2>1, <2>3 DEF Types, Joining, Position
  <2>6. (Held(t))'
    BY <1>2, <2>1, <2>3, <2>4, Zenon DEF Held, Holds, Untouched
  <2>7. (Joining(t) /\ Reading(t) /\ Scanning(t) /\ Writing(t) /\ Given(t))'
    BY <1>1, <1>2, <2>5, SMTT(30) DEF Joining, Reading, Scanning, Writing, Given, Live
  <2> QED BY <1>1, <2>2, <2>4, <2>6, <2>7, OneThread
<1> QED
  BY <1>4, <1>5, <1>6

LEMMA ScanTypes ==
    ASSUME Types
    PROVE  scan.at \in Nat /\ scan.least.any \in BOOLEAN /\ scan.least.pos \in Nat
  BY DEF Types, Scan

LEMMA ReadTyped ==
    ASSUME NEW f \in [Readers -> Local], NEW t \in Readers, NEW r \in Nat
    PROVE  [f EXCEPT ![t].read = r] \in [Readers -> Local]
  BY DEF Local

LEMMA ValueTyped ==
    ASSUME NEW f \in [Readers -> Local], NEW t \in Readers, NEW v \in Nat
    PROVE  [f EXCEPT ![t].value = v] \in [Readers -> Local]
  BY DEF Local

\* The steps of read, try_read and unsubscribe.
LEMMA ReadKeeps ==
    ASSUME BlockInv, NEW t \in Readers,
           \/ Read(t) \/ LoadPosition(t) \/ Compare(t) \/ CloneSlot(t) \/ Advance(t)
           \/ Unsubscribe(t) \/ Deactivate(t)
    PROVE  BlockInv'
<1>1. UNCHANGED <<config, buffer, writeSeq, wpc, scan, start, overtaken>>
  BY DEF Read, LoadPosition, Compare, CloneSlot, Advance, Unsubscribe, Deactivate,
         ReaderStep, writer, history
<1>2. /\ Types /\ Held(t) /\ Reading(t) /\ Scanning(t) /\ Writing(t) /\ Given(t)
      /\ Cap \in Nat \ {0} /\ Cap' = Cap /\ Cursors' = Cursors
      /\ writeSeq \in Nat /\ start[t] \in Nat /\ config \in Channels
  BY <1>1, BroadcastAssumption DEF BlockInv, Types, Cap, Cursors
<1>3. \A u \in Readers : Held(u)
  BY DEF BlockInv
<1>4. /\ Holds(t) /\ rpc[t] # "position"
      /\ local[t].cursor \in Cursors /\ active[local[t].cursor] /\ Position(t) \in Nat
      /\ local[t].read \in Nat /\ local[t].value \in Nat
  BY <1>2, Zenon
     DEF Read, LoadPosition, Compare, CloneSlot, Advance, Unsubscribe, Deactivate, Goto,
         Holds, Held, Types, Local, Position
<1>5. CASE Read(t) \/ Unsubscribe(t)
  <2>1. /\ rpc[t] = "in" /\ UNCHANGED <<active, readSeq, local, got>>
        /\ rpc' = [rpc EXCEPT ![t] = "load"] \/ rpc' = [rpc EXCEPT ![t] = "leave"]
    BY <1>4, <1>5, Zenon DEF Read, Unsubscribe, Goto, history
  <2>2. Types'
    BY <1>1, <1>2, <2>1, Zenon DEF Types, Places
  <2>3. \A u \in Readers \ {t} : Untouched(u)
    BY <1>1, <1>2, <1>3, <2>1 DEF Untouched, Held, Types
  <2>4. rpc'[t] \in {"load", "leave"} /\ (Position(t))' = Position(t)
    BY <1>2, <2>1 DEF Types, Position
  <2>5. (Held(t))'
    BY <1>2, <1>4, <2>1, <2>3, <2>4, Zenon DEF Held, Holds, Untouched
  <2>6. (Joining(t) /\ Reading(t) /\ Scanning(t) /\ Writing(t) /\ Given(t))'
    BY <1>1, <1>2, <1>4, <2>1, <2>4, Zenon DEF Joining, Reading, Scanning, Writing, Given, Live, Holds
  <2> QED BY <1>1, <2>2, <2>3, <2>5, <2>6, OneThread
<1>6. CASE LoadPosition(t)
  <2>1. /\ rpc[t] = "load" /\ UNCHANGED <<active, readSeq, got>>
        /\ rpc' = [rpc EXCEPT ![t] = "compare"]
        /\ local' = [local EXCEPT ![t].read = Position(t)]
    BY <1>6 DEF LoadPosition, Goto, history, Position
  <2>2. Types'
    <3>1. local' \in [Readers -> Local]
      BY <1>2, <1>4, <2>1, ReadTyped, Zenon DEF Types
    <3> QED BY <1>1, <1>2, <2>1, <3>1 DEF Types, Places
  <2>3. \A u \in Readers \ {t} : Untouched(u)
    BY <1>1, <1>2, <1>3, <2>1 DEF Untouched, Held, Types
  <2>4. /\ rpc'[t] = "compare" /\ (Position(t))' = Position(t)
        /\ local'[t].cursor = local[t].cursor /\ local'[t].read = Position(t)
    BY <1>2, <2>1 DEF Types, Local, Position
  <2>5. (Held(t))'
    BY <1>2, <1>4, <2>1, <2>3, <2>4 DEF Held, Holds, Untouched
  <2>6. (Joining(t) /\ Reading(t) /\ Scanning(t) /\ Writing(t) /\ Given(t))'
    BY <1>1, <1>2, <1>4, <2>1, <2>4 DEF Joining, Reading, Scanning, Writing, Given, Live, Holds
  <2> QED BY <1>1, <2>2, <2>3, <2>5, <2>6, OneThread
<1>7. CASE Compare(t)
  <2>1. /\ rpc[t] = "compare" /\ UNCHANGED <<active, readSeq, got>>
        /\ \/ rpc' = [rpc EXCEPT ![t] = "in"] /\ local' = [local EXCEPT ![t].read = 0]
           \/ local[t].read < writeSeq /\ rpc' = [rpc EXCEPT ![t] = "clone"] /\ local' = local
    BY <1>2, <1>4, <1>7 DEF Compare, Goto, history
  <2>moved. PICK z \in Nat : local' = [local EXCEPT ![t].read = z] \/ local' = local
    BY <2>1
  <2>2. Types'
    <3>1. local' \in [Readers -> Local]
      <4>1. CASE local' = local
        BY <1>2, <4>1 DEF Types
      <4>2. CASE local' = [local EXCEPT ![t].read = z]
        BY <1>2, <4>2, ReadTyped, Zenon DEF Types
      <4> QED BY <2>moved, <4>1, <4>2
    <3> QED BY <1>1, <1>2, <2>1, <3>1, Zenon DEF Types, Places
  <2>3. \A u \in Readers \ {t} : Untouched(u)
    BY <1>1, <1>2, <1>3, <2>1 DEF Untouched, Held, Types
  <2>4. /\ (Position(t))' = Position(t) /\ local'[t].cursor = local[t].cursor
        /\ \/ rpc'[t] = "in"
           \/ rpc'[t] = "clone" /\ local'[t].read = local[t].read /\ local[t].read < writeSeq
    <3>1. /\ local'[t].cursor = local[t].cursor
          /\ local' = local => local'[t].read = local[t].read
      <4>1. CASE local' = local
        BY <4>1
      <4>2. CASE local' = [local EXCEPT ![t].read = z]
        BY <1>2, <4>2 DEF Types, Local
      <4> QED BY <2>moved, <4>1, <4>2
    <3> QED BY <1>2, <2>1, <3>1 DEF Types, Position
  <2>5. (Held(t))'
    BY <1>2, <1>4, <2>1, <2>3, <2>4 DEF Held, Holds, Untouched
  <2>6. (Joining(t) /\ Reading(t) /\ Scanning(t) /\ Writing(t) /\ Given(t))'
    BY <1>1, <1>2, <1>4, <2>1, <2>4 DEF Joining, Reading, Scanning, Writing, Given, Live, Holds
  <2> QED BY <1>1, <2>2, <2>3, <2>5, <2>6, OneThread
<1>8. CASE CloneSlot(t)
  <2>1. PICK v \in Nat : /\ rpc[t] = "clone" /\ UNCHANGED <<active, readSeq, got>>
                         /\ rpc' = [rpc EXCEPT ![t] = "advance"]
                         /\ local' = [local EXCEPT ![t].value = v]
                         /\ ~Race(t) => v = buffer[SlotIndex(local[t].read)]
    <3>1. buffer[SlotIndex(local[t].read)] \in Nat /\ 0..config.items \subseteq Nat
      <4>1. SlotIndex(local[t].read) \in 0..Cap-1
        BY <1>2, <1>4, SlotInBuffer
      <4>2. config.items \in Nat
        BY <1>2, BroadcastAssumption
      <4>3. buffer[SlotIndex(local[t].read)] \in Nat
        BY <1>2, <4>1, Zenon DEF Types
      <4>4. 0..config.items \subseteq Nat
        BY <4>2, SMT
      <4> QED BY <4>3, <4>4, Zenon
    <3> QED BY <1>8, <3>1, Zenon DEF CloneSlot, Goto, history
  <2>2. Types'
    <3>1. local' \in [Readers -> Local]
      BY <1>2, <2>1, ValueTyped, Zenon DEF Types
    <3> QED BY <1>1, <1>2, <2>1, <3>1 DEF Types, Places
  <2>3. \A u \in Readers \ {t} : Untouched(u)
    BY <1>1, <1>2, <1>3, <2>1 DEF Untouched, Held, Types
  <2>4. /\ local'[t].cursor = local[t].cursor /\ local'[t].read = local[t].read
        /\ local'[t].value = v /\ rpc'[t] = "advance"
    BY <1>2, <2>1 DEF Types, Local
  <2>5. (Position(t))' = Position(t)
    BY <2>1, <2>4 DEF Position
  <2>6. ASSUME Live(t) PROVE v = Position(t)
    <3>1. /\ local[t].read = Position(t) /\ Position(t) < writeSeq /\ writeSeq <= Position(t) + Cap
      BY <1>2, <2>1, <2>6 DEF Reading
    <3>2. ~Race(t)
      BY <1>2, <1>4, <2>6, <3>1, SlotsApart, Zenon DEF Race, Writing
    <3>3. ~(wpc = "publish" /\ writeSeq = Position(t) + Cap)
      <4>1. wpc = "publish" => writeSeq < Position(t) + Cap
        BY <1>2, <2>6, Zenon DEF Writing
      <4>2. writeSeq \in Nat /\ Cap \in Nat /\ Position(t) \in Nat
        BY <1>2, <1>4, Zenon
      <4>3. writeSeq < Position(t) + Cap => writeSeq # Position(t) + Cap
        BY <4>2, SMT
      <4> QED BY <4>1, <4>3, Zenon
    <3>4. buffer[SlotIndex(Position(t))] = Position(t)
      BY <1>4, <3>1, <3>3 DEF BlockInv, Buffered
    <3> QED BY <2>1, <3>1, <3>2, <3>4
  <2>7. (Held(t))'
    BY <1>2, <1>4, <2>1, <2>3, <2>4 DEF Held, Holds, Untouched
  <2>8. (Joining(t) /\ Reading(t) /\ Scanning(t) /\ Writing(t) /\ Given(t))'
    BY <1>1, <1>2, <1>4, <2>1, <2>4, <2>5, <2>6
       DEF Joining, Reading, Scanning, Writing, Given, Live, Holds
  <2> QED BY <1>1, <2>2, <2>3, <2>7, <2>8, OneThread
<1>9. CASE Advance(t)
  <2>1. /\ rpc[t] = "advance" /\ active' = active
        /\ rpc' = [rpc EXCEPT ![t] = "in"]
        /\ readSeq' = [readSeq EXCEPT ![local[t].cursor] = local[t].read + 1]
    BY <1>9 DEF Advance, Goto
  <2>2. PICK z \in Nat : local' = [local EXCEPT ![t].read = z, ![t].value = z]
    BY <1>9, Zenon DEF Advance
  <2>3. PICK g :
          /\ g \in Seq(Nat) /\ got' = [got EXCEPT ![t] = g] /\ Len(got[t]) \in Nat
          /\ Len(g) = Len(got[t]) + 1 /\ g[Len(g)] = local[t].value
          /\ \A i \in 1..Len(got[t]) : g[i] = got[t][i]
    <3> DEFINE a == Append(got[t], local[t].value)
    <3>1. got[t] \in Seq(Nat)
      BY <1>2 DEF Types
    <3>2. /\ a \in Seq(Nat) /\ Len(a) = Len(got[t]) + 1 /\ a[Len(a)] = local[t].value
          /\ Len(got[t]) \in Nat
      BY <1>4, <3>1
    <3>3. \A i \in 1..Len(got[t]) : a[i] = got[t][i]
      BY <1>4, <3>1
    <3>4. got' = [got EXCEPT ![t] = a]
      BY <1>9 DEF Advance
    <3> HIDE DEF a
    <3> QED BY <3>2, <3>3, <3>4, Zenon
  <2>4. Types'
    <3>1. local' \in [Readers -> Local]
      BY <1>2, <2>2, ZenonT(30) DEF Types, Local
    <3>2. local[t].read + 1 \in Nat
      BY <1>4, SMTT(30)
    <3>3. readSeq' \in [Cursors -> Nat]
      BY <1>2, <2>1, <3>2, Zenon DEF Types
    <3>4. got' \in [Readers -> Seq(Nat)]
      BY <1>2, <2>3, Zenon DEF Types
    <3>5. rpc' \in [Readers -> Places]
      BY <1>2, <2>1, Zenon DEF Types, Places
    <3>6. active' = active
      BY <2>1
    <3> QED BY <1>1, <1>2, <3>1, <3>3, <3>4, <3>5, <3>6 DEF Types
  <2>5. \A u \in Readers \ {t} : Untouched(u)
    BY <1>1, <1>2, <1>3, <1>4, <2>1, <2>2, <2>3 DEF Untouched, Held, Types
  <2>6. /\ local'[t].cursor = local[t].cursor /\ rpc'[t] = "in" /\ got'[t] = g
    BY <1>2, <2>1, <2>2, <2>3, SMTT(20) DEF Types, Local
  <2>7. (Position(t))' = local[t].read + 1
    BY <1>2, <1>4, <2>1, <2>6, Zenon DEF Position, Types
  <2>8. (Held(t))'
    BY <1>2, <1>4, <2>1, <2>5, <2>6, Zenon DEF Held, Holds, Untouched
  <2>9. (Live(t))' => /\ Live(t) /\ (Position(t))' = Position(t) + 1
                      /\ local[t].value = Position(t) /\ Position(t) < writeSeq
                      /\ Position(t) = start[t] + Len(got[t]) /\ writeSeq <= Position(t) + Cap
    BY <1>1, <1>2, <1>4, <2>1, <2>7, Zenon DEF Reading, Live
  <2>10. /\ Len(got[t]) \in Nat /\ Len(g) = Len(got[t]) + 1 /\ g[Len(g)] = local[t].value
         /\ \A i \in 1..Len(got[t]) : g[i] = got[t][i]
    BY <2>3, ZenonT(30)
  <2>11. (Joining(t))'
    BY <2>6 DEF Joining
  <2>12. (Scanning(t))'
    <3> SUFFICES ASSUME wpc \in {"scan", "position"}, (Live(t))', local[t].cursor < scan.at
                 PROVE  \/ writeSeq < Position(t) + 1 + Cap
                        \/ scan.least.any /\ scan.least.pos <= Position(t) + 1
      BY <1>1, <1>2, <2>6, <2>9, Zenon DEF Scanning
    <3>1. writeSeq < Position(t) + Cap \/ (scan.least.any /\ scan.least.pos <= Position(t))
      BY <1>2, <2>9, Zenon DEF Scanning
    <3>2. writeSeq \in Nat /\ Cap \in Nat /\ Position(t) \in Nat
      BY <1>2, <1>4, Zenon
    <3>3. scan.least.pos \in Nat
      BY <1>2, <1>4, ScanTypes, Zenon
    <3>4. CASE writeSeq < Position(t) + Cap
      <4>1. writeSeq < Position(t) + 1 + Cap
        BY <3>2, <3>4
      <4> QED BY <4>1, Zenon
    <3>5. CASE scan.least.any /\ scan.least.pos <= Position(t)
      <4>1. scan.least.pos <= Position(t) + 1
        BY <3>2, <3>3, <3>5
      <4> QED BY <3>5, <4>1, Zenon
    <3> QED BY <3>1, <3>4, <3>5, Zenon
  <2>13. (Writing(t))'
    <3> SUFFICES ASSUME wpc \in {"write", "publish"}, (Live(t))'
                 PROVE  writeSeq < Position(t) + 1 + Cap
      BY <1>1, <1>2, <2>9, Zenon DEF Writing
    <3>1. writeSeq < Position(t) + Cap
      BY <1>2, <2>9, Zenon DEF Writing
    <3>2. writeSeq \in Nat /\ Cap \in Nat /\ Position(t) \in Nat
      BY <1>2, <1>4, Zenon
    <3> QED BY <3>1, <3>2
  <2>14. (Reading(t))'
    <3> SUFFICES ASSUME (Live(t))'
                 PROVE  /\ (Position(t))' = start'[t] + Len(got'[t])
                        /\ (Position(t))' <= writeSeq' /\ writeSeq' <= (Position(t))' + Cap'
      BY <2>6 DEF Reading
    <3>1. start'[t] = start[t] /\ writeSeq' = writeSeq /\ Cap' = Cap
      BY <1>1, <1>2, Zenon
    <3> DEFINE n == Len(got[t])
               m == Len(got'[t])
    <3>2. /\ (Position(t))' = Position(t) + 1 /\ Position(t) < writeSeq
          /\ Position(t) = start[t] + n /\ writeSeq <= Position(t) + Cap
      BY <2>9
    <3>3. n \in Nat /\ m = n + 1
      BY <2>6, <2>10
    <3>4. start[t] \in Nat /\ writeSeq \in Nat /\ Cap \in Nat /\ Position(t) \in Nat
      BY <1>2, <1>4, Zenon
    <3> HIDE DEF n, m
    <3>5. /\ (Position(t))' = start[t] + m
          /\ (Position(t))' <= writeSeq /\ writeSeq <= (Position(t))' + Cap
      BY <3>2, <3>3, <3>4
    <3> QED BY <3>1, <3>5 DEF m
  <2>15. (Given(t))'
    <3> SUFFICES ASSUME t \notin overtaken', NEW i \in 1..Len(g)
                 PROVE  g[i] = start[t] + i - 1
      BY <1>1, <2>6 DEF Given
    <3>1. CASE i \in 1..Len(got[t])
      BY <1>1, <1>2, <2>10, <3>1, Zenon DEF Given
    <3>2. CASE i = Len(g)
      <4>1. (Live(t))'
        BY <2>6 DEF Live, Holds
      <4> DEFINE n == Len(got[t])
      <4>2. local[t].value = start[t] + n
        BY <2>9, <4>1, Zenon
      <4>3. n \in Nat /\ i = n + 1 /\ g[i] = local[t].value
        BY <2>10, <3>2, Zenon
      <4>4. start[t] \in Nat
        BY <1>2, <1>4
      <4> HIDE DEF n
      <4> QED BY <4>2, <4>3, <4>4
    <3> QED BY <2>10, <3>1, <3>2
  <2> QED BY <1>1, <2>4, <2>5, <2>8, <2>11, <2>12, <2>13, <2>14, <2>15, OneThread
<1>10. CASE Deactivate(t)
  <2>1. /\ UNCHANGED <<readSeq, local, got>> /\ rpc' = [rpc EXCEPT ![t] = "out"]
        /\ active' = [active EXCEPT ![local[t].cursor] = FALSE]
    BY <1>10 DEF Deactivate, Goto, history
  <2>2. Types'
    BY <1>1, <1>2, <2>1, Zenon DEF Types, Places
  <2>3. \A u \in Readers \ {t} : Untouched(u)
    BY <1>1, <1>2, <1>3, <1>4, <2>1, SMTT(30) DEF Untouched, Held, Types
  <2>4. rpc'[t] = "out"
    BY <1>2, <2>1 DEF Types
  <2>5. (Held(t) /\ Joining(t) /\ Reading(t) /\ Scanning(t) /\ Writing(t) /\ Given(t))'
    BY <1>1, <1>2, <2>1, <2>4, Zenon DEF Held, Joining, Reading, Scanning, Writing, Given, Live, Holds
  <2> QED BY <1>1, <2>2, <2>3, <2>5, OneThread
<1> QED
  BY <1>5, <1>6, <1>7, <1>8, <1>9, <1>10

LEMMA BlockStep ==
    ASSUME Inv, [Next]_vars
    PROVE  Inv'
<1> SUFFICES ASSUME config'.policy = "Block" PROVE BlockInv'
  BY Zenon DEF Inv
<1>1. CASE UNCHANGED vars
  <2>1. UNCHANGED <<config, buffer, writeSeq, active, readSeq, wpc, scan, rpc, local, start,
                    overtaken, got>>
    BY <1>1 DEF vars, writer, history
  <2>2. BlockInv
    BY <2>1 DEF Inv
  <2>3. Cap' = Cap /\ Cursors' = Cursors
    BY <2>1 DEF Cap, Cursors
  <2>4. Types' /\ Blocking'
    BY <2>1, <2>2, <2>3 DEF BlockInv, Types, Blocking
  <2>5. Buffered'
    <3>1. (SlotIndex(writeSeq))' = SlotIndex(writeSeq)
      BY <2>1, <2>3 DEF SlotIndex
    <3>2. \A q \in Nat : (SlotIndex(q))' = SlotIndex(q)
      BY <2>3 DEF SlotIndex
    <3> QED BY <2>1, <2>2, <2>3, <3>1, <3>2 DEF BlockInv, Buffered
  <2>6. ASSUME NEW t \in Readers
        PROVE  (Held(t) /\ Joining(t) /\ Reading(t) /\ Scanning(t) /\ Writing(t) /\ Given(t))'
    <3>1. Held(t) /\ Joining(t) /\ Reading(t) /\ Scanning(t) /\ Writing(t) /\ Given(t)
      BY <2>2 DEF BlockInv
    <3>2. (Live(t))' = Live(t) /\ (Position(t))' = Position(t)
      BY <2>1, Zenon DEF Live, Holds, Position
    <3>3. (Held(t) /\ Joining(t))' /\ (Given(t))'
      BY <2>1, <2>3, <3>1 DEF Held, Holds, Joining, Given
    <3>4. (Reading(t) /\ Scanning(t) /\ Writing(t))'
      BY <2>1, <2>3, <3>1, <3>2, Zenon DEF Reading, Scanning, Writing
    <3> QED BY <3>3, <3>4
  <2> QED BY <2>4, <2>5, <2>6 DEF BlockInv
<1>2. CASE Next
  <2>1. config' = config
    <3>1. CASE WriterNext
      BY <3>1 DEF WriterNext, Broadcast, ScanActive, ScanPosition, Decide, WaitForSlowest,
                  DropSlowest, WriteSlot, Publish, WriterStep
    <3>2. ASSUME NEW t \in Readers, ReaderNext(t) PROVE config' = config
      <4>1. ReaderStep
        BY <3>2 DEF ReaderNext, Subscribe, Claim, StorePosition, Read, LoadPosition, Compare,
                    CloneSlot, Advance, Unsubscribe, Deactivate
      <4> QED BY <4>1 DEF ReaderStep
    <3> QED BY <1>2, <3>1, <3>2 DEF Next
  <2>2. BlockInv
    BY <2>1 DEF Inv
  <2>3. ~DropSlowest
    BY <2>2 DEF DropSlowest, Scanned, BlockInv, Blocking
  <2> QED BY <1>2, <2>1, <2>2, <2>3, ScanKeeps, WriteKeeps, SubscribeKeeps, ReadKeeps
          DEF Next, WriterNext, ReaderNext
<1> QED
  BY <1>1, <1>2

\* Under Block every subscription that subscribe did not leave behind gets
\* each item from its start_seq on, in order and once, for any capacity,
\* number of cursors and threads and any sequence of calls.
THEOREM BlockReadsExact == Spec => []ReadsExact
<1>1. Init => Inv
  BY BlockInit DEF Inv
<1>2. Inv => ReadsExact
  BY DEF Inv, BlockInv, Given, ReadsExact
<1> QED
  BY <1>1, <1>2, BlockStep, PTL DEF Spec

\* Under Block broadcast never assigns a slot that such a subscription is
\* cloning: its SAFETY comment is right.
THEOREM BlockSlotAvailable == Spec => []SlotAvailable
<1>1. Init => Inv
  BY BlockInit DEF Inv
<1>2. ASSUME Inv PROVE SlotAvailable
  <2> SUFFICES ASSUME config.policy = "Block", NEW t \in Readers \ overtaken, Race(t)
               PROVE  FALSE
    BY DEF SlotAvailable
  <2>1. BlockInv /\ Held(t) /\ Reading(t) /\ Writing(t)
    BY <1>2 DEF Inv, BlockInv
  <2>2. Live(t) /\ rpc[t] = "clone" /\ wpc = "write"
    BY DEF Race, Live, Holds
  <2>3. /\ local[t].read = Position(t) /\ Position(t) < writeSeq /\ writeSeq < Position(t) + Cap
        /\ config \in Channels /\ Position(t) \in Nat /\ writeSeq \in Nat
    BY <2>1, <2>2 DEF Held, Reading, Writing, Live, BlockInv, Types, Position
  <2> QED BY <2>3, SlotsApart DEF Race
<1> QED
  BY <1>1, <1>2, BlockStep, PTL DEF Spec

=============================================================================
