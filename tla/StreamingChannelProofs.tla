----------------------- MODULE StreamingChannelProofs -----------------------
(***************************************************************************)
(* The streaming channel with owned producers, for any set of threads, any *)
(* capacity, any number of pushes and every backpressure strategy: slots   *)
(* are written by one thread at a time, the channel implements a bounded   *)
(* FIFO queue, no accepted item is lost, and Disconnected is final.        *)
(***************************************************************************)
EXTENDS StreamingChannel, Integers, TLAPS

\* The producers are owned: no deployment shares one between threads.
Owned == \A d \in Deployments : ~ d.shared

-----------------------------------------------------------------------------
(* Places in the ring.                                                     *)

LEMMA ModSmall ==
    ASSUME NEW n \in Nat, NEW k \in Nat, n < k
    PROVE  n % k = n
  OBVIOUS

LEMMA ModWraps ==
    ASSUME NEW n \in Nat, NEW k \in Nat, k <= n, n < 2 * k
    PROVE  n % k = n - k
  OBVIOUS

LEMMA CapNat == Cap \in Nat /\ Cap >= 4 /\ \A n \in Slots : n \in Nat /\ n < Cap
  BY ChannelAssumption DEF Slots

\* How far b is ahead of a: the published slots when a is where the consumer
\* reads and b is the tail.
Ahead(a, b) == (b + Cap - a) % Cap

LEMMA AheadIs ==
    ASSUME NEW a \in Slots, NEW b \in Slots
    PROVE  /\ Ahead(a, b) \in Nat /\ Ahead(a, b) < Cap
           /\ a <= b => Ahead(a, b) = b - a
           /\ b < a => Ahead(a, b) = b + Cap - a
<1>1. a \in Nat /\ b \in Nat /\ a < Cap /\ b < Cap /\ Cap \in Nat
  BY CapNat
<1>2. b + Cap - a \in Nat /\ b + Cap - a < 2 * Cap
  BY <1>1, SMT
<1>3. CASE a <= b
  <2>1. Ahead(a, b) = (b + Cap - a) - Cap
    <3> DEFINE k == b + Cap - a
    <3>1. k \in Nat /\ Cap \in Nat /\ Cap <= k /\ k < 2 * Cap
      BY <1>1, <1>2, <1>3, SMT
    <3>2. Ahead(a, b) = k % Cap
      BY DEF Ahead
    <3> HIDE DEF k
    <3>3. k % Cap = k - Cap
      BY <3>1, ModWraps, Zenon
    <3> QED BY <3>2, <3>3, Zenon DEF k
  <2> QED BY <1>1, <1>3, <2>1, SMT
<1>4. CASE b < a
  <2>1. Ahead(a, b) = b + Cap - a
    BY <1>1, <1>2, <1>4, ModSmall, SMT DEF Ahead
  <2> QED BY <1>1, <1>4, <2>1, SMT
<1> QED BY <1>1, <1>3, <1>4, SMT

LEMMA NextIs ==
    ASSUME NEW a \in Slots
    PROVE  /\ NextIndex(a) \in Slots
           /\ a + 1 < Cap => NextIndex(a) = a + 1
           /\ a + 1 = Cap => NextIndex(a) = 0
<1>1. a \in Nat /\ a < Cap /\ Cap \in Nat /\ Cap >= 4
  BY CapNat
<1>2. CASE a + 1 < Cap
  <2>1. NextIndex(a) = a + 1
    BY <1>1, <1>2, ModSmall, SMT DEF NextIndex
  <2> QED BY <1>1, <1>2, <2>1, SMT DEF Slots
<1>3. CASE a + 1 = Cap
  <2>1. NextIndex(a) = (a + 1) - Cap
    BY <1>1, <1>3, ModWraps, SMT DEF NextIndex
  <2> QED BY <1>1, <1>3, <2>1, SMT DEF Slots
<1> QED BY <1>1, <1>2, <1>3, SMT

LEMMA PlaceIs ==
    ASSUME NEW n \in Slots, NEW i \in 1 .. Cap
    PROVE  /\ (n + i - 1) % Cap \in Slots
           /\ n + i - 1 < Cap => (n + i - 1) % Cap = n + i - 1
           /\ Cap <= n + i - 1 => (n + i - 1) % Cap = n + i - 1 - Cap
<1>1. n \in Nat /\ n < Cap /\ Cap \in Nat /\ i \in Nat /\ 1 <= i /\ i <= Cap
  BY CapNat
<1>2. n + i - 1 \in Nat /\ n + i - 1 < 2 * Cap
  BY <1>1, SMT
<1>3. CASE n + i - 1 < Cap
  <2>1. (n + i - 1) % Cap = n + i - 1
    BY <1>1, <1>2, <1>3, ModSmall, SMT
  <2> QED BY <1>1, <1>2, <1>3, <2>1, SMT DEF Slots
<1>4. CASE Cap <= n + i - 1
  <2>1. (n + i - 1) % Cap = (n + i - 1) - Cap
    <3> DEFINE k == n + i - 1
    <3>1. k \in Nat /\ Cap \in Nat /\ Cap <= k /\ k < 2 * Cap
      BY <1>1, <1>2, <1>4
    <3> HIDE DEF k
    <3>2. k % Cap = k - Cap
      BY <3>1, ModWraps, Zenon
    <3> QED BY <3>2 DEF k
  <2> QED BY <1>1, <1>2, <1>4, <2>1, SMT DEF Slots
<1> QED BY <1>1, <1>3, <1>4, SMT

LEMMA AheadSelf == ASSUME NEW a \in Slots PROVE Ahead(a, a) = 0
  BY AheadIs, CapNat

\* The consumer reads between head and tail.
Between(h, n, t) == Ahead(h, n) + Ahead(n, t) = Ahead(h, t)

\* Moving the tail on is safe while the buffer is not full.
LEMMA AheadPut ==
    ASSUME NEW h \in Slots, NEW n \in Slots, NEW t \in Slots,
           Between(h, n, t), NextIndex(t) # h
    PROVE  /\ Between(h, n, NextIndex(t)) /\ NextIndex(t) # n
           /\ Ahead(n, NextIndex(t)) = Ahead(n, t) + 1
           /\ Ahead(n, t) + 1 < Cap
<1>1. /\ h \in Nat /\ n \in Nat /\ t \in Nat /\ h < Cap /\ n < Cap /\ t < Cap
      /\ Cap \in Nat /\ Cap >= 4
  BY CapNat
<1>2. NextIndex(t) \in Slots /\ NextIndex(t) = IF t + 1 < Cap THEN t + 1 ELSE 0
  BY <1>1, NextIs, SMT
<1>3. ASSUME NEW a \in Slots, NEW b \in Slots
      PROVE  Ahead(a, b) = IF a <= b THEN b - a ELSE b + Cap - a
  BY <1>3, CapNat, AheadIs, SMT
<1>4. /\ Ahead(h, n) = IF h <= n THEN n - h ELSE n + Cap - h
      /\ Ahead(n, t) = IF n <= t THEN t - n ELSE t + Cap - n
      /\ Ahead(h, t) = IF h <= t THEN t - h ELSE t + Cap - h
  BY <1>3
<1>5. ASSUME NEW u \in Slots
      PROVE  /\ Ahead(h, u) = IF h <= u THEN u - h ELSE u + Cap - h
             /\ Ahead(n, u) = IF n <= u THEN u - n ELSE u + Cap - n
  BY <1>3
<1> QED
  <2> DEFINE u == NextIndex(t)
  <2>1. /\ Ahead(h, u) = IF h <= u THEN u - h ELSE u + Cap - h
        /\ Ahead(n, u) = IF n <= u THEN u - n ELSE u + Cap - n
    BY <1>2, <1>5
  <2>2. u = (IF t + 1 < Cap THEN t + 1 ELSE 0) /\ u # h
    BY <1>2
  <2> HIDE DEF u
  <2>3. Between(h, n, u) /\ u # n /\ Ahead(n, u) = Ahead(n, t) + 1 /\ Ahead(n, t) + 1 < Cap
    BY <1>1, <1>4, <2>1, <2>2, SMT DEF Between
  <2> QED BY <2>3 DEF u

\* Reading a published slot moves the consumer towards the tail.
LEMMA AheadTake ==
    ASSUME NEW h \in Slots, NEW n \in Slots, NEW t \in Slots,
           Between(h, n, t), Ahead(n, t) # 0
    PROVE  /\ Between(h, NextIndex(n), t)
           /\ Ahead(NextIndex(n), t) = Ahead(n, t) - 1
<1>1. /\ h \in Nat /\ n \in Nat /\ t \in Nat /\ h < Cap /\ n < Cap /\ t < Cap
      /\ Cap \in Nat /\ Cap >= 4
  BY CapNat
<1>2. NextIndex(n) \in Slots /\ NextIndex(n) = IF n + 1 < Cap THEN n + 1 ELSE 0
  BY <1>1, NextIs, SMT
<1>3. ASSUME NEW a \in Slots, NEW b \in Slots
      PROVE  Ahead(a, b) = IF a <= b THEN b - a ELSE b + Cap - a
  BY <1>3, CapNat, AheadIs, SMT
<1>4. /\ Ahead(h, n) = IF h <= n THEN n - h ELSE n + Cap - h
      /\ Ahead(n, t) = IF n <= t THEN t - n ELSE t + Cap - n
      /\ Ahead(h, t) = IF h <= t THEN t - h ELSE t + Cap - h
  BY <1>3
<1> QED
  <2> DEFINE u == NextIndex(n)
  <2>1. /\ Ahead(h, u) = IF h <= u THEN u - h ELSE u + Cap - h
        /\ Ahead(u, t) = IF u <= t THEN t - u ELSE t + Cap - u
    BY <1>2, <1>3
  <2>2. u = IF n + 1 < Cap THEN n + 1 ELSE 0
    BY <1>2
  <2> HIDE DEF u
  <2>3. Between(h, u, t) /\ Ahead(u, t) = Ahead(n, t) - 1
    BY <1>1, <1>4, <2>1, <2>2, SMT DEF Between
  <2> QED BY <2>3 DEF u

-----------------------------------------------------------------------------
(* The slots the consumer has still to read, as a queue.                   *)

\* The a slots from n on.
Window(b, n, a) == [i \in 1 .. a |-> b[(n + i - 1) % Cap]]

LEMMA UnreadIs == Unread = Window(buffer, next, Ahead(next, tail)) /\ Available = Ahead(next, tail)
  BY DEF Unread, Window, Ahead, Available

\* A slot that is none of them may change.
LEMMA WindowKeeps ==
    ASSUME NEW S, NEW b \in [Slots -> S], NEW n \in Slots, NEW t \in Slots, NEW x
    PROVE  Window([b EXCEPT ![t] = x], n, Ahead(n, t)) = Window(b, n, Ahead(n, t))
<1>1. n \in Nat /\ t \in Nat /\ n < Cap /\ t < Cap /\ Cap \in Nat
  BY CapNat
<1>2. ASSUME NEW i \in 1 .. Ahead(n, t)
      PROVE  [b EXCEPT ![t] = x][(n + i - 1) % Cap] = b[(n + i - 1) % Cap]
  <2>1. /\ Ahead(n, t) \in Nat /\ Ahead(n, t) < Cap
        /\ n <= t => Ahead(n, t) = t - n
        /\ t < n => Ahead(n, t) = t + Cap - n
    BY AheadIs
  <2>2. i \in Nat /\ 1 <= i /\ i <= Ahead(n, t) /\ i \in 1 .. Cap
    BY <1>1, <2>1, SMT
  <2>3. /\ (n + i - 1) % Cap \in Slots
        /\ n + i - 1 < Cap => (n + i - 1) % Cap = n + i - 1
        /\ Cap <= n + i - 1 => (n + i - 1) % Cap = n + i - 1 - Cap
    BY <2>2, PlaceIs
  <2> DEFINE k == (n + i - 1) % Cap
  <2>4. k # t
    <3> HIDE DEF k
    <3>1. /\ k \in Slots
          /\ n + i - 1 < Cap => k = n + i - 1
          /\ Cap <= n + i - 1 => k = n + i - 1 - Cap
      BY <2>3 DEF k
    <3> QED BY <1>1, <2>1, <2>2, <3>1, SMT
  <2> QED BY <2>3, <2>4
<1> QED BY <1>2, Zenon DEF Window

LEMMA WindowPut ==
    ASSUME NEW b, NEW n \in Slots, NEW t \in Slots,
           Ahead(n, NextIndex(t)) = Ahead(n, t) + 1
    PROVE  Window(b, n, Ahead(n, NextIndex(t))) = Append(Window(b, n, Ahead(n, t)), b[t])
<1> DEFINE a == Ahead(n, t)
<1>1. n \in Nat /\ t \in Nat /\ n < Cap /\ t < Cap /\ Cap \in Nat
  BY CapNat
<1>2. /\ a \in Nat /\ a < Cap
      /\ n <= t => a = t - n
      /\ t < n => a = t + Cap - n
  BY AheadIs
<1>3. a + 1 \in 1 .. Cap
  BY <1>1, <1>2, SMT
<1>4. (n + (a + 1) - 1) % Cap = t
  <2>1. /\ n + (a + 1) - 1 < Cap => (n + (a + 1) - 1) % Cap = n + (a + 1) - 1
        /\ Cap <= n + (a + 1) - 1 => (n + (a + 1) - 1) % Cap = n + (a + 1) - 1 - Cap
    BY <1>3, PlaceIs
  <2> HIDE DEF a
  <2> QED BY <1>1, <1>2, <2>1, SMT
<1>5. Ahead(n, NextIndex(t)) = a + 1
  OBVIOUS
<1> HIDE DEF a
<1>6. Window(b, n, a + 1) = Append(Window(b, n, a), b[t])
  BY <1>2, <1>4 DEF Window
<1> QED BY <1>5, <1>6 DEF a

LEMMA WindowTake ==
    ASSUME NEW b, NEW n \in Slots, NEW t \in Slots,
           Ahead(NextIndex(n), t) = Ahead(n, t) - 1, Ahead(n, t) # 0
    PROVE  /\ Window(b, n, Ahead(n, t)) # <<>>
           /\ Window(b, NextIndex(n), Ahead(NextIndex(n), t)) = Tail(Window(b, n, Ahead(n, t)))
           /\ Head(Window(b, n, Ahead(n, t))) = b[n]
<1> DEFINE a == Ahead(n, t)
           w == Window(b, n, a)
<1>1. n \in Nat /\ n < Cap /\ Cap \in Nat
  BY CapNat
<1>2. a \in Nat /\ a < Cap /\ a # 0
  BY AheadIs
<1>3. Ahead(NextIndex(n), t) = a - 1
  OBVIOUS
<1> HIDE DEF a
<1>4. Len(w) = a /\ w # <<>>
  BY <1>2 DEF Window
<1>5. Head(w) = b[n]
  <2>1. 1 \in 1 .. a /\ n + 1 - 1 = n
    BY <1>1, <1>2, SMT
  <2>2. n % Cap = n
    BY <1>1, ModSmall
  <2>3. w[1] = b[n]
    BY <2>1, <2>2 DEF Window
  <2> QED BY <1>2, <2>3 DEF Window
<1>6. ASSUME NEW i \in 1 .. (a - 1)
      PROVE  (NextIndex(n) + i - 1) % Cap = (n + (i + 1) - 1) % Cap
  <2>1. i \in Nat /\ 1 <= i /\ i + 1 <= Cap /\ i \in 1 .. Cap /\ i + 1 \in 1 .. Cap
    BY <1>1, <1>2, SMT
  <2> DEFINE u == NextIndex(n)
             j == (u + i - 1) % Cap
             k == (n + (i + 1) - 1) % Cap
  <2>2. u \in Slots /\ (n + 1 < Cap => u = n + 1) /\ (n + 1 = Cap => u = 0)
    BY NextIs
  <2>3. u \in Nat
    BY <2>2, CapNat
  <2> HIDE DEF u
  <2>4. (u + i - 1 < Cap => j = u + i - 1) /\ (Cap <= u + i - 1 => j = u + i - 1 - Cap)
    BY <2>1, <2>2, PlaceIs
  <2>5. /\ n + (i + 1) - 1 < Cap => k = n + (i + 1) - 1
        /\ Cap <= n + (i + 1) - 1 => k = n + (i + 1) - 1 - Cap
    BY <2>1, PlaceIs
  <2> HIDE DEF j, k
  <2>6. j = k
    BY <1>1, <2>1, <2>2, <2>3, <2>4, <2>5, SMT
  <2> QED BY <2>6 DEF j, k, u
<1>7. Window(b, NextIndex(n), a - 1) = Tail(w)
  BY <1>2, <1>6 DEF Window
<1> QED BY <1>3, <1>4, <1>5, <1>7 DEF a

-----------------------------------------------------------------------------
(* Types.                                                                  *)

\* A push that has not put its item in the buffer yet ...
Unpublished == {"try", "mode", "lock", "tail", "head", "write", "publish", "unlock", "wait"}

\* ... and the part of it that one thread at a time may be in.
Pushing == {"tail", "head", "write", "publish"}

Cell == (Threads \X Nat) \cup {NoItem}

TypeInv ==
    /\ env \in Deployments /\ ~ env.shared
    /\ buffer \in [Slots -> Cell]
    /\ head \in Slots /\ tail \in Slots /\ next \in Slots
    /\ mode \in {"Spsc", "Mpsc"} /\ holds \subseteq Threads
    /\ pc \in [Threads -> Unpublished \cup {"idle", "unlockOk", "clone", "close"}]
    /\ slot \in [Threads -> Slots] /\ pushed \in [Threads -> Nat]
    /\ todo \in Int /\ received \in Seq(Cell)

LEMMA TypeInit == Owned /\ Init => TypeInv
<1> SUFFICES ASSUME Owned, Init PROVE TypeInv
  OBVIOUS
<1>1. env \in Deployments /\ ~ env.shared
  BY DEF Owned, Init
<1>2. 0 \in Slots
  BY CapNat DEF Slots
<1>3. /\ buffer \in [Slots -> Cell] /\ head \in Slots /\ tail \in Slots /\ next \in Slots
      /\ slot \in [Threads -> Slots] /\ pushed \in [Threads -> Nat]
  BY <1>2 DEF Init, Cell
<1>4. /\ mode \in {"Spsc", "Mpsc"} /\ todo \in Int /\ received \in Seq(Cell)
      /\ pc \in [Threads -> Unpublished \cup {"idle", "unlockOk", "clone", "close"}]
  BY DEF Init
<1>5. holds \subseteq Threads
  BY ChannelAssumption DEF Init
<1> QED BY <1>1, <1>3, <1>4, <1>5 DEF TypeInv

LEMMA TypeStep == TypeInv /\ [Next]_vars => TypeInv'
<1> SUFFICES ASSUME TypeInv, [Next]_vars PROVE TypeInv'
  OBVIOUS
<1>1. CASE UNCHANGED vars
  BY <1>1 DEF vars, ring, chan, prod, cons, TypeInv
<1>2. ASSUME NEW p \in Threads, Push(p) PROVE TypeInv'
  BY <1>2 DEF Push, Goto, TypeInv, Unpublished, ring, chan, cons
<1>3. ASSUME NEW p \in Threads, CheckClosed(p) \/ ReadMode(p) \/ WaitForSpace(p) PROVE TypeInv'
  BY <1>3, Zenon DEF CheckClosed, ReadMode, WaitForSpace, Goto, TypeInv, Unpublished, ring, chan, cons
<1>4. ASSUME NEW p \in Threads, AcquireMpscLock(p) PROVE TypeInv'
  BY <1>4 DEF AcquireMpscLock, Goto, TypeInv, Unpublished, ring, cons
<1>5. ASSUME NEW p \in Threads, LoadTail(p) PROVE TypeInv'
  BY <1>5 DEF LoadTail, Goto, TypeInv, Unpublished, ring, chan, cons
<1>6. ASSUME NEW p \in Threads, CheckFull(p) PROVE TypeInv'
  BY <1>6 DEF CheckFull, AfterFull, Goto, TypeInv, Unpublished, ring, chan, cons
<1>7. ASSUME NEW p \in Threads, WriteSlot(p) PROVE TypeInv'
  <2>1. UNCHANGED <<env, head, tail, mode, holds, slot, pushed, next, todo, received>>
    BY <1>7 DEF WriteSlot, chan, cons
  <2>2. pc' \in [Threads -> Unpublished \cup {"idle", "unlockOk", "clone", "close"}]
    BY <1>7 DEF WriteSlot, Goto, TypeInv, Unpublished
  <2>3. buffer' \in [Slots -> Cell]
    <3>1. Item(p) \in Cell
      BY DEF TypeInv, Item, Cell
    <3> QED BY <1>7, <3>1 DEF WriteSlot, TypeInv
  <2> QED BY <2>1, <2>2, <2>3 DEF TypeInv
<1>8. ASSUME NEW p \in Threads, Publish(p) PROVE TypeInv'
  <2>1. UNCHANGED <<env, buffer, head, mode, holds, slot, pushed, next, todo, received>>
    BY <1>8 DEF Publish, chan, cons
  <2>2. pc' \in [Threads -> Unpublished \cup {"idle", "unlockOk", "clone", "close"}]
    BY <1>8 DEF Publish, Goto, TypeInv, Unpublished
  <2>3. tail' \in Slots
    BY <1>8, NextIs DEF Publish, TypeInv
  <2> QED BY <2>1, <2>2, <2>3 DEF TypeInv
<1>9. ASSUME NEW p \in Threads, ReleaseMpscLock(p) PROVE TypeInv'
  <2>1. UNCHANGED <<env, buffer, head, tail, mode, holds, slot, pushed, next, todo, received>>
    BY <1>9 DEF ReleaseMpscLock, ring, cons
  <2>2. pc' \in [Threads -> Unpublished \cup {"idle", "unlockOk", "clone", "close"}]
    BY <1>9 DEF ReleaseMpscLock, AfterFull, Goto, TypeInv, Unpublished
  <2> QED BY <2>1, <2>2 DEF TypeInv
<1>10. ASSUME NEW p \in Threads, UpgradeToMpsc(p) PROVE TypeInv'
  BY <1>10 DEF UpgradeToMpsc, Goto, TypeInv, Unpublished, ring, cons
<1>11. ASSUME NEW p \in Threads, AddProducer(p) PROVE TypeInv'
  BY <1>11 DEF AddProducer, Goto, TypeInv, Unpublished, ring, cons
<1>12. ASSUME NEW p \in Threads, DropProducer(p) PROVE TypeInv'
  BY <1>12 DEF DropProducer, Goto, TypeInv, Unpublished, ring, cons
<1>13. ASSUME NEW p \in Threads, CloseChannel(p) PROVE TypeInv'
  BY <1>13 DEF CloseChannel, Goto, TypeInv, Unpublished, ring, cons
<1>14. ASSUME NEW o \in Calls, Call(o) PROVE TypeInv'
  BY <1>14 DEF Call, TypeInv, ring, chan, prod
<1>15. CASE CheckEmpty
  <2>1. UNCHANGED <<env, buffer, head, tail, mode, holds, pc, slot, pushed, next, received>>
    BY <1>15 DEF CheckEmpty, ring, chan, prod
  <2>2. Available \in Nat
    BY UnreadIs, AheadIs DEF TypeInv
  <2>3. todo' \in Int
    BY <1>15, <2>2 DEF CheckEmpty, TypeInv
  <2> QED BY <2>1, <2>3 DEF TypeInv
<1>16. CASE ReadSlot
  <2>1. UNCHANGED <<env, buffer, head, tail, mode, holds, pc, slot, pushed>>
    BY <1>16 DEF ReadSlot, ring, chan, prod
  <2>2. next' \in Slots /\ received' \in Seq(Cell)
    BY <1>16, NextIs DEF ReadSlot, TypeInv
  <2>3. todo' \in Int
    BY <1>16 DEF ReadSlot, TypeInv
  <2> QED BY <2>1, <2>2, <2>3 DEF TypeInv
<1>17. CASE StoreHead
  BY <1>17 DEF StoreHead, TypeInv, chan, prod
<1>18. CASE LoadClosed \/ LoadEmpty \/ Again \/ DropConsumer
  BY <1>18 DEF LoadClosed, LoadEmpty, Again, DropConsumer, TypeInv, ring, chan, prod
<1> QED
  BY <1>1, <1>2, <1>3, <1>4, <1>5, <1>6, <1>7, <1>8, <1>9, <1>10, <1>11, <1>12, <1>13, <1>14,
     <1>15, <1>16, <1>17, <1>18, Zenon
     DEF Next, PushStep, ConsumerStep, Done

-----------------------------------------------------------------------------
(* One thread at a time is inside a push.                                  *)

\* Before the first clone only the thread that created the channel has a
\* producer; after it, whoever pushes holds the spin lock.
LockOf(p) ==
    /\ pc[p] \in Pushing => mode = "Spsc" \/ lock = p
    /\ pc[p] \in {"unlock", "unlockOk"} => lock = p
    /\ pc[p] \in {"lock", "clone"} => mode = "Mpsc"
    /\ pc[p] \notin {"idle", "close"} => p \in holds

Alone ==
    mode = "Spsc" => /\ lock = NoThread
                     /\ \A p \in Threads \ {First} : p \notin holds /\ pc[p] = "idle"

LockInv == Alone /\ \A p \in Threads : LockOf(p)

LEMMA LockInit == TypeInv /\ Init => LockInv
  BY ChannelAssumption DEF TypeInv, Init, LockInv, Alone, LockOf, Pushing

\* The thread moves on, the others stay where they are.
LEMMA GotoIs ==
    ASSUME TypeInv, NEW p \in Threads, NEW from, NEW to, Goto(p, from, to)
    PROVE  pc[p] = from /\ pc'[p] = to /\ \A q \in Threads \ {p} : pc'[q] = pc[q]
  BY DEF Goto, TypeInv

LEMMA LockStep == TypeInv /\ LockInv /\ [Next]_vars => LockInv'
<1> SUFFICES ASSUME TypeInv, LockInv, [Next]_vars PROVE LockInv'
  OBVIOUS
<1>1. ASSUME UNCHANGED <<mode, lock, holds, pc>> PROVE LockInv'
  BY <1>1, Zenon DEF LockInv, LockOf, Alone
<1>2. ASSUME NEW p \in Threads, UNCHANGED <<mode, lock, holds>>,
             pc[p] # "idle" \/ p \in holds, LockOf(p)',
             \A q \in Threads \ {p} : pc'[q] = pc[q]
      PROVE  LockInv'
  <2>1. ASSUME NEW q \in Threads PROVE LockOf(q)'
    <3>1. CASE q = p
      BY <1>2, <3>1, Zenon
    <3>2. CASE q # p
      BY <1>2, <3>2, Zenon DEF LockInv, LockOf
    <3> QED BY <3>1, <3>2, Zenon
  <2>2. ASSUME mode = "Spsc", NEW q \in Threads \ {First} PROVE q \notin holds /\ pc'[q] = "idle"
    <3>1. p = First
      BY <1>2, <2>2, Zenon DEF LockInv, Alone
    <3> QED BY <1>2, <2>2, <3>1, Zenon DEF LockInv, Alone
  <2>3. Alone'
    BY <1>2, <2>2, Zenon DEF LockInv, Alone
  <2> QED BY <2>1, <2>3, Zenon DEF LockInv
<1>3. ASSUME NEW p \in Threads, NEW from, NEW to, Goto(p, from, to),
             UNCHANGED <<mode, lock, holds>>, p \in holds,
             to \in Pushing => from \in Pushing \/ mode = "Spsc" \/ lock = p,
             to \in {"unlock", "unlockOk"} => lock = p,
             to = "lock" => mode = "Mpsc", to # "clone"
      PROVE  LockInv'
  <2>1. pc[p] = from /\ pc'[p] = to /\ \A q \in Threads \ {p} : pc'[q] = pc[q]
    BY <1>3, GotoIs, Zenon
  <2>2. LockOf(p)
    BY <1>3, Zenon DEF LockInv
  <2>3. LockOf(p)'
    BY <1>3, <2>1, <2>2, Zenon DEF LockOf
  <2> QED BY <1>2, <1>3, <2>1, <2>3, Zenon
<1>4. ASSUME NEW p \in Threads, pc[p] \notin {"idle", "close"} PROVE p \in holds /\ LockOf(p)
  BY <1>4, Zenon DEF LockInv, LockOf
<1>5. ASSUME NEW p \in Threads, Push(p) PROVE LockInv'
  <2>1. Goto(p, "idle", "try") /\ UNCHANGED <<mode, lock, holds>> /\ p \in holds
    BY <1>5 DEF Push, chan
  <2> QED BY <1>3, <2>1 DEF Pushing
<1>6. ASSUME NEW p \in Threads, CheckClosed(p) PROVE LockInv'
  <2>1. UNCHANGED <<mode, lock, holds>> /\ pc[p] = "try"
        /\ (Goto(p, "try", "idle") \/ Goto(p, "try", "mode"))
    BY <1>6, Zenon DEF CheckClosed, Goto, chan
  <2>2. p \in holds
    BY <1>4, <2>1
  <2> QED BY <1>3, <2>1, <2>2 DEF Pushing
<1>7. ASSUME NEW p \in Threads, ReadMode(p) PROVE LockInv'
  <2>1. /\ UNCHANGED <<mode, lock, holds>>
        /\ mode = "Mpsc" => Goto(p, "mode", "lock")
        /\ mode # "Mpsc" => Goto(p, "mode", "tail")
    BY <1>7, Zenon DEF ReadMode, chan
  <2>2. p \in holds /\ mode \in {"Mpsc", "Spsc"}
    BY <1>4, <2>1 DEF Goto, TypeInv
  <2> QED BY <1>3, <2>1, <2>2 DEF Pushing
<1>8. ASSUME NEW p \in Threads, LoadTail(p) \/ WriteSlot(p) PROVE LockInv'
  <2>1. UNCHANGED <<mode, lock, holds>>
        /\ (Goto(p, "tail", "head") \/ Goto(p, "write", "publish"))
    BY <1>8 DEF LoadTail, WriteSlot, chan
  <2>2. p \in holds
    BY <1>4, <2>1 DEF Goto
  <2> QED BY <1>3, <2>1, <2>2 DEF Pushing
<1>9. ASSUME NEW p \in Threads, CheckFull(p) PROVE LockInv'
  <2>1. UNCHANGED <<mode, lock, holds>>
        /\ \/ Goto(p, "head", "write") \/ Goto(p, "head", "wait") \/ Goto(p, "head", "idle")
           \/ lock = p /\ Goto(p, "head", "unlock")
    BY <1>9 DEF CheckFull, AfterFull, chan
  <2>2. p \in holds
    BY <1>4, <2>1 DEF Goto
  <2> QED BY <1>3, <2>1, <2>2 DEF Pushing
<1>10. ASSUME NEW p \in Threads, Publish(p) PROVE LockInv'
  <2>1. /\ UNCHANGED <<mode, lock, holds>>
        /\ lock = p => Goto(p, "publish", "unlockOk")
        /\ lock # p => Goto(p, "publish", "idle")
    BY <1>10, Zenon DEF Publish, chan
  <2>2. p \in holds
    BY <1>4, <2>1 DEF Goto
  <2> QED BY <1>3, <2>1, <2>2 DEF Pushing
<1>11. ASSUME NEW p \in Threads, WaitForSpace(p) PROVE LockInv'
  <2>1. UNCHANGED <<mode, lock, holds>> /\ Goto(p, "wait", "try")
    BY <1>11 DEF WaitForSpace, chan
  <2>2. p \in holds
    BY <1>4, <2>1 DEF Goto
  <2> QED BY <1>3, <2>1, <2>2 DEF Pushing
<1>12. ASSUME NEW p \in Threads, AcquireMpscLock(p) PROVE LockInv'
  <2>1. /\ UNCHANGED <<mode, holds>> /\ lock = NoThread /\ lock' = p
        /\ pc[p] = "lock" /\ pc'[p] = "tail" /\ \A q \in Threads \ {p} : pc'[q] = pc[q]
    BY <1>12, GotoIs DEF AcquireMpscLock
  <2>2. mode = "Mpsc" /\ p \in holds
    BY <1>4, <2>1 DEF LockOf
  <2>3. LockOf(p)'
    BY <2>1, <2>2 DEF LockOf
  <2>4. ASSUME NEW q \in Threads, q # p PROVE LockOf(q)'
    <3>1. LockOf(q) /\ lock # q
      BY <2>1, ChannelAssumption DEF LockInv
    <3>2. pc[q] \notin Pushing /\ pc[q] \notin {"unlock", "unlockOk"}
      BY <2>2, <3>1, Zenon DEF LockOf
    <3> QED BY <2>1, <2>4, <3>1, <3>2, Zenon DEF LockOf
  <2> QED BY <2>1, <2>2, <2>3, <2>4, Zenon DEF LockInv, Alone
<1>13. ASSUME NEW p \in Threads, ReleaseMpscLock(p) PROVE LockInv'
  <2>1. /\ UNCHANGED <<mode, holds>> /\ lock' = NoThread
        /\ pc[p] \in {"unlock", "unlockOk"} /\ pc'[p] \in {"idle", "wait"}
        /\ \A q \in Threads \ {p} : pc'[q] = pc[q]
    BY <1>13, GotoIs DEF ReleaseMpscLock, AfterFull
  <2>2. lock = p /\ p \in holds
    BY <1>4, <2>1 DEF LockOf
  <2>3. mode # "Spsc"
    BY <2>2, ChannelAssumption DEF LockInv, Alone
  <2>4. LockOf(p)'
    BY <2>1, <2>2 DEF LockOf, Pushing
  <2>5. ASSUME NEW q \in Threads, q # p PROVE LockOf(q)'
    BY <2>1, <2>2, <2>3, <2>5, Zenon DEF LockInv, LockOf
  <2> QED BY <2>1, <2>3, <2>4, <2>5, Zenon DEF LockInv, Alone
<1>14. ASSUME NEW p \in Threads, UpgradeToMpsc(p) PROVE LockInv'
  <2>1. /\ UNCHANGED <<lock, holds>> /\ mode' = "Mpsc" /\ p \in holds
        /\ pc[p] = "idle" /\ pc'[p] = "clone" /\ \A q \in Threads \ {p} : pc'[q] = pc[q]
    BY <1>14, GotoIs DEF UpgradeToMpsc
  <2>2. LockOf(p)'
    BY <2>1 DEF LockOf, Pushing
  <2>3. ASSUME NEW q \in Threads, q # p PROVE LockOf(q)'
    <3>1. pc[q] \in Pushing => lock = q
      <4>1. CASE mode = "Spsc"
        <5>1. p = First
          BY <2>1, <4>1, Zenon DEF LockInv, Alone
        <5>2. pc[q] = "idle"
          BY <2>3, <4>1, <5>1, Zenon DEF LockInv, Alone
        <5> QED BY <5>2 DEF Pushing
      <4>2. CASE mode # "Spsc"
        BY <4>2, Zenon DEF LockInv, LockOf
      <4> QED BY <4>1, <4>2, Zenon
    <3> QED BY <2>1, <2>3, <3>1, Zenon DEF LockInv, LockOf
  <2> QED BY <2>1, <2>2, <2>3 DEF LockInv, Alone
<1>15. ASSUME NEW p \in Threads, AddProducer(p) PROVE LockInv'
  <2>1. /\ UNCHANGED <<mode, lock>> /\ holds \subseteq holds'
        /\ pc[p] = "clone" /\ pc'[p] = "idle" /\ \A q \in Threads \ {p} : pc'[q] = pc[q]
    BY <1>15, GotoIs DEF AddProducer
  <2>2. mode = "Mpsc"
    BY <1>4, <2>1 DEF LockOf
  <2>3. LockOf(p)'
    BY <2>1 DEF LockOf, Pushing
  <2>4. ASSUME NEW q \in Threads, q # p PROVE LockOf(q)'
    BY <2>1, <2>4, Zenon DEF LockInv, LockOf
  <2> QED BY <2>1, <2>2, <2>3, <2>4 DEF LockInv, Alone
<1>16. ASSUME NEW p \in Threads, DropProducer(p) PROVE LockInv'
  <2>1. /\ UNCHANGED <<mode, lock>> /\ holds' = holds \ {p} /\ p \in holds
        /\ pc'[p] \in {"idle", "close"} /\ \A q \in Threads \ {p} : pc'[q] = pc[q]
    BY <1>16, GotoIs DEF DropProducer
  <2>2. LockOf(p)'
    BY <2>1 DEF LockOf, Pushing
  <2>3. ASSUME NEW q \in Threads, q # p PROVE LockOf(q)'
    BY <2>1, <2>3, Zenon DEF LockInv, LockOf
  <2>4. Alone'
    BY <2>1, Zenon DEF LockInv, Alone
  <2> QED BY <2>2, <2>3, <2>4, Zenon DEF LockInv
<1>17. ASSUME NEW p \in Threads, CloseChannel(p) PROVE LockInv'
  <2>1. UNCHANGED <<mode, lock, holds>> /\ pc[p] = "close" /\ pc'[p] = "idle"
        /\ \A q \in Threads \ {p} : pc'[q] = pc[q]
    BY <1>17, GotoIs DEF CloseChannel
  <2>2. LockOf(p)'
    BY <2>1 DEF LockOf, Pushing
  <2> QED BY <1>2, <2>1, <2>2
<1>18. ASSUME NEW o \in Calls, Call(o) PROVE LockInv'
  BY <1>1, <1>18 DEF Call, chan, prod
<1>19. CASE ConsumerStep \/ DropConsumer
  BY <1>1, <1>19, Zenon
     DEF ConsumerStep, CheckEmpty, ReadSlot, StoreHead, LoadClosed, LoadEmpty, Again, DropConsumer,
         chan, prod
<1>20. CASE UNCHANGED vars
  BY <1>1, <1>20 DEF vars, chan, prod
<1> QED
  BY <1>5, <1>6, <1>7, <1>8, <1>9, <1>10, <1>11, <1>12, <1>13, <1>14, <1>15, <1>16, <1>17,
     <1>18, <1>19, <1>20, Zenon
     DEF Next, PushStep, Done

LEMMA OneWriter ==
    ASSUME LockInv, NEW p \in Threads, NEW q \in Threads, pc[p] \in Pushing, pc[q] \in Pushing
    PROVE  p = q
<1>1. CASE mode = "Spsc"
  <2>1. pc[p] # "idle" /\ pc[q] # "idle"
    BY DEF Pushing
  <2> QED BY <1>1, <2>1, Zenon DEF LockInv, Alone
<1>2. CASE mode # "Spsc"
  BY <1>2, Zenon DEF LockInv, LockOf
<1> QED BY <1>1, <1>2, Zenon

-----------------------------------------------------------------------------
(* The three positions of the ring.                                        *)

\* A push that has loaded the tail and found room still has both: nobody else
\* moves the tail, and the consumer only makes more room.
RingOf(p) ==
    /\ pc[p] \in {"head", "write", "publish"} => slot[p] = tail
    /\ pc[p] \in {"write", "publish"} => NextIndex(tail) # head

Reader ==
    /\ cpc \notin {"read", "store"} => head = next
    /\ cpc = "read" => 1 <= todo /\ todo <= Ahead(next, tail)

RingInv == Between(head, next, tail) /\ Reader /\ \A p \in Threads : RingOf(p)

LEMMA RingInit == TypeInv /\ Init => RingInv
<1> SUFFICES ASSUME TypeInv, Init PROVE RingInv
  OBVIOUS
<1>1. head = 0 /\ next = 0 /\ tail = 0 /\ cpc = "idle" /\ \A p \in Threads : pc[p] = "idle"
  BY DEF Init
<1>2. Ahead(0, 0) = 0
  BY <1>1, AheadSelf DEF TypeInv
<1> QED BY <1>1, <1>2 DEF RingInv, Between, Reader, RingOf

LEMMA RingStep == TypeInv /\ LockInv /\ RingInv /\ [Next]_vars => RingInv'
<1> SUFFICES ASSUME TypeInv, LockInv, RingInv, [Next]_vars PROVE RingInv'
  OBVIOUS
<1>1. ASSUME UNCHANGED <<head, tail, next, slot, pc>>, Reader' PROVE RingInv'
  BY <1>1, Zenon DEF RingInv, RingOf
<1>2. ASSUME NEW p \in Threads, UNCHANGED <<head, tail, next, cpc, todo>>, RingOf(p)',
             \A q \in Threads \ {p} : pc'[q] = pc[q] /\ slot'[q] = slot[q]
      PROVE  RingInv'
  <2>1. ASSUME NEW q \in Threads PROVE RingOf(q)'
    <3>1. CASE q = p
      BY <1>2, <3>1, Zenon
    <3>2. CASE q # p
      BY <1>2, <3>2, Zenon DEF RingInv, RingOf
    <3> QED BY <3>1, <3>2, Zenon
  <2> QED BY <1>2, <2>1, Zenon DEF RingInv, Reader
<1>3. ASSUME NEW p \in Threads, NEW from, NEW to, Goto(p, from, to),
             UNCHANGED <<head, tail, next, slot, cpc, todo>>, to \notin {"head", "write", "publish"}
      PROVE  RingInv'
  <2>1. pc'[p] = to /\ \A q \in Threads \ {p} : pc'[q] = pc[q]
    BY <1>3, GotoIs, Zenon
  <2>2. RingOf(p)'
    BY <1>3, <2>1 DEF RingOf
  <2> QED BY <1>2, <1>3, <2>1, <2>2, Zenon
<1>4. ASSUME NEW p \in Threads, Push(p) PROVE RingInv'
  BY <1>3, <1>4 DEF Push, ring, cons
<1>5. ASSUME NEW p \in Threads, CheckClosed(p) PROVE RingInv'
  <2>1. \E to \in {"idle", "mode"} : Goto(p, "try", to)
    BY <1>5, Zenon DEF CheckClosed
  <2> QED BY <1>3, <1>5, <2>1 DEF CheckClosed, ring, cons
<1>6. ASSUME NEW p \in Threads, ReadMode(p) PROVE RingInv'
  <2>1. \E to \in {"lock", "tail"} : Goto(p, "mode", to)
    BY <1>6, Zenon DEF ReadMode
  <2> QED BY <1>3, <1>6, <2>1 DEF ReadMode, ring, cons
<1>7. ASSUME NEW p \in Threads, AcquireMpscLock(p) \/ WaitForSpace(p) \/ UpgradeToMpsc(p)
      PROVE  RingInv'
  BY <1>3, <1>7 DEF AcquireMpscLock, WaitForSpace, UpgradeToMpsc, ring, cons
<1>8. ASSUME NEW p \in Threads, AddProducer(p) \/ CloseChannel(p) PROVE RingInv'
  BY <1>3, <1>8 DEF AddProducer, CloseChannel, ring, cons
<1>9. ASSUME NEW p \in Threads, DropProducer(p) PROVE RingInv'
  <2>1. \E to \in {"close", "idle"} : Goto(p, "idle", to)
    BY <1>9, Zenon DEF DropProducer
  <2> QED BY <1>3, <1>9, <2>1 DEF DropProducer, ring, cons
<1>10. ASSUME NEW p \in Threads, ReleaseMpscLock(p) PROVE RingInv'
  <2>1. \E from \in {"unlock", "unlockOk"}, to \in {"idle", "wait"} : Goto(p, from, to)
    BY <1>10 DEF ReleaseMpscLock, AfterFull
  <2> QED BY <1>3, <1>10, <2>1 DEF ReleaseMpscLock, ring, cons
<1>11. ASSUME NEW p \in Threads, LoadTail(p) PROVE RingInv'
  <2>1. /\ UNCHANGED <<head, tail, next, cpc, todo>> /\ pc'[p] = "head" /\ slot'[p] = tail
        /\ \A q \in Threads \ {p} : pc'[q] = pc[q] /\ slot'[q] = slot[q]
    BY <1>11, GotoIs DEF LoadTail, TypeInv, ring, cons
  <2>2. RingOf(p)'
    BY <2>1 DEF RingOf
  <2> QED BY <1>2, <2>1, <2>2, Zenon
<1>12. ASSUME NEW p \in Threads, CheckFull(p) PROVE RingInv'
  <2>1. UNCHANGED <<head, tail, next, slot, cpc, todo>>
    BY <1>12 DEF CheckFull, ring, cons
  <2>2. CASE NextIndex(slot[p]) = head
    <3>1. \E to \in {"unlock", "wait", "idle"} : Goto(p, "head", to)
      BY <1>12, <2>2 DEF CheckFull, AfterFull
    <3> QED BY <1>3, <2>1, <3>1
  <2>3. CASE NextIndex(slot[p]) # head
    <3>1. Goto(p, "head", "write")
      BY <1>12, <2>3, Zenon DEF CheckFull
    <3>2. pc[p] = "head" /\ pc'[p] = "write" /\ \A q \in Threads \ {p} : pc'[q] = pc[q]
      BY <3>1, GotoIs, Zenon
    <3>3. slot[p] = tail
      BY <3>2 DEF RingInv, RingOf
    <3>4. RingOf(p)'
      BY <2>1, <2>3, <3>2, <3>3 DEF RingOf, NextIndex
    <3> QED BY <1>2, <2>1, <3>2, <3>4, Zenon
  <2> QED BY <2>2, <2>3, Zenon
<1>13. ASSUME NEW p \in Threads, WriteSlot(p) PROVE RingInv'
  <2>1. /\ UNCHANGED <<head, tail, next, slot, cpc, todo>> /\ pc[p] = "write" /\ pc'[p] = "publish"
        /\ \A q \in Threads \ {p} : pc'[q] = pc[q]
    BY <1>13, GotoIs DEF WriteSlot, cons
  <2>2. RingOf(p)
    BY Zenon DEF RingInv
  <2>3. RingOf(p)'
    BY <2>1, <2>2 DEF RingOf, NextIndex
  <2> QED BY <1>2, <2>1, <2>3, Zenon
<1>14. ASSUME NEW p \in Threads, Publish(p) PROVE RingInv'
  <2>1. /\ UNCHANGED <<head, next, slot, cpc, todo>> /\ pc[p] = "publish"
        /\ pc'[p] \in {"unlockOk", "idle"} /\ \A q \in Threads \ {p} : pc'[q] = pc[q]
    BY <1>14, GotoIs DEF Publish, cons
  <2>2. slot[p] = tail /\ NextIndex(tail) # head
    BY <2>1 DEF RingInv, RingOf
  <2>3. tail' = NextIndex(tail)
    BY <1>14, <2>2, Zenon DEF Publish
  <2>4. /\ Between(head, next, tail') /\ Ahead(next, tail') = Ahead(next, tail) + 1
        /\ Ahead(next, tail) \in Nat
    <3>1. head \in Slots /\ next \in Slots /\ tail \in Slots /\ Between(head, next, tail)
      BY Zenon DEF TypeInv, RingInv
    <3>2. /\ Between(head, next, NextIndex(tail))
          /\ Ahead(next, NextIndex(tail)) = Ahead(next, tail) + 1
      BY <2>2, <3>1, AheadPut
    <3>3. Ahead(next, tail) \in Nat
      BY <3>1, AheadIs, Zenon
    <3> QED BY <2>3, <3>2, <3>3, Zenon
  <2>5. Between(head, next, tail)'
    BY <2>1, <2>4, Zenon DEF Between, Ahead
  <2>6. Reader'
    <3>1. (Ahead(next, tail))' = Ahead(next, tail')
      BY <2>1, Zenon DEF Ahead
    <3>2. cpc \notin {"read", "store"} => head = next
      BY Zenon DEF RingInv, Reader
    <3>3. cpc = "read" => 1 <= todo /\ todo <= Ahead(next, tail) /\ todo \in Int
      BY Zenon DEF RingInv, Reader, TypeInv
    <3>4. cpc = "read" => 1 <= todo /\ todo <= Ahead(next, tail')
      BY <2>4, <3>3, SMT
    <3> QED BY <2>1, <3>1, <3>2, <3>4, Zenon DEF Reader
  <2>7. ASSUME NEW q \in Threads PROVE RingOf(q)'
    <3>1. CASE q = p
      BY <2>1, <3>1 DEF RingOf
    <3>2. CASE q # p
      <4>1. pc[p] \in Pushing
        BY <2>1 DEF Pushing
      <4>2. pc[q] \notin Pushing
        BY <3>2, <4>1, OneWriter, Zenon
      <4>3. pc'[q] \notin {"head", "write", "publish"}
        BY <2>1, <3>2, <4>2 DEF Pushing
      <4> QED BY <4>3 DEF RingOf
    <3> QED BY <3>1, <3>2, Zenon
  <2> QED BY <2>5, <2>6, <2>7, Zenon DEF RingInv
<1>15. ASSUME UNCHANGED <<head, tail, next, slot, pc>>, cpc \notin {"read", "store"},
              cpc' \notin {"read", "store"}
       PROVE  RingInv'
  <2>1. Reader'
    BY <1>15 DEF RingInv, Reader
  <2> QED BY <1>1, <1>15, <2>1, Zenon
<1>16. ASSUME NEW o \in Calls, Call(o) PROVE RingInv'
  BY <1>15, <1>16 DEF Call, ring, prod
<1>17. CASE LoadClosed \/ LoadEmpty
  BY <1>15, <1>17 DEF LoadClosed, LoadEmpty, CGoto, ring, prod
<1>18. CASE Again \/ DropConsumer
  BY <1>15, <1>18 DEF Again, DropConsumer, CGoto, ring, prod
<1>19. CASE CheckEmpty
  <2>1. UNCHANGED <<head, tail, next, slot, pc>> /\ cpc = "check"
    BY <1>19 DEF CheckEmpty, CGoto, ring, prod
  <2>2. CASE Available = 0
    BY <1>15, <1>19, <2>1, <2>2 DEF CheckEmpty, CGoto
  <2>3. CASE Available # 0
    <3>1. Available = Ahead(next, tail) /\ Ahead(next, tail) \in Nat
      BY UnreadIs, AheadIs DEF TypeInv
    <3>2. cpc' = "read" /\ todo' \in IF op = "pop_each" THEN 1 .. Available ELSE {1}
      BY <1>19, <2>3 DEF CheckEmpty, CGoto
    <3>3. 1 <= todo' /\ todo' <= Ahead(next, tail)
      BY <2>3, <3>1, <3>2
    <3>4. Reader'
      BY <2>1, <3>2, <3>3 DEF Reader, Ahead
    <3> QED BY <1>1, <2>1, <3>4, Zenon
  <2> QED BY <2>2, <2>3, Zenon
<1>20. CASE ReadSlot
  <2>1. /\ UNCHANGED <<head, tail, slot, pc>> /\ cpc = "read" /\ next' = NextIndex(next)
        /\ todo' = todo - 1 /\ cpc' = IF todo = 1 THEN "store" ELSE "read"
    BY <1>20 DEF ReadSlot, CGoto, ring, prod
  <2>2. /\ 1 <= todo /\ todo <= Ahead(next, tail) /\ todo \in Int
        /\ Ahead(next, tail) \in Nat
    BY <2>1, AheadIs DEF RingInv, Reader, TypeInv
  <2>3. Ahead(next, tail) # 0
    BY <2>2, SMT
  <2>4. Between(head, next', tail) /\ Ahead(next', tail) = Ahead(next, tail) - 1
    BY <2>1, <2>3, AheadTake, Zenon DEF TypeInv, RingInv
  <2>5. Between(head, next, tail)' /\ (Ahead(next, tail))' = Ahead(next', tail)
    BY <2>1, <2>4, Zenon DEF Between, Ahead
  <2>6. cpc' = "read" => 1 <= todo' /\ todo' <= Ahead(next', tail)
    BY <2>1, <2>2, <2>4, SMT
  <2>7. Reader'
    BY <2>1, <2>5, <2>6 DEF Reader
  <2>8. ASSUME NEW q \in Threads PROVE RingOf(q)'
    BY <2>1, Zenon DEF RingInv, RingOf
  <2> QED BY <2>5, <2>7, <2>8, Zenon DEF RingInv
<1>21. CASE StoreHead
  <2>1. UNCHANGED <<next, tail, slot, pc>> /\ head' = next /\ cpc' = "idle"
    BY <1>21 DEF StoreHead, CGoto, prod
  <2>2. Ahead(next, next) = 0 /\ Ahead(next, tail) \in Nat
    BY AheadSelf, AheadIs DEF TypeInv
  <2>3. Between(next, next, tail)
    BY <2>2 DEF Between
  <2>4. Between(head, next, tail)' /\ Reader'
    BY <2>1, <2>3 DEF Between, Reader, Ahead
  <2>5. ASSUME NEW q \in Threads PROVE RingOf(q)'
    <3>1. NextIndex(tail) # head => NextIndex(tail) # next
      BY AheadPut, Zenon DEF TypeInv, RingInv
    <3> QED BY <2>1, <3>1, Zenon DEF RingInv, RingOf, NextIndex
  <2> QED BY <2>4, <2>5, Zenon DEF RingInv
<1>22. CASE UNCHANGED vars
  <2>1. UNCHANGED <<head, tail, next, slot, pc, cpc, todo>>
    BY <1>22 DEF vars, ring, prod, cons
  <2> QED BY <1>1, <2>1, Zenon DEF RingInv, Reader, Ahead
<1> QED
  BY <1>4, <1>5, <1>6, <1>7, <1>8, <1>9, <1>10, <1>11, <1>12, <1>13, <1>14, <1>16, <1>17,
     <1>18, <1>19, <1>20, <1>21, <1>22, Zenon
     DEF Next, PushStep, ConsumerStep, Done

-----------------------------------------------------------------------------
(* What a step does to the queue.                                          *)

\* The queue of published, unread items stays as it is, ...
Kept == Unread' = Unread /\ received' = received

\* ... takes the item of p at its end, ...
Put(p) == Unread' = Append(Unread, Item(p)) /\ received' = received

\* ... or gives its first one to the consumer.
Taken ==
    /\ Unread # <<>> /\ Unread' = Tail(Unread)
    /\ received' = Append(received, Head(Unread))

\* The slot a push has written is the one at the tail.
Written(p) == pc[p] = "publish" => buffer[tail] = Item(p)

LEMMA SameRing == ASSUME UNCHANGED <<buffer, next, tail, received>> PROVE Kept
  BY Zenon DEF Kept, Unread, Available

LEMMA PublishPuts ==
    ASSUME TypeInv, RingInv, NEW p \in Threads, Written(p), Publish(p)
    PROVE  Put(p) /\ Len(Unread) < Cap - 1
<1>1. pc[p] = "publish" /\ UNCHANGED <<buffer, next, received>> /\ tail' = NextIndex(slot[p])
  BY DEF Publish, Goto, cons
<1>2. slot[p] = tail /\ NextIndex(tail) # head
  BY <1>1 DEF RingInv, RingOf
<1>3. head \in Slots /\ next \in Slots /\ tail \in Slots /\ Between(head, next, tail)
  BY Zenon DEF TypeInv, RingInv
<1>4. Ahead(next, NextIndex(tail)) = Ahead(next, tail) + 1 /\ Ahead(next, tail) + 1 < Cap
  BY <1>2, <1>3, AheadPut
<1>5. /\ Unread = Window(buffer, next, Ahead(next, tail))
      /\ Unread' = Window(buffer, next, Ahead(next, NextIndex(tail)))
  BY <1>1, <1>2, UnreadIs, Zenon DEF Window, Ahead, Unread, Available
<1>6. Unread' = Append(Unread, buffer[tail])
  BY <1>3, <1>4, <1>5, WindowPut, Zenon
<1>7. Len(Unread) = Ahead(next, tail)
  <2>1. Ahead(next, tail) \in Nat
    BY <1>3, AheadIs, Zenon
  <2> QED BY <1>5, <2>1 DEF Window
<1>8. Len(Unread) < Cap - 1
  <2>1. Ahead(next, tail) \in Nat
    BY <1>3, AheadIs, Zenon
  <2> QED BY <1>4, <1>7, <2>1, CapNat, SMT
<1> QED BY <1>1, <1>6, <1>8, Zenon DEF Put, Written

LEMMA ReadTakes == ASSUME TypeInv, RingInv, ReadSlot PROVE Taken
<1>1. /\ cpc = "read" /\ UNCHANGED <<buffer, tail>> /\ next' = NextIndex(next)
      /\ received' = Append(received, buffer[next])
  BY DEF ReadSlot, CGoto, ring
<1>2. head \in Slots /\ next \in Slots /\ tail \in Slots /\ Between(head, next, tail)
  BY Zenon DEF TypeInv, RingInv
<1>3. Ahead(next, tail) # 0
  <2>1. 1 <= todo /\ todo <= Ahead(next, tail) /\ todo \in Int /\ Ahead(next, tail) \in Nat
    BY <1>1, AheadIs DEF RingInv, Reader, TypeInv
  <2> QED BY <2>1, SMT
<1>4. Ahead(NextIndex(next), tail) = Ahead(next, tail) - 1
  BY <1>2, <1>3, AheadTake, Zenon
<1>5. /\ Unread = Window(buffer, next, Ahead(next, tail))
      /\ Unread' = Window(buffer, NextIndex(next), Ahead(NextIndex(next), tail))
  BY <1>1, UnreadIs, Zenon DEF Window, Ahead, Unread, Available
<1>6. Unread # <<>> /\ Unread' = Tail(Unread) /\ Head(Unread) = buffer[next]
  BY <1>2, <1>3, <1>4, <1>5, WindowTake, Zenon
<1> QED BY <1>1, <1>6, Zenon DEF Taken

LEMMA WriteKeeps == ASSUME TypeInv, RingInv, NEW p \in Threads, WriteSlot(p) PROVE Kept
<1>1. /\ pc[p] = "write" /\ UNCHANGED <<next, tail, received>>
      /\ buffer' = [buffer EXCEPT ![slot[p]] = Item(p)]
  BY SMTT(30) DEF WriteSlot, Goto, cons
<1>2. slot[p] = tail
  BY <1>1 DEF RingInv, RingOf
<1>3. next \in Slots /\ tail \in Slots /\ buffer \in [Slots -> Cell]
  BY DEF TypeInv
<1>4. /\ Unread = Window(buffer, next, Ahead(next, tail))
      /\ Unread' = Window([buffer EXCEPT ![tail] = Item(p)], next, Ahead(next, tail))
  <2>1. buffer' = [buffer EXCEPT ![tail] = Item(p)]
    BY <1>1, <1>2, Zenon
  <2> QED BY <1>1, <2>1, UnreadIs, Zenon DEF Window, Ahead, Unread, Available
<1>5. Unread' = Unread
  BY <1>3, <1>4, WindowKeeps, Zenon
<1> QED BY <1>1, <1>5, Zenon DEF Kept

\* Publishing an item puts it, reading a slot takes it, and nothing else does
\* either.
LEMMA QueueStep ==
    ASSUME TypeInv, RingInv, \A p \in Threads : Written(p), [Next]_vars
    PROVE  \/ Kept /\ \A p \in Threads : ~ Publish(p)
           \/ \E p \in Threads : Publish(p) /\ Put(p) /\ Len(Unread) < Cap - 1
           \/ ReadSlot /\ Taken
<1>1. CASE \E p \in Threads : Publish(p)
  BY <1>1, PublishPuts, Zenon
<1>2. CASE ReadSlot
  BY <1>2, ReadTakes, Zenon
<1>3. CASE \E p \in Threads : WriteSlot(p) /\ \A q \in Threads : ~ Publish(q)
  BY <1>3, WriteKeeps, Zenon
<1>4. ASSUME \A p \in Threads : ~ Publish(p) /\ ~ WriteSlot(p), ~ ReadSlot PROVE Kept
  <2>1. ASSUME UNCHANGED <<ring, received, next>> PROVE Kept
    BY <2>1, SameRing, Zenon DEF ring
  <2>2. ASSUME NEW p \in Threads, Push(p) \/ CheckClosed(p) \/ ReadMode(p) \/ AcquireMpscLock(p)
                                    \/ LoadTail(p) \/ CheckFull(p) \/ ReleaseMpscLock(p)
        PROVE  Kept
    BY <2>1, <2>2, Zenon
       DEF Push, CheckClosed, ReadMode, AcquireMpscLock, LoadTail, CheckFull, ReleaseMpscLock, cons
  <2>3. ASSUME NEW p \in Threads, WaitForSpace(p) \/ AddProducer(p) \/ CloseChannel(p)
                                    \/ UpgradeToMpsc(p) \/ DropProducer(p)
        PROVE  Kept
    BY <2>1, <2>3, Zenon
       DEF WaitForSpace, AddProducer, CloseChannel, UpgradeToMpsc, DropProducer, cons
  <2>4. ASSUME NEW o \in Calls, Call(o) PROVE Kept
    BY <2>1, <2>4, Zenon DEF Call
  <2>5. CASE CheckEmpty \/ LoadClosed \/ LoadEmpty \/ Again \/ DropConsumer
    BY <2>1, <2>5, Zenon DEF CheckEmpty, LoadClosed, LoadEmpty, Again, DropConsumer
  <2>6. CASE StoreHead
    BY <2>6, SameRing, Zenon DEF StoreHead
  <2>7. CASE UNCHANGED vars
    BY <2>1, <2>7, Zenon DEF vars, cons
  <2> QED
    BY <1>4, <2>2, <2>3, <2>4, <2>5, <2>6, <2>7, Zenon DEF Next, PushStep, ConsumerStep, Done
<1> QED BY <1>1, <1>2, <1>3, <1>4, Zenon

-----------------------------------------------------------------------------
(* Every item enters the queue once.                                       *)

LEMMA AppendElems ==
    ASSUME NEW S, NEW s \in Seq(S), NEW x
    PROVE  Elems(Append(s, x)) = Elems(s) \cup {x}
<1>1. /\ Len(s) \in Nat /\ Len(Append(s, x)) = Len(s) + 1 /\ Append(s, x)[Len(s) + 1] = x
      /\ \A i \in 1 .. Len(s) : Append(s, x)[i] = s[i]
  OBVIOUS
<1>2. ASSUME NEW y \in Elems(Append(s, x)) PROVE y \in Elems(s) \cup {x}
  <2>1. PICK i \in 1 .. Len(s) + 1 : y = Append(s, x)[i]
    BY <1>1, <1>2 DEF Elems
  <2>2. i \in 1 .. Len(s) \/ i = Len(s) + 1
    BY <1>1
  <2> QED BY <1>1, <2>1, <2>2, Zenon DEF Elems
<1>3. ASSUME NEW y \in Elems(s) \cup {x} PROVE y \in Elems(Append(s, x))
  <2>1. \A i \in 1 .. Len(s) : i \in 1 .. Len(s) + 1
    BY <1>1
  <2>2. Len(s) + 1 \in 1 .. Len(s) + 1
    BY <1>1
  <2> QED BY <1>1, <1>3, <2>1, <2>2, Zenon DEF Elems
<1> QED BY <1>2, <1>3, Zenon

LEMMA TailElems ==
    ASSUME NEW S, NEW s \in Seq(S), s # <<>>
    PROVE  Elems(s) = {Head(s)} \cup Elems(Tail(s))
<1>1. /\ Len(s) \in Nat /\ Len(s) >= 1 /\ Len(Tail(s)) = Len(s) - 1 /\ Head(s) = s[1]
      /\ \A i \in 1 .. Len(s) - 1 : Tail(s)[i] = s[i + 1]
  OBVIOUS
<1>2. ASSUME NEW y \in Elems(s) PROVE y \in {Head(s)} \cup Elems(Tail(s))
  <2>1. PICK i \in 1 .. Len(s) : y = s[i]
    BY <1>2, Zenon DEF Elems
  <2>2. i = 1 \/ \E j \in 1 .. Len(s) - 1 : i = j + 1
    <3>1. i # 1 => i - 1 \in 1 .. Len(s) - 1 /\ i = (i - 1) + 1
      BY <1>1
    <3> QED BY <3>1, Zenon
  <2> QED BY <1>1, <2>1, <2>2, Zenon DEF Elems
<1>3. ASSUME NEW y \in {Head(s)} \cup Elems(Tail(s)) PROVE y \in Elems(s)
  <2>1. 1 \in 1 .. Len(s) /\ \A i \in 1 .. Len(s) - 1 : i + 1 \in 1 .. Len(s)
    BY <1>1
  <2>2. CASE y = Head(s)
    BY <1>1, <2>1, <2>2, Zenon DEF Elems
  <2>3. CASE y \in Elems(Tail(s))
    <3>1. PICK i \in 1 .. Len(s) - 1 : y = Tail(s)[i]
      BY <1>1, <2>3, Zenon DEF Elems
    <3> QED BY <1>1, <2>1, <3>1, Zenon DEF Elems
  <2> QED BY <1>3, <2>2, <2>3, Zenon
<1> QED BY <1>2, <1>3, Zenon

LEMMA UnreadType == ASSUME TypeInv PROVE Unread \in Seq(Cell)
<1>1. next \in Slots /\ tail \in Slots /\ buffer \in [Slots -> Cell]
  BY DEF TypeInv
<1>2. Ahead(next, tail) \in Nat /\ Ahead(next, tail) < Cap /\ Cap \in Nat
  BY <1>1, AheadIs, CapNat
<1>3. ASSUME NEW i \in 1 .. Ahead(next, tail) PROVE buffer[(next + i - 1) % Cap] \in Cell
  <2>1. i \in 1 .. Cap
    BY <1>2
  <2>2. (next + i - 1) % Cap \in Slots
    BY <1>1, <2>1, PlaceIs, Zenon
  <2> QED BY <1>1, <2>2
<1> QED BY <1>2, <1>3, UnreadIs DEF Window

\* The items that have entered the queue.
Entered == Elems(received) \cup Elems(Unread)

LEMMA EnteredStep ==
    ASSUME TypeInv, RingInv, \A p \in Threads : Written(p), [Next]_vars
    PROVE  \/ Entered' = Entered /\ \A p \in Threads : ~ Publish(p)
           \/ \E p \in Threads : Publish(p) /\ Entered' = Entered \cup {Item(p)}
           \/ Entered' = Entered /\ ReadSlot
<1>1. Unread \in Seq(Cell) /\ received \in Seq(Cell)
  BY UnreadType DEF TypeInv
<1>2. ASSUME Kept PROVE Entered' = Entered
  BY <1>2, Zenon DEF Kept, Entered, Elems
<1>3. ASSUME NEW p \in Threads, Put(p) PROVE Entered' = Entered \cup {Item(p)}
  <2>1. Elems(Append(Unread, Item(p))) = Elems(Unread) \cup {Item(p)}
    BY <1>1, AppendElems, Zenon
  <2>2. Entered' = Elems(received) \cup Elems(Append(Unread, Item(p)))
    BY <1>3, Zenon DEF Put, Entered, Elems
  <2> QED BY <2>1, <2>2 DEF Entered
<1>4. ASSUME Taken PROVE Entered' = Entered
  <2>1. Elems(Append(received, Head(Unread))) = Elems(received) \cup {Head(Unread)}
    BY <1>1, AppendElems, Zenon
  <2>2. Elems(Unread) = {Head(Unread)} \cup Elems(Tail(Unread))
    BY <1>1, <1>4, TailElems, Zenon DEF Taken
  <2>3. Entered' = Elems(Append(received, Head(Unread))) \cup Elems(Tail(Unread))
    BY <1>4, Zenon DEF Taken, Entered, Elems
  <2> QED BY <2>1, <2>2, <2>3 DEF Entered
<1> QED BY <1>2, <1>3, <1>4, QueueStep, Zenon

\* No item of p has entered the queue that p has not pushed, nor the one it is
\* pushing before it publishes it.
Once(p) ==
    \A n \in Nat : <<p, n>> \in Entered => n <= pushed[p] /\ (pc[p] \in Unpublished => n # pushed[p])

ItemOf(p) ==
    /\ pushed[p] <= Quota[p]
    /\ pc[p] \in Unpublished => 1 <= pushed[p]
    /\ pc[p] = "unlockOk" => Item(p) \in Entered
    /\ Written(p) /\ Once(p)

ItemInv == accepted \subseteq Entered /\ \A p \in Threads : ItemOf(p)

LEMMA ItemInit == TypeInv /\ Init => ItemInv
<1> SUFFICES ASSUME TypeInv, Init PROVE ItemInv
  OBVIOUS
<1>1. /\ received = <<>> /\ accepted = {} /\ next = 0 /\ tail = 0
      /\ \A p \in Threads : pc[p] = "idle" /\ pushed[p] = 0 /\ Quota[p] \in Nat
  BY ChannelAssumption DEF Init
<1>2. Available = 0
  <2>1. Ahead(0, 0) = 0
    BY <1>1, AheadSelf DEF TypeInv
  <2> QED BY <1>1, <2>1, UnreadIs
<1>3. Entered = {}
  BY <1>1, <1>2 DEF Entered, Elems, Unread
<1> QED BY <1>1, <1>3 DEF ItemInv, ItemOf, Once, Written, Unpublished

LEMMA ItemStep == TypeInv /\ LockInv /\ RingInv /\ ItemInv /\ [Next]_vars => ItemInv'
<1> SUFFICES ASSUME TypeInv, LockInv, RingInv, ItemInv, [Next]_vars PROVE ItemInv'
  OBVIOUS
<1>1. \/ Entered' = Entered /\ \A p \in Threads : ~ Publish(p)
      \/ \E p \in Threads : Publish(p) /\ Entered' = Entered \cup {Item(p)}
      \/ Entered' = Entered /\ ReadSlot
  BY EnteredStep, Zenon DEF ItemInv, ItemOf
<1>2. ASSUME NEW p \in Threads, ItemOf(p)', accepted' \subseteq Entered', Entered' = Entered,
             \A q \in Threads \ {p} : pc'[q] = pc[q] /\ pushed'[q] = pushed[q] /\ Written(q)'
      PROVE  ItemInv'
  <2>1. ASSUME NEW q \in Threads PROVE ItemOf(q)'
    <3>1. CASE q = p
      BY <1>2, <3>1, Zenon
    <3>2. CASE q # p
      <4>1. ItemOf(q) /\ pc'[q] = pc[q] /\ pushed'[q] = pushed[q] /\ Written(q)'
        BY <1>2, <3>2, Zenon DEF ItemInv
      <4>2. Once(q)'
        BY <1>2, <4>1, Zenon DEF ItemOf, Once
      <4> QED BY <1>2, <4>1, <4>2, Zenon DEF ItemOf, Item
    <3> QED BY <3>1, <3>2, Zenon
  <2> QED BY <1>2, <2>1, Zenon DEF ItemInv
<1>3. ASSUME NEW p \in Threads, NEW from, NEW to, Goto(p, from, to), Entered' = Entered,
             UNCHANGED <<buffer, tail, pushed, accepted>>,
             from \in Unpublished \/ to \notin Unpublished, to \notin {"publish", "unlockOk"}
      PROVE  ItemInv'
  <2>1. pc[p] = from /\ pc'[p] = to /\ \A q \in Threads \ {p} : pc'[q] = pc[q]
    BY <1>3, GotoIs, Zenon
  <2>2. ItemOf(p)
    BY Zenon DEF ItemInv
  <2>3. Once(p)'
    BY <1>3, <2>1, <2>2, Zenon DEF ItemOf, Once
  <2>4. ItemOf(p)'
    BY <1>3, <2>1, <2>2, <2>3, Zenon DEF ItemOf, Written
  <2>5. \A q \in Threads \ {p} : Written(q)'
    BY <1>3, <2>1, Zenon DEF ItemInv, ItemOf, Written, Item
  <2> QED BY <1>2, <1>3, <2>1, <2>4, <2>5, Zenon DEF ItemInv
<1>4. ASSUME NEW p \in Threads, Publish(p) PROVE ItemInv'
  <2>1. /\ UNCHANGED <<buffer, pushed>> /\ pc[p] = "publish" /\ pc'[p] \in {"unlockOk", "idle"}
        /\ \A q \in Threads \ {p} : pc'[q] = pc[q]
    BY <1>4, GotoIs DEF Publish, cons
  <2>2. pc[p] \in Pushing /\ pc'[p] \notin Unpublished
    BY <2>1 DEF Pushing, Unpublished
  <2>3. Entered' = Entered \cup {Item(p)}
    <3>1. PICK q \in Threads : Publish(q) /\ Entered' = Entered \cup {Item(q)}
      BY <1>1, <1>4, <2>1 DEF ReadSlot, prod
    <3>2. pc[q] \in Pushing
      BY <3>1 DEF Publish, Goto, Pushing
    <3> QED BY <2>2, <3>1, <3>2, OneWriter, Zenon
  <2>4. accepted' \subseteq Entered'
    BY <1>4, <2>3 DEF Publish, ItemInv
  <2>5. ItemOf(p)'
    <3>1. ItemOf(p) /\ pushed \in [Threads -> Nat]
      BY Zenon DEF ItemInv, TypeInv
    <3>2. Once(p)'
      <4>1. ASSUME NEW n \in Nat, <<p, n>> \in Entered' PROVE n <= pushed[p]
        <5>1. CASE <<p, n>> \in Entered
          BY <3>1, <5>1, Zenon DEF ItemOf, Once
        <5>2. CASE <<p, n>> = Item(p)
          BY <3>1, <5>2 DEF Item
        <5> QED BY <2>3, <4>1, <5>1, <5>2, Zenon
      <4> QED BY <2>1, <2>2, <4>1, Zenon DEF Once
    <3>3. (Item(p))' \in Entered' /\ Written(p)'
      BY <2>1, <2>3 DEF Item, Written
    <3> QED BY <2>1, <2>2, <3>1, <3>2, <3>3, Zenon DEF ItemOf
  <2>6. ASSUME NEW q \in Threads, q # p PROVE ItemOf(q)'
    <3>1. ItemOf(q)
      BY Zenon DEF ItemInv
    <3>2. Written(q)'
      <4>1. pc[q] \notin Pushing
        BY <2>2, <2>6, OneWriter, Zenon
      <4>2. pc'[q] # "publish"
        BY <2>1, <2>6, <4>1 DEF Pushing
      <4> QED BY <4>2 DEF Written
    <3>3. ASSUME NEW n \in Nat, <<q, n>> \in Entered' PROVE <<q, n>> \in Entered
      <4>1. <<q, n>> # Item(p)
        BY <2>6 DEF Item
      <4> QED BY <2>3, <3>3, <4>1, Zenon
    <3>4. Once(q)'
      BY <2>1, <2>6, <3>1, <3>3, Zenon DEF ItemOf, Once
    <3> QED BY <2>1, <2>3, <2>6, <3>1, <3>2, <3>4, Zenon DEF ItemOf, Item
  <2> QED BY <2>4, <2>5, <2>6, Zenon DEF ItemInv
<1> SUFFICES ASSUME Entered' = Entered PROVE ItemInv'
  BY <1>1, <1>4, Zenon
<1>5. ASSUME NEW p \in Threads, Push(p) PROVE ItemInv'
  <2>1. /\ UNCHANGED <<buffer, tail, accepted>> /\ pc[p] = "idle" /\ pc'[p] = "try"
        /\ \A q \in Threads \ {p} : pc'[q] = pc[q]
        /\ pushed' = [pushed EXCEPT ![p] = @ + 1] /\ pushed[p] < Quota[p]
    BY <1>5, GotoIs DEF Push, ring
  <2>2. pushed'[p] = pushed[p] + 1 /\ \A q \in Threads \ {p} : pushed'[q] = pushed[q]
    BY <2>1 DEF TypeInv
  <2>3. pushed[p] \in Nat /\ Quota[p] \in Nat
    BY ChannelAssumption DEF TypeInv
  <2>4. Once(p)'
    <3>1. ASSUME NEW n \in Nat, <<p, n>> \in Entered PROVE n <= pushed'[p] /\ n # pushed'[p]
      <4>1. n <= pushed[p]
        BY <3>1, Zenon DEF ItemInv, ItemOf, Once
      <4> QED BY <2>2, <2>3, <4>1, SMT
    <3> QED BY <3>1, Zenon DEF Once
  <2>5. pushed'[p] <= Quota[p] /\ 1 <= pushed'[p]
    BY <2>1, <2>2, <2>3, SMT
  <2>6. ItemOf(p)'
    BY <2>1, <2>4, <2>5 DEF ItemOf, Written
  <2>7. \A q \in Threads \ {p} : Written(q)'
    BY <2>1, <2>2, Zenon DEF ItemInv, ItemOf, Written, Item
  <2> QED BY <1>2, <2>1, <2>2, <2>6, <2>7, Zenon DEF ItemInv
<1>6. ASSUME NEW p \in Threads, CheckClosed(p) PROVE ItemInv'
  <2>1. \E to \in {"idle", "mode"} : Goto(p, "try", to)
    BY <1>6, Zenon DEF CheckClosed
  <2> QED BY <1>3, <1>6, <2>1 DEF CheckClosed, ring, Unpublished
<1>7. ASSUME NEW p \in Threads, ReadMode(p) PROVE ItemInv'
  <2>1. \E to \in {"lock", "tail"} : Goto(p, "mode", to)
    BY <1>7, Zenon DEF ReadMode
  <2> QED BY <1>3, <1>7, <2>1 DEF ReadMode, ring, Unpublished
<1>8. ASSUME NEW p \in Threads, AcquireMpscLock(p) PROVE ItemInv'
  BY <1>3, <1>8 DEF AcquireMpscLock, ring, Unpublished
<1>9. ASSUME NEW p \in Threads, LoadTail(p) \/ WaitForSpace(p) PROVE ItemInv'
  BY <1>3, <1>9 DEF LoadTail, WaitForSpace, ring, Unpublished
<1>10. ASSUME NEW p \in Threads, CheckFull(p) PROVE ItemInv'
  <2>1. \E to \in {"write", "unlock", "wait", "idle"} : Goto(p, "head", to)
    BY <1>10 DEF CheckFull, AfterFull
  <2> QED BY <1>3, <1>10, <2>1 DEF CheckFull, ring, Unpublished
<1>11. ASSUME NEW p \in Threads, WriteSlot(p) PROVE ItemInv'
  <2>1. /\ UNCHANGED <<tail, pushed, accepted>> /\ pc[p] = "write" /\ pc'[p] = "publish"
        /\ \A q \in Threads \ {p} : pc'[q] = pc[q]
        /\ buffer' = [buffer EXCEPT ![slot[p]] = Item(p)]
    BY <1>11, GotoIs DEF WriteSlot
  <2>2. slot[p] = tail
    BY <2>1 DEF RingInv, RingOf
  <2>3. pc[p] \in Pushing /\ pc[p] \in Unpublished
    BY <2>1 DEF Pushing, Unpublished
  <2>4. ItemOf(p)
    BY Zenon DEF ItemInv
  <2>5. Written(p)'
    BY <2>1, <2>2 DEF Written, Item, TypeInv
  <2>6. Once(p)'
    BY <2>1, <2>3, <2>4, ZenonT(30) DEF ItemOf, Once
  <2>7. ItemOf(p)'
    BY <2>1, <2>3, <2>4, <2>5, <2>6 DEF ItemOf
  <2>8. ASSUME NEW q \in Threads \ {p} PROVE Written(q)'
    <3>1. pc[q] \notin Pushing
      BY <2>3, OneWriter, Zenon
    <3> QED BY <2>1, <3>1 DEF Written, Pushing
  <2> QED BY <1>2, <2>1, <2>7, <2>8, Zenon DEF ItemInv
<1>12. ASSUME NEW p \in Threads, ReleaseMpscLock(p) PROVE ItemInv'
  <2>1. UNCHANGED <<buffer, tail, pushed>>
    BY <1>12 DEF ReleaseMpscLock, ring
  <2>2. CASE Goto(p, "unlock", AfterFull) /\ UNCHANGED accepted
    <3>1. AfterFull \in {"wait", "idle"}
      BY DEF AfterFull
    <3> QED BY <1>3, <2>1, <2>2, <3>1 DEF Unpublished
  <2>3. CASE Goto(p, "unlockOk", "idle") /\ accepted' = accepted \cup {Item(p)}
    <3>1. pc[p] = "unlockOk" /\ pc'[p] = "idle" /\ \A q \in Threads \ {p} : pc'[q] = pc[q]
      BY <2>3, GotoIs, Zenon
    <3>2. ItemOf(p) /\ Item(p) \in Entered
      BY <3>1, Zenon DEF ItemInv, ItemOf
    <3>3. pc'[p] \notin Unpublished /\ pc'[p] # "publish" /\ pc'[p] # "unlockOk"
      BY <3>1 DEF Unpublished
    <3>4. Once(p)'
      BY <2>1, <3>2, <3>3, Zenon DEF ItemOf, Once
    <3>5. ItemOf(p)'
      BY <2>1, <3>2, <3>3, <3>4, Zenon DEF ItemOf, Written
    <3>6. \A q \in Threads \ {p} : Written(q)'
      BY <2>1, <3>1, Zenon DEF ItemInv, ItemOf, Written, Item
    <3>7. accepted' \subseteq Entered
      BY <2>3, <3>2, Zenon DEF ItemInv
    <3> QED BY <1>2, <2>1, <3>1, <3>5, <3>6, <3>7, Zenon
  <2> QED BY <1>12, <2>2, <2>3, Zenon DEF ReleaseMpscLock
<1>13. ASSUME NEW p \in Threads, UpgradeToMpsc(p) \/ AddProducer(p) PROVE ItemInv'
  BY <1>3, <1>13 DEF UpgradeToMpsc, AddProducer, ring, Unpublished
<1>14. ASSUME NEW p \in Threads, DropProducer(p) PROVE ItemInv'
  <2>1. \E to \in {"close", "idle"} : Goto(p, "idle", to)
    BY <1>14, Zenon DEF DropProducer
  <2> QED BY <1>3, <1>14, <2>1 DEF DropProducer, ring, Unpublished
<1>15. ASSUME NEW p \in Threads, CloseChannel(p) PROVE ItemInv'
  BY <1>3, <1>15 DEF CloseChannel, ring, Unpublished
<1>16. ASSUME UNCHANGED <<buffer, tail, pc, pushed, accepted>> PROVE ItemInv'
  <2>1. ASSUME NEW q \in Threads PROVE ItemOf(q)'
    <3>1. ItemOf(q)
      BY Zenon DEF ItemInv
    <3>2. Once(q)'
      BY <1>16, <3>1, Zenon DEF ItemOf, Once
    <3> QED BY <1>16, <3>1, <3>2, Zenon DEF ItemOf, Item, Written
  <2> QED BY <1>16, <2>1, Zenon DEF ItemInv
<1>17. ASSUME NEW o \in Calls, Call(o) PROVE ItemInv'
  BY <1>16, <1>17, Zenon DEF Call, ring, prod
<1>18. CASE ConsumerStep \/ DropConsumer
  BY <1>16, <1>18, Zenon
     DEF ConsumerStep, CheckEmpty, ReadSlot, StoreHead, LoadClosed, LoadEmpty, Again, DropConsumer,
         ring, prod
<1>19. CASE UNCHANGED vars
  BY <1>16, <1>19, Zenon DEF vars, ring, prod
<1> QED
  BY <1>4, <1>5, <1>6, <1>7, <1>8, <1>9, <1>10, <1>11, <1>12, <1>13, <1>14, <1>15, <1>17,
     <1>18, <1>19, Zenon
     DEF Next, PushStep, Done

-----------------------------------------------------------------------------
(* The end of the channel.                                                 *)

\* The elements of S are numbered 1 to n.
Numbering(f, n, S) ==
    /\ \A i \in 1 .. n : f[i] \in S
    /\ \A i, j \in 1 .. n : f[i] = f[j] => i = j
    /\ \A x \in S : \E i \in 1 .. n : f[i] = x

Numbered(n, S) == n \in Nat /\ \E f : Numbering(f, n, S)

LEMMA NumberOne == ASSUME NEW x PROVE Numbered(1, {x})
<1> DEFINE f == [i \in 1 .. 1 |-> x]
<1>1. Numbering(f, 1, {x})
  BY DEF Numbering
<1> QED BY <1>1 DEF Numbered

LEMMA NumberAdd ==
    ASSUME NEW n, NEW S, NEW x, Numbered(n, S), x \notin S
    PROVE  Numbered(n + 1, S \cup {x})
<1>1. PICK f : Numbering(f, n, S)
  BY Zenon DEF Numbered
<1>2. n \in Nat
  BY Zenon DEF Numbered
<1> DEFINE g == [i \in 1 .. n + 1 |-> IF i = n + 1 THEN x ELSE f[i]]
<1>3. \A i \in 1 .. n + 1 : i \in 1 .. n \/ i = n + 1
  BY <1>2
<1>4. n + 1 \in 1 .. n + 1 /\ \A i \in 1 .. n : i \in 1 .. n + 1 /\ i # n + 1
  BY <1>2
<1>5. g[n + 1] = x /\ \A i \in 1 .. n : g[i] = f[i]
  BY <1>4
<1> HIDE DEF g
<1>6. Numbering(g, n + 1, S \cup {x})
  BY <1>1, <1>3, <1>4, <1>5 DEF Numbering
<1>7. n + 1 \in Nat
  BY <1>2
<1> QED BY <1>6, <1>7, Zenon DEF Numbered

\* The last one takes the place of the one that goes.
LEMMA NumberRemove ==
    ASSUME NEW n, NEW S, NEW x \in S, Numbered(n, S)
    PROVE  Numbered(n - 1, S \ {x})
<1>1. PICK f : Numbering(f, n, S)
  BY Zenon DEF Numbered
<1>2. PICK k \in 1 .. n : f[k] = x
  BY <1>1, Zenon DEF Numbering
<1>3. n \in Nat /\ k \in Nat /\ 1 <= k /\ k <= n
  BY DEF Numbered
<1> DEFINE g == [i \in 1 .. n - 1 |-> IF i = k THEN f[n] ELSE f[i]]
<1>4. /\ \A i \in 1 .. n - 1 : i \in 1 .. n /\ i # n /\ g[i] = IF i = k THEN f[n] ELSE f[i]
      /\ \A i \in 1 .. n : i # n => i \in 1 .. n - 1
      /\ n \in 1 .. n /\ n - 1 \in Nat
  BY <1>3
<1> HIDE DEF g
<1>5. \A i \in 1 .. n - 1 : g[i] \in S \ {x}
  BY <1>1, <1>2, <1>4, Zenon DEF Numbering
<1>6. \A i, j \in 1 .. n - 1 : g[i] = g[j] => i = j
  BY <1>1, <1>4, Zenon DEF Numbering
<1>7. ASSUME NEW y \in S \ {x} PROVE \E i \in 1 .. n - 1 : g[i] = y
  <2>1. PICK j \in 1 .. n : f[j] = y
    BY <1>1, Zenon DEF Numbering
  <2>2. j # k
    BY <1>2, <2>1, Zenon
  <2>3. CASE j # n
    BY <1>4, <2>1, <2>2, <2>3, Zenon
  <2>4. CASE j = n
    <3>1. k # n
      BY <2>2, <2>4, Zenon
    <3> QED BY <1>4, <2>1, <2>4, <3>1, Zenon
  <2> QED BY <2>3, <2>4, Zenon
<1>8. Numbering(g, n - 1, S \ {x})
  BY <1>5, <1>6, <1>7, Zenon DEF Numbering
<1> QED BY <1>4, <1>8, Zenon DEF Numbered

LEMMA NumberNone == ASSUME NEW S, Numbered(0, S) PROVE S = {}
  BY DEF Numbered, Numbering

Gone == holds = {} /\ \A p \in Threads : pc[p] = "idle"

\* The producers are counted one by one, so only the last one closes the
\* channel, and it finds nobody else in it.
Counted == Numbered(producerCount, holds)

CloseOf(p) == pc[p] = "close" => holds = {} /\ \A q \in Threads \ {p} : pc[q] = "idle"

Final ==
    /\ closed => cpc = "dropped" \/ Gone
    /\ cpc = "empty" => closed
    /\ disconnected => Gone /\ CaughtUp

CloseInv == Counted /\ Final /\ \A p \in Threads : CloseOf(p)

LEMMA CloseInit == TypeInv /\ Init => CloseInv
<1> SUFFICES ASSUME TypeInv, Init PROVE CloseInv
  OBVIOUS
<1>1. /\ holds = {First} /\ producerCount = 1 /\ closed = FALSE /\ cpc = "idle"
      /\ disconnected = FALSE /\ \A p \in Threads : pc[p] = "idle"
  BY DEF Init, TypeInv
<1>2. Counted
  BY <1>1, NumberOne, Zenon DEF Counted
<1> QED BY <1>1, <1>2 DEF CloseInv, Final, CloseOf

LEMMA CloseStep == TypeInv /\ LockInv /\ RingInv /\ ItemInv /\ CloseInv /\ [Next]_vars => CloseInv'
<1> SUFFICES ASSUME TypeInv, LockInv, RingInv, ItemInv, CloseInv, [Next]_vars PROVE CloseInv'
  OBVIOUS
<1>1. ASSUME UNCHANGED <<holds, producerCount, pc>>, Final' PROVE CloseInv'
  BY <1>1, Zenon DEF CloseInv, Counted, CloseOf
<1>2. ASSUME UNCHANGED <<holds, producerCount, pc, closed, accepted, disconnected>>,
             cpc # "dropped", cpc' # "empty",
             disconnected => received' = received
      PROVE  CloseInv'
  <2>1. Final
    BY Zenon DEF CloseInv
  <2>2. Final'
    BY <1>2, <2>1, Zenon DEF Final, Gone, CaughtUp, Elems
  <2> QED BY <1>1, <1>2, <2>2, Zenon
<1>3. ASSUME NEW p \in Threads, pc[p] # "idle" \/ p \in holds
      PROVE  ~ Gone /\ ~ disconnected /\ \A q \in Threads \ {p} : pc[q] # "close"
  BY <1>3, Zenon DEF CloseInv, Final, Gone, CloseOf
<1>4. ASSUME NEW p \in Threads, pc[p] # "idle" \/ p \in holds, UNCHANGED <<cpc, closed, disconnected>>
      PROVE  Final'
  BY <1>3, <1>4, Zenon DEF CloseInv, Final
<1>5. ASSUME NEW p \in Threads, NEW from, NEW to, Goto(p, from, to),
             p \in holds, to # "close", UNCHANGED <<cpc, closed, disconnected>>, Counted'
      PROVE  CloseInv'
  <2>1. pc'[p] = to /\ \A q \in Threads \ {p} : pc'[q] = pc[q]
    BY <1>5, GotoIs, Zenon
  <2>2. \A q \in Threads : pc'[q] # "close"
    BY <1>3, <1>5, <2>1, Zenon
  <2> QED BY <1>4, <1>5, <2>2, Zenon DEF CloseInv, CloseOf
<1>6. ASSUME UNCHANGED <<holds, producerCount>> PROVE Counted'
  BY <1>6, Zenon DEF CloseInv, Counted
<1>7. ASSUME NEW p \in Threads, NEW from, NEW to, Goto(p, from, to), from \notin {"idle", "close"}
      PROVE  p \in holds
  BY <1>7, GotoIs, Zenon DEF LockInv, LockOf
<1>8. ASSUME NEW p \in Threads, NEW from, NEW to, Goto(p, from, to), from \notin {"idle", "close"},
             to # "close", UNCHANGED <<cpc, closed, disconnected, holds, producerCount>>
      PROVE  CloseInv'
  BY <1>5, <1>6, <1>7, <1>8, Zenon
<1>9. ASSUME NEW p \in Threads, Push(p) PROVE CloseInv'
  BY <1>5, <1>6, <1>9 DEF Push, chan, cons
<1>10. ASSUME NEW p \in Threads, CheckClosed(p) PROVE CloseInv'
  <2>1. \E to \in {"idle", "mode"} : Goto(p, "try", to)
    BY <1>10, Zenon DEF CheckClosed
  <2> QED BY <1>8, <1>10, <2>1 DEF CheckClosed, chan, cons
<1>11. ASSUME NEW p \in Threads, ReadMode(p) PROVE CloseInv'
  <2>1. \E to \in {"lock", "tail"} : Goto(p, "mode", to)
    BY <1>11, Zenon DEF ReadMode
  <2> QED BY <1>8, <1>11, <2>1 DEF ReadMode, chan, cons
<1>12. ASSUME NEW p \in Threads, AcquireMpscLock(p) PROVE CloseInv'
  BY <1>8, <1>12 DEF AcquireMpscLock, cons
<1>13. ASSUME NEW p \in Threads, LoadTail(p) \/ WriteSlot(p) \/ WaitForSpace(p) PROVE CloseInv'
  BY <1>8, <1>13 DEF LoadTail, WriteSlot, WaitForSpace, chan, cons
<1>14. ASSUME NEW p \in Threads, CheckFull(p) PROVE CloseInv'
  <2>1. \E to \in {"write", "unlock", "wait", "idle"} : Goto(p, "head", to)
    BY <1>14 DEF CheckFull, AfterFull
  <2> QED BY <1>8, <1>14, <2>1 DEF CheckFull, chan, cons
<1>15. ASSUME NEW p \in Threads, Publish(p) PROVE CloseInv'
  <2>1. \E to \in {"unlockOk", "idle"} : Goto(p, "publish", to)
    BY <1>15, Zenon DEF Publish
  <2> QED BY <1>8, <1>15, <2>1 DEF Publish, chan, cons
<1>16. ASSUME NEW p \in Threads, ReleaseMpscLock(p) PROVE CloseInv'
  <2>1. \E from \in {"unlock", "unlockOk"}, to \in {"idle", "wait"} : Goto(p, from, to)
    BY <1>16 DEF ReleaseMpscLock, AfterFull
  <2> QED BY <1>8, <1>16, <2>1 DEF ReleaseMpscLock, cons
<1>17. ASSUME NEW p \in Threads, UpgradeToMpsc(p) PROVE CloseInv'
  BY <1>5, <1>6, <1>17 DEF UpgradeToMpsc, cons
<1>18. ASSUME NEW p \in Threads, AddProducer(p) PROVE CloseInv'
  <2>1. Goto(p, "clone", "idle") /\ UNCHANGED <<cpc, closed, disconnected>>
    BY <1>18 DEF AddProducer, cons
  <2>2. PICK q \in Threads \ holds : holds' = holds \cup {q} /\ producerCount' = producerCount + 1
    BY <1>18, Zenon DEF AddProducer
  <2>3. Counted
    BY Zenon DEF CloseInv
  <2>4. q \notin holds
    BY <2>2, Zenon
  <2>5. Counted'
    BY <2>2, <2>3, <2>4, NumberAdd, Zenon DEF Counted
  <2>6. p \in holds
    BY <1>7, <2>1
  <2> QED BY <1>5, <2>1, <2>5, <2>6
<1>19. ASSUME NEW p \in Threads, DropProducer(p) PROVE CloseInv'
  <2>1. /\ p \in holds /\ holds' = holds \ {p} /\ producerCount' = producerCount - 1
        /\ UNCHANGED <<cpc, closed, disconnected>>
    BY <1>19 DEF DropProducer, TypeInv, cons
  <2>2. Counted
    BY Zenon DEF CloseInv
  <2>4. Counted'
    BY <2>1, <2>2, NumberRemove, Zenon DEF Counted
  <2>5. CASE producerCount # 1
    <3>1. Goto(p, "idle", "idle")
      BY <1>19, <2>5 DEF DropProducer
    <3> QED BY <1>5, <2>1, <2>4, <3>1
  <2>6. CASE producerCount = 1
    <3>1. holds' = {}
      <4>1. producerCount' = 0
        BY <2>1, <2>6
      <4> QED BY <2>4, <4>1, NumberNone, Zenon DEF Counted
    <3>2. Goto(p, "idle", "close")
      BY <1>19, <2>6 DEF DropProducer, TypeInv
    <3>3. \A q \in Threads \ {p} : pc'[q] = pc[q]
      BY <3>2, GotoIs, Zenon
    <3>4. ASSUME NEW q \in Threads \ {p} PROVE pc[q] = "idle"
      <4>1. q \notin holds
        BY <2>1, <3>1
      <4>2. pc[q] \in {"idle", "close"}
        BY <4>1, Zenon DEF LockInv, LockOf
      <4>3. pc[q] # "close"
        BY <1>3, <2>1, Zenon
      <4> QED BY <4>2, <4>3
    <3>5. ASSUME NEW q \in Threads PROVE CloseOf(q)'
      BY <3>1, <3>3, <3>4 DEF CloseOf
    <3>6. Final'
      BY <1>4, <2>1, Zenon
    <3> QED BY <2>4, <3>5, <3>6, Zenon DEF CloseInv
  <2> QED BY <2>5, <2>6, Zenon
<1>20. ASSUME NEW p \in Threads, CloseChannel(p) PROVE CloseInv'
  <2>1. /\ UNCHANGED <<cpc, disconnected, holds, producerCount>> /\ closed' = TRUE
        /\ pc[p] = "close" /\ pc'[p] = "idle" /\ \A q \in Threads \ {p} : pc'[q] = pc[q]
    BY <1>20, GotoIs DEF CloseChannel, cons
  <2>2. holds = {} /\ (\A q \in Threads \ {p} : pc[q] = "idle") /\ ~ disconnected
    BY <1>3, <2>1 DEF CloseInv, CloseOf
  <2>3. Gone'
    BY <2>1, <2>2, Zenon DEF Gone
  <2>4. Final'
    BY <2>1, <2>2, <2>3, Zenon DEF Final
  <2>5. \A q \in Threads : CloseOf(q)'
    BY <2>3 DEF Gone, CloseOf
  <2> QED BY <1>6, <2>1, <2>4, <2>5, Zenon DEF CloseInv
<1>21. ASSUME NEW o \in Calls, Call(o) PROVE CloseInv'
  BY <1>2, <1>21 DEF Call, chan, prod
<1>22. CASE CheckEmpty
  BY <1>2, <1>22 DEF CheckEmpty, CGoto, chan, prod
<1>23. CASE StoreHead \/ Again
  BY <1>2, <1>23 DEF StoreHead, Again, CGoto, chan, prod
<1>24. CASE ReadSlot
  <2>1. /\ UNCHANGED <<holds, producerCount, pc, closed, accepted, disconnected>>
        /\ cpc # "dropped" /\ cpc' # "empty" /\ received' = Append(received, buffer[next])
    BY <1>24 DEF ReadSlot, CGoto, chan, prod
  <2>2. Elems(received') = Elems(received) \cup {buffer[next]}
    BY <2>1, AppendElems, Zenon DEF TypeInv
  <2>3. Final
    BY Zenon DEF CloseInv
  <2>4. CaughtUp => CaughtUp'
    BY <2>1, <2>2, Zenon DEF CaughtUp, Elems
  <2>5. Final'
    BY <2>1, <2>3, <2>4, Zenon DEF Final, Gone
  <2> QED BY <1>1, <2>1, <2>5, Zenon
<1>25. CASE LoadClosed
  <2>1. /\ UNCHANGED <<holds, producerCount, pc, closed, accepted, received, disconnected>>
        /\ cpc # "dropped" /\ (cpc' = "empty" => closed)
    BY <1>25 DEF LoadClosed, CGoto, chan, prod
  <2>2. Final
    BY Zenon DEF CloseInv
  <2>3. Final'
    BY <2>1, <2>2, Zenon DEF Final, Gone, CaughtUp, Elems
  <2> QED BY <1>1, <2>1, <2>3, Zenon
<1>26. CASE LoadEmpty
  <2>1. /\ UNCHANGED <<holds, producerCount, pc, closed, accepted, received>>
        /\ cpc = "empty" /\ cpc' \in {"idle", "again"}
        /\ disconnected' = (disconnected \/ Available = 0)
    BY <1>26 DEF LoadEmpty, CGoto, chan, prod
  <2>2. Final /\ Gone
    BY <2>1 DEF CloseInv, Final
  <2>3. Available = 0 => CaughtUp
    <3>1. Available = 0 => Elems(Unread) = {}
      BY DEF Unread, Elems
    <3> QED BY <3>1, Zenon DEF ItemInv, Entered, CaughtUp
  <2>4. Final'
    <3>1. Gone' /\ (CaughtUp => CaughtUp')
      BY <2>1, <2>2, Zenon DEF Gone, CaughtUp, Elems
    <3>2. disconnected' => CaughtUp
      BY <2>1, <2>2, <2>3, Zenon DEF Final
    <3> QED BY <2>1, <3>1, <3>2 DEF Final
  <2> QED BY <1>1, <2>1, <2>4, Zenon
<1>27. CASE DropConsumer
  <2>1. /\ UNCHANGED <<holds, producerCount, pc, accepted, received, disconnected>>
        /\ cpc' = "dropped"
    BY <1>27 DEF DropConsumer, CGoto, prod
  <2>2. Final
    BY Zenon DEF CloseInv
  <2>3. Final'
    BY <2>1, <2>2 DEF Final, Gone, CaughtUp, Elems
  <2> QED BY <1>1, <2>1, <2>3, Zenon
<1>28. CASE UNCHANGED vars
  <2>1. UNCHANGED <<holds, producerCount, pc, closed, accepted, received, disconnected, cpc>>
    BY <1>28 DEF vars, chan, prod, cons
  <2>2. Final'
    BY <2>1, Zenon DEF CloseInv, Final, Gone, CaughtUp, Elems
  <2> QED BY <1>1, <2>1, <2>2, Zenon
<1> QED
  BY <1>9, <1>10, <1>11, <1>12, <1>13, <1>14, <1>15, <1>16, <1>17, <1>18, <1>19, <1>20, <1>21,
     <1>22, <1>23, <1>24, <1>25, <1>26, <1>27, <1>28, Zenon
     DEF Next, PushStep, ConsumerStep, Done

-----------------------------------------------------------------------------
(* The theorems.                                                           *)

ChannelInv == TypeInv /\ LockInv /\ RingInv /\ ItemInv /\ CloseInv

LEMMA ChannelInvariant == ASSUME Owned PROVE Spec => []ChannelInv
<1>1. Init => ChannelInv
  BY TypeInit, LockInit, RingInit, ItemInit, CloseInit, Zenon DEF ChannelInv
<1>2. ChannelInv /\ [Next]_vars => ChannelInv'
  BY TypeStep, LockStep, RingStep, ItemStep, CloseStep, Zenon DEF ChannelInv
<1> QED BY <1>1, <1>2, PTL DEF Spec

\* The SAFETY comments of RingBuffer hold of owned producers, for any number
\* of threads and any capacity: whatever the interleaving of pushes, clones,
\* drops and reads, a slot has one writer and is not one the consumer may read.
THEOREM SlotsAreExclusive == ASSUME Owned PROVE Spec => []ExclusiveSlot
<1>1. ChannelInv => ExclusiveSlot
  <2> SUFFICES ASSUME ChannelInv, NEW p \in Threads, pc[p] \in {"write", "publish"}
               PROVE  /\ \A q \in Threads \ {p} :
                            pc[q] \in {"write", "publish"} => slot[q] # slot[p]
                      /\ (slot[p] + Cap - next) % Cap >= Available
    BY Zenon DEF ExclusiveSlot
  <2>1. \A q \in Threads : pc[q] \in {"write", "publish"} => pc[q] \in Pushing
    BY DEF Pushing
  <2>2. \A q \in Threads \ {p} : pc[q] \notin {"write", "publish"}
    BY <2>1, OneWriter, Zenon DEF ChannelInv
  <2>3. slot[p] = tail
    BY DEF ChannelInv, RingInv, RingOf
  <2>4. Available \in Nat /\ Available = Ahead(next, tail)
    BY UnreadIs, AheadIs DEF ChannelInv, TypeInv
  <2>5. (slot[p] + Cap - next) % Cap = Available
    BY <2>3, <2>4, Zenon DEF Ahead
  <2> QED BY <2>2, <2>4, <2>5
<1> QED BY <1>1, ChannelInvariant, PTL

\* An Ok from push or try_push is kept: the item waits in a published slot or
\* has been received, however many threads push and however full the ring is.
THEOREM AcceptedIsKept == ASSUME Owned PROVE Spec => []AcceptedKept
<1>1. ChannelInv => AcceptedKept
  BY Zenon DEF ChannelInv, ItemInv, Entered, AcceptedKept
<1> QED BY <1>1, ChannelInvariant, PTL

\* Disconnected, from recv or recv_timeout, is final for any number of clones:
\* every producer has been dropped, none is inside a call, and every accepted
\* item has been received.
THEOREM DisconnectedIsFinal == ASSUME Owned PROVE Spec => []DisconnectIsFinal
<1>1. ChannelInv => DisconnectIsFinal
  BY Zenon DEF ChannelInv, CloseInv, Final, Gone, DisconnectIsFinal
<1> QED BY <1>1, ChannelInvariant, PTL

LEMMA FifoStep == ChannelInv /\ [Next]_vars => [Fifo!FifoNext]_<<Unread, received>>
<1> SUFFICES ASSUME ChannelInv, [Next]_vars
             PROVE  Fifo!FifoNext \/ (Unread' = Unread /\ received' = received)
  OBVIOUS
<1>1. TypeInv /\ RingInv /\ ItemInv /\ \A p \in Threads : Written(p)
  BY Zenon DEF ChannelInv, ItemInv, ItemOf
<1>2. CASE Kept
  BY <1>2, Zenon DEF Kept
<1>3. CASE Taken
  BY <1>3, Zenon DEF Taken, Fifo!FifoNext, Fifo!Take
<1>4. ASSUME NEW p \in Threads, Publish(p), Put(p), Len(Unread) < Cap - 1 PROVE Fifo!FifoNext
  <2>1. pc[p] \in Unpublished
    BY <1>4 DEF Publish, Goto, Unpublished
  <2>2. pushed[p] \in Nat /\ 1 <= pushed[p] /\ pushed[p] <= Quota[p] /\ Quota[p] \in Nat
    BY <1>1, <2>1, ChannelAssumption, SMTT(30) DEF TypeInv, ItemInv, ItemOf
  <2>3. Item(p) \in Items
    BY <2>2 DEF Item, Items
  <2>4. Item(p) \notin Entered
    BY <1>1, <2>1, <2>2, Zenon DEF ItemInv, ItemOf, Once, Item
  <2>5. ~ Fifo!Holds(Unread, Item(p)) /\ ~ Fifo!Holds(received, Item(p))
    BY <2>4, Zenon DEF Entered, Elems, Fifo!Holds
  <2>6. Fifo!Put(Item(p))
    BY <1>4, <2>5, Zenon DEF Put, Fifo!Put
  <2> QED BY <2>3, <2>6, Zenon DEF Fifo!FifoNext
<1> QED BY <1>1, <1>2, <1>3, <1>4, QueueStep, Zenon

\* The ring buffer, its lock and its three positions implement the bounded
\* FIFO queue: items are received once each, in the order they were published,
\* and at most Cap - 1 of them wait, for any number of threads and any capacity.
THEOREM RingImplementsFifo == ASSUME Owned PROVE Spec => ImplementsFifo
<1>1. Init => Fifo!FifoInit
  <2> SUFFICES ASSUME Init PROVE Unread = <<>> /\ received = <<>>
    BY Zenon DEF Fifo!FifoInit
  <2>1. next = 0 /\ tail = 0 /\ received = <<>> /\ 0 \in Slots
    BY CapNat DEF Init, Slots
  <2>2. Available = 0
    BY <2>1, UnreadIs, AheadSelf
  <2> QED BY <2>1, <2>2 DEF Unread
<1>2. ChannelInv /\ [Next]_vars => [Fifo!FifoNext]_<<Unread, received>>
  BY FifoStep
<1> QED BY <1>1, <1>2, ChannelInvariant, PTL DEF Spec, ImplementsFifo, Fifo!FifoSpec
=============================================================================
