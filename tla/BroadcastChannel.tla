-------------------------- MODULE BroadcastChannel --------------------------
(***************************************************************************)
(* streaming::BroadcastChannel: one writer, a ring buffer, and a cursor    *)
(* slot for each subscriber that is active or not.  Subscribers come and   *)
(* go while the writer runs; the slow subscriber policy says what it does  *)
(* when the next slot still holds an item that a subscriber has not read.  *)
(* One atomic access, or one access to a buffer slot, is one step; memory  *)
(* is sequentially consistent.                                             *)
(*                                                                         *)
(* The n-th item is the number n, so a reader at position n ought to be    *)
(* given n.  active_count, next_slot_hint and the names decide nothing but *)
(* the slot where subscribe begins its search: it takes any free one here. *)
(* close only ends the writer, which may stop at any time.                 *)
(***************************************************************************)
EXTENDS Naturals, Sequences

CONSTANTS Channels,   \* what Init chooses the configuration from
          Readers     \* the threads that subscribe

\* The slow subscriber policy, the effective capacity, the number of cursors
\* (max_subscribers), and as bounds the items ever broadcast and the
\* subscriptions of a thread.
ASSUME BroadcastAssumption ==
    Channels \subseteq [policy : {"Block", "DropSlow", "SkipForSlow"}, cap : Nat \ {0},
                       cursors : Nat, items : Nat, joins : Nat]

VARIABLES config,    \* BroadcastConfig
          buffer,    \* slot -> item
          writeSeq,
          active, readSeq,   \* cursor -> CursorSlot
          wpc,       \* where the writer is in broadcast
          scan,      \* the scan of slowest_cursor or drop_slowest_subscriber:
                     \* why, at which cursor, the least position and its cursor
          rpc,       \* reader -> where it is
          local,     \* reader -> its cursor, what it loaded, and its subscriptions
          start,     \* reader -> start_seq of its subscription
          overtaken, \* readers whose subscribe was lapped by the writer
          got        \* reader -> what its subscription has been given

writer == <<wpc, scan>>
history == <<start, overtaken, got>>
vars == <<config, buffer, writeSeq, active, readSeq, writer, rpc, local, history>>

Cap == config.cap
Cursors == 1..config.cursors

SlotIndex(seq) == seq % Cap

\* slowest_cursor returns u64::MAX when no cursor is active.
None == [any |-> FALSE, pos |-> 0, cursor |-> 0]
NewScan(why) == [why |-> why, at |-> 1, least |-> None]

Init ==
    /\ config \in Channels
    /\ buffer = [i \in 0..Cap-1 |-> 0] /\ writeSeq = 0
    /\ active = [c \in Cursors |-> FALSE]
    /\ readSeq = [c \in Cursors |-> 0]
    /\ wpc = "idle" /\ scan = NewScan("check")
    /\ rpc = [t \in Readers |-> "out"]
    /\ local = [t \in Readers |-> [cursor |-> 0, read |-> 0, value |-> 0, joins |-> 0]]
    /\ start = [t \in Readers |-> 0]
    /\ overtaken = {}
    /\ got = [t \in Readers |-> <<>>]

-----------------------------------------------------------------------------
(* broadcast.                                                              *)

WriterStep(to) ==
    /\ wpc' = to
    /\ UNCHANGED <<config, readSeq, rpc, local, history>>

Broadcast ==
    /\ wpc = "idle" /\ writeSeq < config.items
    /\ scan' = NewScan("check")
    /\ WriterStep("scan")
    /\ UNCHANGED <<buffer, writeSeq, active>>

\* One cursor of the scan: is_active, and if so its position.
ScanActive ==
    /\ wpc = "scan" /\ scan.at <= config.cursors
    /\ IF active[scan.at]
       THEN WriterStep("position") /\ UNCHANGED scan
       ELSE WriterStep("scan") /\ scan' = [scan EXCEPT !.at = @ + 1]
    /\ UNCHANGED <<buffer, writeSeq, active>>

ScanPosition ==
    /\ wpc = "position"
    /\ LET pos == readSeq[scan.at]
       IN  scan' = [scan EXCEPT
              !.at = @ + 1,
              !.least = IF ~@.any \/ pos < @.pos
                        THEN [any |-> TRUE, pos |-> pos, cursor |-> scan.at] ELSE @]
    /\ WriterStep("scan")
    /\ UNCHANGED <<buffer, writeSeq, active>>

Scanned(why) == wpc = "scan" /\ scan.at > config.cursors /\ scan.why = why

\* Variant: the last free slot is taken to be two slots.
RoomOffByOne == writeSeq <= scan.least.pos + Cap

Room == writeSeq < scan.least.pos + Cap

\* The first scan: NoSubscribers, the slot is free, or the policy decides.
Decide ==
    /\ Scanned("check")
    /\ \/ ~scan.least.any /\ WriterStep("idle") /\ UNCHANGED scan
       \/ /\ scan.least.any /\ (Room \/ config.policy = "SkipForSlow")
          /\ WriterStep("write") /\ UNCHANGED scan
       \/ /\ scan.least.any /\ ~Room /\ config.policy # "SkipForSlow"
          /\ WriterStep("scan")
          /\ scan' = NewScan(IF config.policy = "Block" THEN "wait" ELSE "drop")
    /\ UNCHANGED <<buffer, writeSeq, active>>

\* Variant: the timeout lets the write go ahead.
WaitForSlowestGivesUp ==
    /\ Scanned("wait")
    /\ \/ ~scan.least.any /\ WriterStep("idle") /\ UNCHANGED scan
       \/ scan.least.any /\ Room /\ WriterStep("write") /\ UNCHANGED scan
       \/ scan.least.any /\ ~Room /\ WriterStep("write") /\ UNCHANGED scan
       \/ scan.least.any /\ ~Room /\ WriterStep("scan") /\ scan' = NewScan("wait")
    /\ UNCHANGED <<buffer, writeSeq, active>>

\* wait_for_slowest: NoSubscribers, room, SlowSubscriberTimeout, or once more.
WaitForSlowest ==
    /\ Scanned("wait")
    /\ \/ ~scan.least.any /\ WriterStep("idle") /\ UNCHANGED scan
       \/ scan.least.any /\ Room /\ WriterStep("write") /\ UNCHANGED scan
       \/ scan.least.any /\ ~Room /\ WriterStep("idle") /\ UNCHANGED scan
       \/ scan.least.any /\ ~Room /\ WriterStep("scan") /\ scan' = NewScan("wait")
    /\ UNCHANGED <<buffer, writeSeq, active>>

DropSlowest ==
    /\ Scanned("drop")
    /\ active' = IF scan.least.any THEN [active EXCEPT ![scan.least.cursor] = FALSE]
                 ELSE active
    /\ WriterStep("write")
    /\ UNCHANGED <<buffer, writeSeq, scan>>

WriteSlot ==
    /\ wpc = "write"
    /\ buffer' = [buffer EXCEPT ![SlotIndex(writeSeq)] = writeSeq]
    /\ WriterStep("publish")
    /\ UNCHANGED <<writeSeq, active, scan>>

Publish ==
    /\ wpc = "publish"
    /\ writeSeq' = writeSeq + 1
    /\ WriterStep("idle")
    /\ UNCHANGED <<buffer, active, scan>>

-----------------------------------------------------------------------------
(* subscribe, read, try_read and unsubscribe.                              *)

Goto(t, from, to) == rpc[t] = from /\ rpc' = [rpc EXCEPT ![t] = to]

ReaderStep == UNCHANGED <<config, buffer, writeSeq, writer>>

\* subscribe loads write_seq ...
Subscribe(t) ==
    /\ local[t].joins < config.joins
    /\ Goto(t, "out", "claim")
    /\ start' = [start EXCEPT ![t] = writeSeq]
    /\ overtaken' = overtaken \ {t}
    /\ got' = [got EXCEPT ![t] = <<>>]
    /\ local' = [local EXCEPT ![t].joins = @ + 1]
    /\ ReaderStep /\ UNCHANGED <<active, readSeq>>

\* ... claims a cursor with a compare_exchange (MaxSubscribersReached if a
\* round finds none; one that finds each taken at a different moment leaves
\* nothing behind either) ...
Claim(t) ==
    /\ \/ \E c \in Cursors :
             /\ ~active[c]
             /\ Goto(t, "claim", "position")
             /\ active' = [active EXCEPT ![c] = TRUE]
             /\ local' = [local EXCEPT ![t].cursor = c]
       \/ /\ \A c \in Cursors : active[c]
          /\ Goto(t, "claim", "out")
          /\ UNCHANGED <<active, local>>
    /\ ReaderStep /\ UNCHANGED <<readSeq, history>>

\* ... and only then stores its position.  The writer may have gone round in
\* the meantime: it did not have to wait for this cursor.
StorePosition(t) ==
    /\ Goto(t, "position", "in")
    /\ readSeq' = [readSeq EXCEPT ![local[t].cursor] = start[t]]
    /\ overtaken' = IF writeSeq >= start[t] + Cap THEN overtaken \cup {t} ELSE overtaken
    /\ ReaderStep /\ UNCHANGED <<active, local, start, got>>

\* read and try_read: nothing for a cursor that is not active ...
Read(t) ==
    /\ Goto(t, "in", IF active[local[t].cursor] THEN "load" ELSE "in")
    /\ ReaderStep /\ UNCHANGED <<active, readSeq, local, history>>

LoadPosition(t) ==
    /\ Goto(t, "load", "compare")
    /\ local' = [local EXCEPT ![t].read = readSeq[local[t].cursor]]
    /\ ReaderStep /\ UNCHANGED <<active, readSeq, history>>

\* ... nothing for one that has caught up ...
Compare(t) ==
    /\ IF local[t].read >= writeSeq
       THEN Goto(t, "compare", "in") /\ local' = [local EXCEPT ![t].read = 0]
       ELSE Goto(t, "compare", "clone") /\ UNCHANGED local
    /\ ReaderStep /\ UNCHANGED <<active, readSeq, history>>

\* The writer is about to assign the slot that t is about to clone.  Neither
\* access is atomic, so what t gets can be anything.
Race(t) == /\ wpc = "write" /\ rpc[t] = "clone"
           /\ SlotIndex(writeSeq) = SlotIndex(local[t].read)

\* ... or a clone of the slot, after which the position advances.
CloneSlot(t) ==
    /\ Goto(t, "clone", "advance")
    /\ \E v \in IF Race(t) THEN 0..config.items ELSE {buffer[SlotIndex(local[t].read)]} :
           local' = [local EXCEPT ![t].value = v]
    /\ ReaderStep /\ UNCHANGED <<active, readSeq, history>>

Advance(t) ==
    /\ Goto(t, "advance", "in")
    /\ readSeq' = [readSeq EXCEPT ![local[t].cursor] = local[t].read + 1]
    /\ got' = [got EXCEPT ![t] = Append(@, local[t].value)]
    /\ local' = [local EXCEPT ![t].read = 0, ![t].value = 0]
    /\ ReaderStep /\ UNCHANGED <<active, start, overtaken>>

\* unsubscribe looks at active and deactivates.
Unsubscribe(t) ==
    /\ Goto(t, "in", IF active[local[t].cursor] THEN "leave" ELSE "out")
    /\ ReaderStep /\ UNCHANGED <<active, readSeq, local, history>>

Deactivate(t) ==
    /\ Goto(t, "leave", "out")
    /\ active' = [active EXCEPT ![local[t].cursor] = FALSE]
    /\ ReaderStep /\ UNCHANGED <<readSeq, local, history>>

WriterNext ==
    \/ Broadcast \/ ScanActive \/ ScanPosition \/ Decide \/ WaitForSlowest
    \/ DropSlowest \/ WriteSlot \/ Publish

ReaderNext(t) ==
    \/ Subscribe(t) \/ Claim(t) \/ StorePosition(t)
    \/ Read(t) \/ LoadPosition(t) \/ Compare(t) \/ CloneSlot(t) \/ Advance(t)
    \/ Unsubscribe(t) \/ Deactivate(t)

Next == WriterNext \/ \E t \in Readers : ReaderNext(t)

Spec == Init /\ [][Next]_vars

-----------------------------------------------------------------------------
(* Properties.                                                             *)

\* Under Block a subscription is given every item from its start_seq on, in
\* order and once, whatever the other subscribers do and although the cursor
\* is active before its position is stored: broadcast never overwrites a
\* slot that such a subscriber has yet to read.  The one exception is a
\* subscribe call during which the writer wrote Cap items or more.
ReadsExact ==
    config.policy = "Block" =>
        \A t \in Readers \ overtaken :
            \A i \in 1..Len(got[t]) : got[t][i] = start[t] + i - 1

\* The SAFETY comment of broadcast: "The slot is available because we've
\* either waited for slow subscribers or applied the configured policy".
\* Under Block no such subscriber is cloning the slot that broadcast is about
\* to assign, although the check and the assignment are steps apart.
SlotAvailable ==
    config.policy = "Block" => \A t \in Readers \ overtaken : ~Race(t)

=============================================================================
