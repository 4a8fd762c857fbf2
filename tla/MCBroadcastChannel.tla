------------------------- MODULE MCBroadcastChannel -------------------------
(* The channels TLC explores: the smallest that block, drop and skip with  *)
(* two cursors, and one where two threads take turns at a single cursor.   *)
EXTENDS BroadcastChannel, TLC

CONSTANTS r1, r2

MCReaders == {r1, r2}
Symmetry == Permutations(MCReaders)

Channel(policy, cap, cursors, items, joins) ==
    [policy |-> policy, cap |-> cap, cursors |-> cursors, items |-> items, joins |-> joins]

MCChannels ==
    { Channel("Block", 2, 2, 4, 1),
      Channel("Block", 2, 1, 4, 2),
      Channel("Block", 1, 2, 2, 2),
      Channel("DropSlow", 1, 2, 2, 1),
      Channel("SkipForSlow", 2, 2, 3, 1) }
=============================================================================
