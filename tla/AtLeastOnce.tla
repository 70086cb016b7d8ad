---------------------------- MODULE AtLeastOnce ----------------------------
(***************************************************************************)
(* What a delivery queue of the SDK promises, whatever its storage and its *)
(* retry loop look like: an item that was handed over waits until it is    *)
(* either delivered, perhaps several times, or openly given up; nothing    *)
(* reaches the server that was not handed over, and a fate once decided is *)
(* never revoked.                                                          *)
(***************************************************************************)
CONSTANT Item

VARIABLES
  pending,    \* items the queue still holds and the server does not have
  received,   \* items the server has at least one copy of
  lost        \* items given up for good

vars == <<pending, received, lost>>

Init ==
  /\ pending = {}
  /\ received = {}
  /\ lost = {}

(* A new item is taken in, and a bounded queue may let go of old ones.     *)
Accept(i, dropped) ==
  /\ i \notin pending \union received \union lost
  /\ pending' = (pending \ dropped) \union {i}
  /\ lost' = lost \union dropped
  /\ UNCHANGED received

(* Some waiting items reach the server, some are given up, the rest waits. *)
Resolve(delivered, dropped) ==
  /\ delivered \intersect dropped = {}
  /\ received' = received \union delivered
  /\ lost' = lost \union dropped
  /\ pending' = pending \ (delivered \union dropped)

Next ==
  \/ \E i \in Item, dropped \in SUBSET pending : Accept(i, dropped)
  \/ \E delivered, dropped \in SUBSET pending : Resolve(delivered, dropped)

Spec == Init /\ [][Next]_vars
=============================================================================
