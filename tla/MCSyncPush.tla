----------------------------- MODULE MCSyncPush -----------------------------
(* An instance of SyncPush for TLC.                                        *)
EXTENDS SyncPush

CONSTANTS a, b

\* Both post; b's journal does not balance.
MCPosts == {a, b}
MCUnbalanced == {b}

\* A till that was never polled numbers its ops alike.
MCTies == [o \in Op |-> 1]
=============================================================================
