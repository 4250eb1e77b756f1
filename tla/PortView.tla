------------------------------- MODULE PortView -------------------------------
(***************************************************************************)
(* What the crate promises about ports (src/src/lib.rs:49-60): ports added *)
(* or removed as a group reach the process thread as one atomic update,    *)
(* the thread keeps one view for the whole of a cycle, and a port is given *)
(* back to the server only when nobody can reach it any more.              *)
(* No buffers, no reference counts, no collector: those are PortSync's.    *)
(***************************************************************************)
CONSTANT Ports

VARIABLES
  open,     \* the client handle is open
  live,     \* ports the server holds for this client
  staged,   \* registered by the call in progress, not yet announced
  table,    \* the group-wise state of the client's ports
  view,     \* the table the process thread last picked up
  inCycle   \* the process thread is inside a callback

vars == <<open, live, staged, table, view, inCycle>>

TypeOK ==
  /\ open \in BOOLEAN
  /\ live \subseteq Ports
  /\ staged \subseteq Ports
  /\ table \subseteq Ports
  /\ view \subseteq Ports
  /\ inCycle \in BOOLEAN

Init ==
  /\ open = TRUE
  /\ live = {} /\ staged = {} /\ table = {} /\ view = {}
  /\ inCycle = FALSE

Add(p) ==
  /\ open /\ p \in Ports \ live
  /\ live' = live \cup {p}
  /\ staged' = staged \cup {p}
  /\ UNCHANGED <<open, table, view, inCycle>>

Publish ==
  /\ open
  /\ table' = table \cup staged
  /\ staged' = {}
  /\ UNCHANGED <<open, live, view, inCycle>>

Remove(S) ==
  /\ open /\ staged = {}
  /\ table' = table \ S
  /\ UNCHANGED <<open, live, staged, view, inCycle>>

Reclaim(R) ==
  /\ open
  /\ R \subseteq live \ (staged \cup table \cup view)
  /\ live' = live \ R
  /\ UNCHANGED <<open, staged, table, view, inCycle>>

BeginCycle ==
  /\ open /\ ~inCycle
  /\ view' = table
  /\ inCycle' = TRUE
  /\ UNCHANGED <<open, live, staged, table>>

EndCycle ==
  /\ inCycle
  /\ inCycle' = FALSE
  /\ UNCHANGED <<open, live, staged, table, view>>

Close ==
  /\ open /\ ~inCycle
  /\ open' = FALSE
  /\ live' = {} /\ staged' = {} /\ table' = {} /\ view' = {}
  /\ UNCHANGED inCycle

Next ==
  \/ \E p \in Ports : Add(p)
  \/ Publish
  \/ \E S \in SUBSET Ports : Remove(S)
  \/ \E R \in SUBSET Ports : Reclaim(R)
  \/ BeginCycle
  \/ EndCycle
  \/ Close

Spec == Init /\ [][Next]_vars
=============================================================================
