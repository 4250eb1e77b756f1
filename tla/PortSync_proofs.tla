--------------------------- MODULE PortSync_proofs ---------------------------
(***************************************************************************)
(* TLAPS proofs about PortSync, for every set of ports.                    *)
(***************************************************************************)
EXTENDS PortSync, TLAPS

USE DEF Slot, NoSlot

-----------------------------------------------------------------------------
(* The reference count of one port after a map was assigned to slot s.     *)
LEMMA RefsAfterAssign ==
  ASSUME TypeOK, NEW s \in Slot, NEW m \in SUBSET Ports, NEW p \in Ports,
         buf' = [buf EXCEPT ![s] = m], ports' = ports
  PROVE  Refs(p)' = Refs(p) + Count(p \in m) - Count(p \in buf[s])
<1>1. CASE s = 0
  BY <1>1 DEF TypeOK, Refs, Count
<1>2. CASE s = 1
  BY <1>2 DEF TypeOK, Refs, Count
<1>3. CASE s = 2
  BY <1>3 DEF TypeOK, Refs, Count
<1> QED
  BY <1>1, <1>2, <1>3

(* Assigning (part of) the client's map to a slot keeps the counts exact,  *)
(* and the server holds exactly the ports that are still referenced.       *)
LEMMA AssignExact ==
  ASSUME TypeOK, RcExact, ServerExact, NEW s \in Slot, NEW m \in SUBSET ports,
         Assign(s, m), phase' = phase
  PROVE  /\ buf' \in [Slot -> SUBSET Ports]
         /\ ports' = ports
         /\ rc' \in [Ports -> Nat]
         /\ registered' \subseteq Ports
         /\ RcExact'
         /\ ServerExact'
<1> DEFINE newRc == [p \in Ports |-> rc[p] + Count(p \in m) - Count(p \in buf[s])]
<1>1. /\ buf' = [buf EXCEPT ![s] = m]
      /\ ports' = ports
      /\ rc' = newRc
      /\ registered' = registered \ {p \in Ports : rc[p] > 0 /\ rc'[p] = 0}
  BY DEF Assign, Recount, RcAfter, LastDrop
<1>2. m \in SUBSET Ports
  BY DEF TypeOK
<1>3. \A p \in Ports : rc'[p] = Refs(p)'
  <2> TAKE p \in Ports
  <2>1. rc'[p] = Refs(p) + Count(p \in m) - Count(p \in buf[s])
    BY <1>1 DEF RcExact
  <2> QED
    BY <1>1, <1>2, <2>1, RefsAfterAssign
<1>4. RcExact'
  BY <1>3 DEF RcExact
<1>5. buf' \in [Slot -> SUBSET Ports]
  BY <1>1, <1>2 DEF TypeOK
<1>6. \A p \in Ports : Refs(p)' \in Nat
  BY DEF Refs, Count
<1>7. rc' \in [Ports -> Nat]
  BY <1>1, <1>3, <1>6
<1>8. ServerExact'
  <2>1. CASE Open
    <3>1. \A p \in m : rc[p] > 0
      BY <1>2 DEF RcExact, Refs, Count, TypeOK
    <3>2. \A p \in Ports : rc'[p] > 0 => rc[p] > 0
      <4> TAKE p \in Ports
      <4>1. CASE p \in m
        BY <3>1, <4>1
      <4>2. CASE p \notin m
        <5>1. rc'[p] = rc[p] - Count(p \in buf[s])
          BY <1>1, <4>2 DEF Count, TypeOK
        <5> QED
          BY <5>1 DEF Count, TypeOK
      <4> QED
        BY <4>1, <4>2
    <3>3. registered' = {p \in Ports : rc'[p] > 0}
      BY <1>1, <1>7, <2>1, <3>2 DEF ServerExact, TypeOK
    <3> QED
      BY <2>1, <3>3 DEF ServerExact, Open
  <2>2. CASE ~Open
    BY <1>1, <2>2 DEF ServerExact, Open
  <2> QED
    BY <2>1, <2>2
<1> QED
  BY <1>1, <1>4, <1>5, <1>7, <1>8 DEF TypeOK

-----------------------------------------------------------------------------
(* Init and steps.  Counts is what AssignExact speaks about, Protocol  *)
(* the rest of IInv.                                                       *)

Counts == TypeOK /\ RcExact /\ ServerExact

Protocol ==
  /\ RolesDistinct /\ SlotBorrowed /\ TableCurrent
  /\ AllCollected /\ CollectorFlag /\ PhaseExact

LEMMA IInvParts == IInv <=> Counts /\ Protocol
BY DEF IInv, Counts, Protocol

LEMMA InitIInv == Init => IInv
<1> SUFFICES ASSUME Init PROVE IInv
  OBVIOUS
<1> USE DEF Init, TBInit
<1>1. TypeOK
  <2>1. TBTypeOK
    <3>1. front \in Slot /\ pending \in Slot /\ back \in Slot
      OBVIOUS
    <3>2. dirty \in BOOLEAN
      OBVIOUS
    <3> QED
      BY <3>1, <3>2 DEF TBTypeOK
  <2>2. phase \in Phases /\ pc \in PCs
    BY DEF Phases, PCs
  <2> QED
    BY <2>1, <2>2 DEF TypeOK
<1>2. RcExact /\ ServerExact
  BY DEF RcExact, ServerExact, Refs, Count, Open
<1>3. Protocol
  BY DEF Protocol, RolesDistinct, SlotBorrowed, TableCurrent, AllCollected,
         CollectorFlag, PhaseExact, Latest, Count
<1> QED
  BY <1>1, <1>2, <1>3 DEF IInv, Protocol

(* A step that leaves the maps, the counts and the server alone keeps them *)
(* consistent.                                                             *)
LEMMA CountsUnchanged ==
  ASSUME Counts, UNCHANGED mapVars, Open' = Open, TBTypeOK',
         phase' \in Phases, cycling' \in BOOLEAN, pc' \in PCs,
         slot' \in Slot \cup {NoSlot}, pendingPortGc' \in BOOLEAN,
         collectors' \in Nat, inCycle' \in BOOLEAN
  PROVE  Counts'
<1>1. TypeOK'
  BY DEF Counts, TypeOK, mapVars
<1>2. RcExact'
  BY DEF Counts, RcExact, Refs, mapVars
<1>3. ServerExact'
  BY DEF Counts, ServerExact, mapVars
<1> QED
  BY <1>1, <1>2, <1>3 DEF Counts

LEMMA RegisterCallIInv == IInv /\ RegisterCall => IInv'
<1> SUFFICES ASSUME IInv, RegisterCall PROVE IInv'
  OBVIOUS
<1> USE DEF RegisterCall
<1>1. Counts'
  BY CountsUnchanged, IInvParts
     DEF Counts, TypeOK, TBTypeOK, PCs, Open, tbVars, clientVars, gcVars
<1>2. Protocol'
  BY IInvParts
     DEF Counts, TypeOK, TBTypeOK, Open, Protocol, RolesDistinct, SlotBorrowed,
         TableCurrent, AllCollected, CollectorFlag, PhaseExact, Latest, tbVars,
         clientVars, gcVars, mapVars, Count
<1> QED
  BY <1>1, <1>2 DEF IInv, Counts, Protocol

LEMMA RegisterLockIInv == IInv /\ RegisterLock => IInv'
<1> SUFFICES ASSUME IInv, RegisterLock PROVE IInv'
  OBVIOUS
<1> USE DEF RegisterLock
<1>1. Counts'
  BY CountsUnchanged, IInvParts
     DEF Counts, TypeOK, TBTypeOK, PCs, Open, tbVars, clientVars, gcVars
<1>2. Protocol'
  BY IInvParts
     DEF Counts, TypeOK, TBTypeOK, Open, Protocol, RolesDistinct, SlotBorrowed,
         TableCurrent, AllCollected, CollectorFlag, PhaseExact, Latest, tbVars,
         clientVars, gcVars, mapVars, Count
<1> QED
  BY <1>1, <1>2 DEF IInv, Counts, Protocol

LEMMA RegisterSwapIInv == IInv /\ RegisterSwap => IInv'
<1> SUFFICES ASSUME IInv, RegisterSwap PROVE IInv'
  OBVIOUS
<1> USE DEF RegisterSwap, Swap
<1>1. Counts'
  BY CountsUnchanged, IInvParts
     DEF Counts, TypeOK, TBTypeOK, PCs, Open, tbVars, clientVars, gcVars
<1>2. Protocol'
  BY IInvParts
     DEF Counts, TypeOK, TBTypeOK, Open, Protocol, RolesDistinct, SlotBorrowed,
         TableCurrent, AllCollected, CollectorFlag, PhaseExact, Latest, tbVars,
         clientVars, gcVars, mapVars, Count
<1> QED
  BY <1>1, <1>2 DEF IInv, Counts, Protocol

LEMMA UnregisterSwapIInv == IInv /\ UnregisterSwap => IInv'
<1> SUFFICES ASSUME IInv, UnregisterSwap PROVE IInv'
  OBVIOUS
<1> USE DEF UnregisterSwap, Swap
<1>1. Counts'
  BY CountsUnchanged, IInvParts
     DEF Counts, TypeOK, TBTypeOK, PCs, Open, tbVars, clientVars, gcVars
<1>2. Protocol'
  BY IInvParts
     DEF Counts, TypeOK, TBTypeOK, Open, Protocol, RolesDistinct, SlotBorrowed,
         TableCurrent, AllCollected, CollectorFlag, PhaseExact, Latest, tbVars,
         clientVars, gcVars, mapVars, Count
<1> QED
  BY <1>1, <1>2 DEF IInv, Counts, Protocol

LEMMA GcTickIInv == IInv /\ GcTick => IInv'
<1> SUFFICES ASSUME IInv, GcTick PROVE IInv'
  OBVIOUS
<1> USE DEF GcTick
<1>1. Counts'
  BY CountsUnchanged, IInvParts
     DEF Counts, TypeOK, TBTypeOK, PCs, Open, tbVars, clientVars, gcVars
<1>2. Protocol'
  BY IInvParts
     DEF Counts, TypeOK, TBTypeOK, Open, Protocol, RolesDistinct, SlotBorrowed,
         TableCurrent, AllCollected, CollectorFlag, PhaseExact, Latest, tbVars,
         clientVars, gcVars, mapVars, Count
<1> QED
  BY <1>1, <1>2 DEF IInv, Counts, Protocol

LEMMA GcOrphanIInv == IInv /\ GcOrphan => IInv'
<1> SUFFICES ASSUME IInv, GcOrphan PROVE IInv'
  OBVIOUS
<1> USE DEF GcOrphan
<1>1. Counts'
  BY CountsUnchanged, IInvParts
     DEF Counts, TypeOK, TBTypeOK, PCs, Open, tbVars, clientVars, gcVars
<1>2. Protocol'
  BY IInvParts
     DEF Counts, TypeOK, TBTypeOK, Open, Protocol, RolesDistinct, SlotBorrowed,
         TableCurrent, AllCollected, CollectorFlag, PhaseExact, Latest, tbVars,
         clientVars, gcVars, mapVars, Count
<1> QED
  BY <1>1, <1>2 DEF IInv, Counts, Protocol

LEMMA BeginCycleIInv == IInv /\ BeginCycle => IInv'
<1> SUFFICES ASSUME IInv, BeginCycle PROVE IInv'
  OBVIOUS
<1> USE DEF BeginCycle, FrontBuffer, Latest
<1>1. Counts'
  BY CountsUnchanged, IInvParts
     DEF Counts, TypeOK, TBTypeOK, PCs, Open, tbVars, clientVars, gcVars
<1>2. Protocol'
  BY IInvParts
     DEF Counts, TypeOK, TBTypeOK, Open, Protocol, RolesDistinct, SlotBorrowed,
         TableCurrent, AllCollected, CollectorFlag, PhaseExact, Latest, tbVars,
         clientVars, gcVars, mapVars, Count
<1> QED
  BY <1>1, <1>2 DEF IInv, Counts, Protocol

LEMMA EndCycleIInv == IInv /\ EndCycle => IInv'
<1> SUFFICES ASSUME IInv, EndCycle PROVE IInv'
  OBVIOUS
<1> USE DEF EndCycle
<1>1. Counts'
  BY CountsUnchanged, IInvParts
     DEF Counts, TypeOK, TBTypeOK, PCs, Open, tbVars, clientVars, gcVars
<1>2. Protocol'
  BY IInvParts
     DEF Counts, TypeOK, TBTypeOK, Open, Protocol, RolesDistinct, SlotBorrowed,
         TableCurrent, AllCollected, CollectorFlag, PhaseExact, Latest, tbVars,
         clientVars, gcVars, mapVars, Count
<1> QED
  BY <1>1, <1>2 DEF IInv, Counts, Protocol

LEMMA BreakCycleIInv == IInv /\ BreakCycle => IInv'
<1> SUFFICES ASSUME IInv, BreakCycle PROVE IInv'
  OBVIOUS
<1> USE DEF BreakCycle
<1>1. Counts'
  BY CountsUnchanged, IInvParts
     DEF Counts, TypeOK, TBTypeOK, PCs, Open, tbVars, clientVars, gcVars
<1>2. Protocol'
  BY IInvParts
     DEF Counts, TypeOK, TBTypeOK, Open, Protocol, RolesDistinct, SlotBorrowed,
         TableCurrent, AllCollected, CollectorFlag, PhaseExact, Latest, tbVars,
         clientVars, gcVars, mapVars, Count
<1> QED
  BY <1>1, <1>2 DEF IInv, Counts, Protocol

LEMMA ActivateIInv == IInv /\ (\E h \in BOOLEAN : Activate(h)) => IInv'
<1> SUFFICES ASSUME IInv, (\E h \in BOOLEAN : Activate(h)) PROVE IInv'
  OBVIOUS
<1> USE DEF Activate
<1>1. Counts'
  BY CountsUnchanged, IInvParts
     DEF Counts, TypeOK, TBTypeOK, PCs, Phases, Open, tbVars, clientVars, gcVars
<1>2. Protocol'
  BY IInvParts
     DEF Counts, TypeOK, TBTypeOK, Open, Protocol, RolesDistinct, SlotBorrowed,
         TableCurrent, AllCollected, CollectorFlag, PhaseExact, Latest, tbVars,
         clientVars, gcVars, mapVars, Count
<1> QED
  BY <1>1, <1>2 DEF IInv, Counts, Protocol

LEMMA DeactivateIInv == IInv /\ Deactivate => IInv'
<1> SUFFICES ASSUME IInv, Deactivate PROVE IInv'
  OBVIOUS
<1> USE DEF Deactivate
<1>1. Counts'
  BY CountsUnchanged, IInvParts
     DEF Counts, TypeOK, TBTypeOK, PCs, Phases, Open, tbVars, clientVars, gcVars
<1>2. Protocol'
  BY IInvParts
     DEF Counts, TypeOK, TBTypeOK, Open, Protocol, RolesDistinct, SlotBorrowed,
         TableCurrent, AllCollected, CollectorFlag, PhaseExact, Latest, tbVars,
         clientVars, gcVars, mapVars, Count
<1> QED
  BY <1>1, <1>2 DEF IInv, Counts, Protocol

LEMMA RegisterWriteIInv == IInv /\ RegisterWrite => IInv'
<1> SUFFICES ASSUME IInv, RegisterWrite PROVE IInv'
  OBVIOUS
<1> USE DEF RegisterWrite
<1>1. Counts'
  <2>1. slot \in Slot
    BY DEF IInv, SlotBorrowed, TypeOK, TBTypeOK
  <2>2. /\ buf' \in [Slot -> SUBSET Ports] /\ ports' = ports
        /\ rc' \in [Ports -> Nat] /\ registered' \subseteq Ports
        /\ RcExact' /\ ServerExact'
    BY <2>1, AssignExact DEF IInv, clientVars
  <2>3. TypeOK'
    BY <2>1, <2>2 DEF IInv, TypeOK, TBTypeOK, PCs, tbVars, clientVars, gcVars
  <2> QED
    BY <2>2, <2>3 DEF Counts
<1>2. buf' = [buf EXCEPT ![slot] = ports] /\ ports' = ports
  BY DEF Assign
<1>3. Protocol'
  BY <1>2, IInvParts
     DEF Counts, TypeOK, TBTypeOK, Open, Protocol, RolesDistinct, SlotBorrowed,
         TableCurrent, AllCollected, CollectorFlag, PhaseExact, Latest, tbVars,
         clientVars, gcVars, mapVars, Count
<1> QED
  BY <1>1, <1>3 DEF IInv, Counts, Protocol

LEMMA UnregisterWriteIInv == IInv /\ UnregisterWrite => IInv'
<1> SUFFICES ASSUME IInv, UnregisterWrite PROVE IInv'
  OBVIOUS
<1> USE DEF UnregisterWrite
<1>1. Counts'
  <2>1. slot \in Slot
    BY DEF IInv, SlotBorrowed, TypeOK, TBTypeOK
  <2>2. /\ buf' \in [Slot -> SUBSET Ports] /\ ports' = ports
        /\ rc' \in [Ports -> Nat] /\ registered' \subseteq Ports
        /\ RcExact' /\ ServerExact'
    BY <2>1, AssignExact DEF IInv, clientVars
  <2>3. TypeOK'
    BY <2>1, <2>2 DEF IInv, TypeOK, TBTypeOK, PCs, tbVars, clientVars, gcVars
  <2> QED
    BY <2>2, <2>3 DEF Counts
<1>2. buf' = [buf EXCEPT ![slot] = ports] /\ ports' = ports
  BY DEF Assign
<1>3. Protocol'
  BY <1>2, IInvParts
     DEF Counts, TypeOK, TBTypeOK, Open, Protocol, RolesDistinct, SlotBorrowed,
         TableCurrent, AllCollected, CollectorFlag, PhaseExact, Latest, tbVars,
         clientVars, gcVars, mapVars, Count
<1> QED
  BY <1>1, <1>3 DEF IInv, Counts, Protocol

LEMMA GcClearBackIInv == IInv /\ GcClearBack => IInv'
<1> SUFFICES ASSUME IInv, GcClearBack PROVE IInv'
  OBVIOUS
<1> USE DEF GcClearBack, PendingMut
<1>1. Counts'
  <2>1. slot \in Slot
    BY DEF IInv, SlotBorrowed, TypeOK, TBTypeOK
  <2>2. /\ buf' \in [Slot -> SUBSET Ports] /\ ports' = ports
        /\ rc' \in [Ports -> Nat] /\ registered' \subseteq Ports
        /\ RcExact' /\ ServerExact'
    BY <2>1, AssignExact DEF IInv, clientVars
  <2>3. TypeOK'
    BY <2>1, <2>2 DEF IInv, TypeOK, TBTypeOK, PCs, tbVars, clientVars, gcVars
  <2> QED
    BY <2>2, <2>3 DEF Counts
<1>2. buf' = [buf EXCEPT ![slot] = {}] /\ ports' = ports
  BY DEF Assign
<1>3. Protocol'
  BY <1>2, IInvParts
     DEF Counts, TypeOK, TBTypeOK, Open, Protocol, RolesDistinct, SlotBorrowed,
         TableCurrent, AllCollected, CollectorFlag, PhaseExact, Latest, tbVars,
         clientVars, gcVars, mapVars, Count
<1> QED
  BY <1>1, <1>3 DEF IInv, Counts, Protocol

LEMMA GcClearPendingIInv == IInv /\ GcClearPending => IInv'
<1> SUFFICES ASSUME IInv, GcClearPending PROVE IInv'
  OBVIOUS
<1> USE DEF GcClearPending
<1>1. Counts'
  <2>1. slot \in Slot
    BY DEF IInv, SlotBorrowed, TypeOK, TBTypeOK
  <2>2. /\ buf' \in [Slot -> SUBSET Ports] /\ ports' = ports
        /\ rc' \in [Ports -> Nat] /\ registered' \subseteq Ports
        /\ RcExact' /\ ServerExact'
    BY <2>1, AssignExact DEF IInv, clientVars
  <2>3. collectors' = 0
    BY DEF IInv, CollectorFlag, Count, AllCollected
  <2>4. pendingPortGc' \in BOOLEAN
    OBVIOUS
  <2>5. TypeOK'
    BY <2>2, <2>3, <2>4 DEF IInv, TypeOK, TBTypeOK, PCs, tbVars, clientVars, gcVars
  <2> QED
    BY <2>2, <2>5 DEF Counts
<1>2. buf' = [buf EXCEPT ![slot] = {}] /\ ports' = ports
  BY DEF Assign
<1>3. Protocol'
  BY <1>2, IInvParts
     DEF Counts, TypeOK, TBTypeOK, Open, Protocol, RolesDistinct, SlotBorrowed,
         TableCurrent, AllCollected, CollectorFlag, PhaseExact, Latest, tbVars,
         clientVars, gcVars, mapVars, Count
<1> QED
  BY <1>1, <1>3 DEF IInv, Counts, Protocol

LEMMA RegisterPortIInv == IInv /\ (\E p \in Ports : RegisterPort(p)) => IInv'
<1> SUFFICES ASSUME IInv, NEW p \in Ports, RegisterPort(p) PROVE IInv'
  OBVIOUS
<1> USE DEF RegisterPort
<1>1. Open /\ rc[p] = 0
  BY DEF IInv, PhaseExact, ServerExact, TypeOK, Open
<1>2. Refs(p) = 0
  BY <1>1 DEF IInv, RcExact
<1>3. p \notin ports /\ p \notin buf[0] /\ p \notin buf[1] /\ p \notin buf[2]
  BY <1>2 DEF Refs, Count
<1>4. Counts'
  <2>1. TypeOK'
    BY DEF IInv, TypeOK, TBTypeOK, tbVars, clientVars, gcVars
  <2>2. RcExact'
    <3> SUFFICES ASSUME NEW q \in Ports PROVE (rc[q] = Refs(q))'
      BY DEF RcExact
    <3>1. CASE q = p
      BY <1>3, <3>1 DEF IInv, TypeOK, Refs, Count
    <3>2. CASE q # p
      BY <3>2 DEF IInv, TypeOK, RcExact, Refs, Count
    <3> QED
      BY <3>1, <3>2
  <2>3. ServerExact'
    BY <1>1 DEF IInv, TypeOK, ServerExact, Open, clientVars
  <2> QED
    BY <2>1, <2>2, <2>3 DEF Counts
<1>5. Protocol'
  BY IInvParts
     DEF Counts, TypeOK, TBTypeOK, Open, Protocol, RolesDistinct, SlotBorrowed,
         TableCurrent, AllCollected, CollectorFlag, PhaseExact, Latest, tbVars,
         clientVars, gcVars, mapVars, Count
<1> QED
  BY <1>4, <1>5 DEF IInv, Counts, Protocol

LEMMA UnregisterCallIInv ==
  IInv /\ (\E S \in SUBSET Ports \ {{}} : UnregisterCall(S)) => IInv'
<1> SUFFICES ASSUME IInv, NEW S \in SUBSET Ports, UnregisterCall(S) PROVE IInv'
  OBVIOUS
<1> USE DEF UnregisterCall
<1>1. /\ rc' = [p \in Ports |-> rc[p] + Count(p \in {}) - Count(p \in ports \cap S)]
      /\ registered' = registered \ {p \in Ports : rc[p] > 0 /\ rc'[p] = 0}
  BY DEF Recount, RcAfter, LastDrop
<1>2. \A p \in Ports : rc'[p] = Refs(p)'
  <2> TAKE p \in Ports
  <2>1. rc'[p] = Refs(p) - Count(p \in ports \cap S)
    BY <1>1 DEF IInv, TypeOK, RcExact, Count, Refs
  <2> QED
    BY <2>1 DEF Refs, Count
<1>3. \A p \in Ports : Refs(p)' \in Nat
  BY DEF Refs, Count
<1>4. rc' \in [Ports -> Nat]
  BY <1>1, <1>2, <1>3
<1>5. Counts'
  <2>1. TypeOK'
    BY <1>1, <1>4 DEF IInv, TypeOK, TBTypeOK, PCs, tbVars, clientVars, gcVars
  <2>2. RcExact'
    BY <1>2 DEF RcExact
  <2>3. ServerExact'
    <3>1. \A p \in Ports : rc'[p] > 0 => rc[p] > 0
      BY <1>1 DEF IInv, TypeOK, Count
    <3> QED
      BY <1>1, <1>4, <3>1 DEF IInv, TypeOK, ServerExact, Open, clientVars
  <2> QED
    BY <2>1, <2>2, <2>3 DEF Counts
<1>6. Protocol'
  BY IInvParts
     DEF Counts, TypeOK, TBTypeOK, Open, Protocol, RolesDistinct, SlotBorrowed,
         TableCurrent, AllCollected, CollectorFlag, PhaseExact, Latest, tbVars,
         clientVars, gcVars, mapVars, Count
<1> QED
  BY <1>5, <1>6 DEF IInv, Counts, Protocol

LEMMA CloseClientIInv == IInv /\ CloseClient => IInv'
<1> SUFFICES ASSUME IInv, CloseClient PROVE IInv'
  OBVIOUS
<1> USE DEF CloseClient
<1>1. TypeOK'
  BY DEF IInv, TypeOK, TBTypeOK, Phases, PCs, tbVars, gcVars
<1>2. RcExact' /\ ServerExact'
  BY DEF IInv, RcExact, ServerExact, Refs, Open
<1>3. Protocol'
  BY IInvParts
     DEF Counts, TypeOK, TBTypeOK, Open, Protocol, RolesDistinct, SlotBorrowed,
         TableCurrent, AllCollected, CollectorFlag, PhaseExact, Latest, tbVars,
         clientVars, gcVars, mapVars, Count
<1> QED
  BY <1>1, <1>2, <1>3 DEF IInv, Protocol

LEMMA DropPortsIInv == IInv /\ DropPorts => IInv'
<1> SUFFICES ASSUME IInv, DropPorts PROVE IInv'
  OBVIOUS
<1> USE DEF DropPorts
<1>1. /\ rc' = [p \in Ports |-> rc[p] + Count(p \in {}) - Count(p \in ports)]
      /\ registered' = registered \ {p \in Ports : rc[p] > 0 /\ rc'[p] = 0}
  BY DEF Recount, RcAfter, LastDrop
<1>2. \A p \in Ports : rc'[p] = Refs(p)'
  <2> TAKE p \in Ports
  <2>1. rc'[p] = Refs(p) - Count(p \in ports)
    BY <1>1 DEF IInv, TypeOK, RcExact, Count, Refs
  <2> QED
    BY <2>1 DEF Refs, Count
<1>3. \A p \in Ports : Refs(p)' \in Nat
  BY DEF Refs, Count
<1>4. rc' \in [Ports -> Nat]
  BY <1>1, <1>2, <1>3
<1>5. TypeOK'
  BY <1>1, <1>4 DEF IInv, TypeOK, TBTypeOK, PCs, tbVars, clientVars, gcVars
<1>6. RcExact' /\ ServerExact'
  BY <1>1, <1>2 DEF IInv, RcExact, ServerExact, PhaseExact, Open, clientVars
<1>7. Protocol'
  BY IInvParts
     DEF Counts, TypeOK, TBTypeOK, Open, Protocol, RolesDistinct, SlotBorrowed,
         TableCurrent, AllCollected, CollectorFlag, PhaseExact, Latest, tbVars,
         clientVars, gcVars, mapVars, Count
<1> QED
  BY <1>5, <1>6, <1>7 DEF IInv, Protocol

LEMMA DropBuffersIInv == IInv /\ DropBuffers => IInv'
<1> SUFFICES ASSUME IInv, DropBuffers PROVE IInv'
  OBVIOUS
<1> USE DEF DropBuffers
<1>1. ports = {} /\ registered = {} /\ ~Open
  BY DEF IInv, PhaseExact, ServerExact, Open
<1>2. \A p \in Ports : rc'[p] = 0
  BY <1>1 DEF IInv, TypeOK, RcExact, Refs, Count
<1>3. TypeOK'
  <2>1. rc' \in [Ports -> Nat]
    BY <1>2
  <2>2. buf' \in [Slot -> SUBSET Ports]
    OBVIOUS
  <2> QED
    BY <1>1, <2>1, <2>2 DEF IInv, TypeOK, TBTypeOK, PCs, tbVars, clientVars, gcVars
<1>4. RcExact' /\ ServerExact'
  BY <1>1, <1>2 DEF RcExact, Refs, Count, ServerExact, Open, clientVars
<1>5. Protocol'
  BY <1>1, IInvParts
     DEF Counts, TypeOK, TBTypeOK, Open, Protocol, RolesDistinct, SlotBorrowed,
         TableCurrent, AllCollected, CollectorFlag, PhaseExact, Latest, tbVars,
         clientVars, gcVars, mapVars, Count
<1> QED
  BY <1>3, <1>4, <1>5 DEF IInv, Protocol

LEMMA StutterIInv == IInv /\ UNCHANGED vars => IInv'
BY DEF vars, IInv, TypeOK, TBTypeOK, RcExact, Refs, ServerExact, Open,
       RolesDistinct, SlotBorrowed, TableCurrent, AllCollected, CollectorFlag,
       PhaseExact, Latest

LEMMA StepIInv == IInv /\ [Next]_vars => IInv'
BY RegisterCallIInv, RegisterPortIInv, RegisterLockIInv, RegisterWriteIInv,
   RegisterSwapIInv, UnregisterCallIInv, UnregisterWriteIInv,
   UnregisterSwapIInv, GcTickIInv, GcClearBackIInv, GcClearPendingIInv,
   GcOrphanIInv, BeginCycleIInv, EndCycleIInv, BreakCycleIInv, ActivateIInv,
   DeactivateIInv, CloseClientIInv, DropPortsIInv, DropBuffersIInv, StutterIInv
   DEF Next, Terminated

-----------------------------------------------------------------------------
(* Every reachable state satisfies the inductive invariant: the roles of    *)
(* the slots, the exact counts and what the maps agree on, for any number   *)
(* of ports (client.rs:346-445, process.rs:402-470).                        *)
THEOREM Invariance == Spec => []IInv
<1>1. Init => IInv
  BY InitIInv
<1>2. IInv /\ [Next]_vars => IInv'
  BY StepIInv
<1> QED
  BY <1>1, <1>2, PTL DEF Spec

(* Every variable keeps its range; the counts of Rc::drop never go below 0. *)
THEOREM TypeCorrect == Spec => []TypeOK
BY Invariance, PTL DEF IInv

(* The main thread never writes the slot a running callback reads           *)
(* (client.rs:396, 414, 434, 436 against callbacks.rs:380-389).             *)
THEOREM DataRaceFreedom == Spec => []NoDataRace
<1>1. IInv => NoDataRace
  BY DEF IInv, NoDataRace, RolesDistinct, SlotBorrowed, TypeOK, TBTypeOK
<1> QED
  BY <1>1, Invariance, PTL

(* A running callback only finds ports that are registered at the server    *)
(* (process.rs:84-102 against process.rs:461-470).                          *)
THEOREM CyclesSeeRegistered == Spec => []CycleSeesRegistered
<1>1. IInv => CycleSeesRegistered
  <2> SUFFICES ASSUME IInv, inCycle, NEW p \in buf[front] PROVE p \in registered
    BY DEF CycleSeesRegistered
  <2>1. p \in Ports /\ Open
    BY DEF IInv, TypeOK, TBTypeOK, PhaseExact, Open
  <2>2. Refs(p) > 0
    BY <2>1 DEF IInv, TypeOK, TBTypeOK, Refs, Count
  <2> QED
    BY <2>1, <2>2 DEF IInv, RcExact, ServerExact
<1> QED
  BY <1>1, Invariance, PTL

(* Between calls the next callback will find exactly the client's ports:    *)
(* no publication is lost and none is cleared before it was picked up.      *)
THEOREM NextCycleIsCurrent == Spec => []NextCycleSeesPorts
<1>1. IInv => NextCycleSeesPorts
  BY DEF IInv, NextCycleSeesPorts, TableCurrent
<1> QED
  BY <1>1, Invariance, PTL

(* When no collection is pending the server holds the client's ports and    *)
(* nothing else (client.rs:417-443).                                        *)
THEOREM CollectionComplete == Spec => []NoGarbageWithoutCollector
<1>1. IInv => NoGarbageWithoutCollector
  <2> SUFFICES ASSUME IInv, Open, pc = "idle", ~pendingPortGc
               PROVE  registered = ports
    BY DEF NoGarbageWithoutCollector
  <2>1. buf[0] \subseteq ports /\ buf[1] \subseteq ports /\ buf[2] \subseteq ports
    BY DEF IInv, AllCollected
  <2>2. \A p \in Ports : rc[p] > 0 <=> p \in ports
    BY <2>1 DEF IInv, RcExact, Refs, Count
  <2> QED
    BY <2>2 DEF IInv, TypeOK, ServerExact
<1> QED
  BY <1>1, Invariance, PTL

(* A collector is alive exactly while pending_port_gc is set.               *)
THEOREM CollectorIsSingle == Spec => []SingleCollector
<1>1. IInv => SingleCollector
  BY DEF IInv, SingleCollector, CollectorFlag, PhaseExact, Open
<1> QED
  BY <1>1, Invariance, PTL

(* After teardown no port object is left.                                   *)
THEOREM NoLeak == Spec => []NoLeakAfterDrop
<1>1. IInv => NoLeakAfterDrop
  BY DEF IInv, NoLeakAfterDrop, PhaseExact, RcExact, Refs, Count
<1> QED
  BY <1>1, Invariance, PTL

-----------------------------------------------------------------------------
LEMMA AssignElsewhere ==
  ASSUME TypeOK, NEW s \in Slot, NEW m, Assign(s, m), front # s, front' = front
  PROVE  buf'[front'] = buf[front]
BY DEF TypeOK, TBTypeOK, Assign

(* The map a callback works on stays the same until the callback returns.   *)
THEOREM ViewIsStable == Spec => ViewStable
<1>1. IInv /\ [Next]_vars => [inCycle /\ inCycle' => buf'[front'] = buf[front]]_vars
  <2> SUFFICES ASSUME IInv, Next, inCycle, inCycle'
               PROVE  buf'[front'] = buf[front]
    OBVIOUS
  <2>1. phase = "active" /\ pc \notin {"dropPorts", "dropBuffers", "gone"}
    BY DEF IInv, PhaseExact
  <2>2. \A s \in Slot : slot = s => front # s
    BY DEF IInv, TypeOK, TBTypeOK, RolesDistinct, SlotBorrowed
  <2>3. pc \in {"regWrite", "unregWrite", "gcBack", "gcPending"} => slot \in Slot
    BY DEF IInv, TypeOK, TBTypeOK, SlotBorrowed
  <2>4. CASE RegisterWrite \/ UnregisterWrite
    BY <2>2, <2>3, <2>4, AssignElsewhere
       DEF IInv, RegisterWrite, UnregisterWrite, tbVars
  <2>5. CASE GcClearBack \/ GcClearPending
    BY <2>2, <2>3, <2>5, AssignElsewhere
       DEF IInv, GcClearBack, GcClearPending, tbVars
  <2>6. CASE RegisterSwap \/ UnregisterSwap
    BY <2>6 DEF RegisterSwap, UnregisterSwap, Swap, mapVars
  <2>7. CASE ~(RegisterWrite \/ UnregisterWrite \/ GcClearBack \/ GcClearPending
                \/ RegisterSwap \/ UnregisterSwap)
    BY <2>1, <2>7
       DEF Next, RegisterCall, RegisterPort, RegisterLock, UnregisterCall,
           GcTick, GcOrphan, BeginCycle, EndCycle, BreakCycle, Activate,
           Deactivate, CloseClient, DropPorts, DropBuffers, Terminated, tbVars, mapVars, vars
  <2> QED
    BY <2>4, <2>5, <2>6, <2>7
<1> QED
  BY <1>1, Invariance, PTL DEF ViewStable, Spec

-----------------------------------------------------------------------------
(* PortSync implements PortView, for every set of ports: each step of the  *)
(* calls, the collector and the process thread is a step of the abstract   *)
(* port tables or leaves them alone.                                       *)

(* Whatever a map refers to is registered, while the client is open. *)
Reachable ==
  ports \subseteq registered /\ \A s \in Slot : buf[s] \subseteq registered

LEMMA MapsRegistered == IInv /\ Open => Reachable
<1> SUFFICES ASSUME IInv, Open PROVE Reachable
  OBVIOUS
<1>1. \A p \in Ports : rc[p] = 0 \/ p \in registered
  BY DEF IInv, TypeOK, ServerExact
<1>2. \A p \in Ports : p \in ports \/ (\E s \in Slot : p \in buf[s]) => rc[p] # 0
  <2> TAKE p \in Ports
  <2>1. rc[p] = Refs(p)
    BY DEF IInv, RcExact
  <2>2. CASE p \in ports \/ p \in buf[0] \/ p \in buf[1] \/ p \in buf[2]
    BY <2>1, <2>2 DEF Refs, Count
  <2> QED
    BY <2>2
<1> QED
  BY <1>1, <1>2 DEF Reachable, IInv, TypeOK

LEMMA MapsRegisteredNext == IInv' /\ Open' => Reachable'
BY MapsRegistered, PTL

(* Nothing is staged outside of register_ports. *)
LEMMA NothingStaged ==
  ASSUME IInv, Open, pc \notin {"register", "regWrite", "regSwap"}
  PROVE  ports \subseteq buf[Latest]
BY DEF IInv, TypeOK, PCs, PhaseExact, Open, TableCurrent

(* A step that touches none of the mapped state. *)
LEMMA InvisibleStep ==
  ASSUME Open' = Open, UNCHANGED <<registered, ports, buf, front, inCycle>>,
         Latest' = Latest
  PROVE  UNCHANGED PV!vars
BY DEF PV!vars

(* Reassigning a slot nobody looks at may only give ports back. *)
LEMMA AssignReclaims ==
  ASSUME IInv, IInv', Open, Open', NEW m, Assign(slot, m),
         slot \in Slot, slot # Latest, slot # front,
         UNCHANGED <<front, inCycle>>, Latest' = Latest
  PROVE  \E R \in SUBSET Ports : PV!Reclaim(R)
<1>1. buf' = [buf EXCEPT ![slot] = m] /\ ports' = ports
  BY DEF Assign
<1>2. buf'[Latest'] = buf[Latest] /\ buf'[front'] = buf[front]
  BY <1>1 DEF IInv, TypeOK, TBTypeOK, Latest
<1>3. registered' \subseteq registered
  BY DEF Assign, Recount
<1>4. /\ ports' \ buf'[Latest'] \subseteq registered'
      /\ buf'[Latest'] \subseteq registered'
      /\ buf'[front'] \subseteq registered'
  <2>1. Latest' \in Slot /\ front' \in Slot
    BY DEF IInv, TypeOK, TBTypeOK, Latest
  <2> QED
    BY <2>1, MapsRegisteredNext DEF Reachable
<1> DEFINE R == registered \ registered'
<1>5. R \in SUBSET Ports
  BY DEF IInv, TypeOK
<1>6. registered' = registered \ R
  BY <1>3
<1>7. R \subseteq registered \ ((ports \ buf[Latest]) \cup buf[Latest] \cup buf[front])
  BY <1>1, <1>2, <1>4
<1>8. PV!Reclaim(R)
  BY <1>1, <1>2, <1>6, <1>7 DEF PV!Reclaim
<1> QED
  BY <1>5, <1>8

-----------------------------------------------------------------------------
(* The steps, one lemma each for those that show. *)

LEMMA InitMaps == Init => PV!Init
BY DEF Init, TBInit, Open, Latest, PV!Init

LEMMA RegisterPortMaps ==
  ASSUME IInv, NEW p \in Ports, RegisterPort(p)
  PROVE  PV!Add(p)
<1> USE DEF RegisterPort
<1>1. Open /\ Open'
  BY DEF IInv, PhaseExact, Open, clientVars
<1>2. p \notin buf[Latest]
  BY <1>1, MapsRegistered DEF Reachable, IInv, TypeOK, TBTypeOK, Latest
<1>3. UNCHANGED <<buf, front, inCycle>> /\ Latest' = Latest
  BY DEF tbVars, Latest
<1>4. ports' \ buf'[Latest'] = (ports \ buf[Latest]) \cup {p}
  BY <1>2, <1>3
<1> QED
  BY <1>1, <1>3, <1>4 DEF PV!Add

LEMMA RegisterSwapMaps ==
  ASSUME IInv, RegisterSwap
  PROVE  PV!Publish
<1> USE DEF RegisterSwap
<1>1. Open /\ Open'
  BY DEF IInv, PhaseExact, Open, clientVars
<1>2. Latest' = back /\ UNCHANGED <<registered, ports, buf, front, inCycle>>
  BY DEF Swap, Latest, mapVars
<1>3. buf[back] = ports /\ buf[Latest] \subseteq ports
  BY DEF IInv, TableCurrent
<1>4. buf'[Latest'] = buf[Latest] \cup (ports \ buf[Latest])
  BY <1>2, <1>3
<1>5. ports' \ buf'[Latest'] = {}
  BY <1>2, <1>3
<1> QED
  BY <1>1, <1>2, <1>4, <1>5 DEF PV!Publish

LEMMA UnregisterSwapMaps ==
  ASSUME IInv, UnregisterSwap
  PROVE  \E S \in SUBSET Ports : PV!Remove(S)
<1> USE DEF UnregisterSwap
<1>1. Open /\ Open'
  BY DEF IInv, PhaseExact, Open, clientVars
<1>2. Latest' = back /\ UNCHANGED <<registered, ports, buf, front, inCycle>>
  BY DEF Swap, Latest, mapVars
<1>3. buf[back] = ports /\ ports \subseteq buf[Latest]
  BY DEF IInv, TableCurrent
<1>4. buf'[Latest'] = buf[Latest] \ (Ports \ ports)
  BY <1>2, <1>3 DEF IInv, TypeOK, TBTypeOK, Latest
<1>5. ports \ buf[Latest] = {} /\ ports' \ buf'[Latest'] = {}
  BY <1>2, <1>3
<1>6. PV!Remove(Ports \ ports)
  BY <1>1, <1>2, <1>4, <1>5 DEF PV!Remove
<1> QED
  BY <1>6

LEMMA UnregisterCallMaps ==
  ASSUME IInv, IInv', NEW S \in SUBSET Ports, UnregisterCall(S)
  PROVE  UNCHANGED PV!vars
<1> USE DEF UnregisterCall
<1>1. Open /\ Open'
  BY DEF Open, clientVars
<1>2. UNCHANGED <<buf, front, inCycle>> /\ Latest' = Latest
  BY DEF tbVars, Latest
<1>3. buf[Latest] = ports
  BY DEF IInv, TableCurrent
<1>4. registered' = registered
  <2>1. registered' \subseteq registered
    BY DEF Recount
  <2>2. ports \subseteq registered'
    BY <1>1, <1>2, <1>3, MapsRegisteredNext
       DEF Reachable, IInv, TypeOK, TBTypeOK, Latest
  <2>3. \A p \in Ports : p \notin ports => rc'[p] = rc[p]
    BY DEF Recount, RcAfter, Count, IInv, TypeOK
  <2>4. \A p \in registered : p \notin ports => p \in registered'
    BY <1>1, <2>3 DEF IInv, ServerExact, TypeOK
  <2> QED
    BY <2>1, <2>2, <2>4
<1>5. ports \ buf[Latest] = {} /\ ports' \ buf'[Latest'] = {}
  BY <1>2, <1>3
<1> QED
  BY <1>1, <1>2, <1>4, <1>5 DEF PV!vars

LEMMA AssignMaps ==
  ASSUME IInv, IInv',
         RegisterWrite \/ UnregisterWrite \/ GcClearBack \/ GcClearPending
  PROVE  \E R \in SUBSET Ports : PV!Reclaim(R)
<1>1. Open /\ Open'
  BY DEF IInv, PhaseExact, Open, RegisterWrite, UnregisterWrite, GcClearBack,
         GcClearPending, clientVars
<1>2. UNCHANGED <<front, inCycle>> /\ Latest' = Latest
  BY DEF RegisterWrite, UnregisterWrite, GcClearBack, GcClearPending, tbVars, Latest
<1>3. slot \in Slot /\ slot # Latest /\ slot # front
  BY DEF IInv, TypeOK, TBTypeOK, RolesDistinct, SlotBorrowed, Latest,
         RegisterWrite, UnregisterWrite, GcClearBack, GcClearPending
<1>4. PICK m : Assign(slot, m)
  BY DEF RegisterWrite, UnregisterWrite, GcClearBack, GcClearPending
<1> QED
  BY <1>1, <1>2, <1>3, <1>4, AssignReclaims

LEMMA BeginCycleMaps ==
  ASSUME IInv, BeginCycle
  PROVE  PV!BeginCycle
<1> USE DEF BeginCycle
<1>1. Open /\ Open' /\ UNCHANGED <<registered, ports, buf>>
  BY DEF IInv, PhaseExact, Open, clientVars, mapVars
<1>2. front' = Latest /\ Latest' = Latest
  BY DEF FrontBuffer, Latest
<1> QED
  BY <1>1, <1>2 DEF PV!BeginCycle

LEMMA EndCycleMaps ==
  ASSUME IInv, EndCycle \/ BreakCycle
  PROVE  PV!EndCycle
BY DEF EndCycle, BreakCycle, Open, Latest, clientVars, tbVars, mapVars, PV!EndCycle

LEMMA CloseClientMaps ==
  ASSUME IInv, CloseClient
  PROVE  PV!Close
BY DEF CloseClient, Open, PV!Close

(* After the close nothing of the tables is left to see. *)
LEMMA ClosedStep ==
  ASSUME ~Open, ~Open', UNCHANGED <<registered, inCycle>>
  PROVE  UNCHANGED PV!vars
<1>1. Open' = Open
  BY DEF Open
<1>2. /\ (IF Open' THEN buf'[Latest'] ELSE {}) = {}
      /\ (IF Open' THEN ports' \ buf'[Latest'] ELSE {}) = {}
      /\ (IF Open' THEN buf'[front'] ELSE {}) = {}
  OBVIOUS
<1>3. /\ (IF Open THEN buf[Latest] ELSE {}) = {}
      /\ (IF Open THEN ports \ buf[Latest] ELSE {}) = {}
      /\ (IF Open THEN buf[front] ELSE {}) = {}
  OBVIOUS
<1> QED
  BY <1>1, <1>2, <1>3 DEF PV!vars

LEMMA StepMaps == IInv /\ IInv' /\ [Next]_vars => [PV!Next]_(PV!vars)
<1> SUFFICES ASSUME IInv, IInv', [Next]_vars PROVE PV!Next \/ UNCHANGED PV!vars
  OBVIOUS
<1>1. CASE \E p \in Ports : RegisterPort(p)
  BY <1>1, RegisterPortMaps DEF PV!Next
<1>2. CASE RegisterSwap
  BY <1>2, RegisterSwapMaps DEF PV!Next
<1>3. CASE UnregisterSwap
  BY <1>3, UnregisterSwapMaps DEF PV!Next
<1>4. CASE \E S \in SUBSET Ports \ {{}} : UnregisterCall(S)
  BY <1>4, UnregisterCallMaps
<1>5. CASE RegisterWrite \/ UnregisterWrite \/ GcClearBack \/ GcClearPending
  BY <1>5, AssignMaps DEF PV!Next
<1>6. CASE BeginCycle
  BY <1>6, BeginCycleMaps DEF PV!Next
<1>7. CASE EndCycle \/ BreakCycle
  BY <1>7, EndCycleMaps DEF PV!Next
<1>8. CASE CloseClient
  BY <1>8, CloseClientMaps DEF PV!Next
<1>9. CASE RegisterCall \/ RegisterLock \/ GcTick \/ (\E h \in BOOLEAN : Activate(h))
             \/ Deactivate \/ Terminated \/ UNCHANGED vars
  <2>1. Open' = Open
    BY <1>9 DEF RegisterCall, RegisterLock, GcTick, Activate, Deactivate,
                Terminated, Open, clientVars, vars
  <2>2. UNCHANGED <<registered, ports, buf, front, inCycle>> /\ Latest' = Latest
    BY <1>9 DEF RegisterCall, RegisterLock, GcTick, Activate, Deactivate,
                Terminated, Latest, tbVars, mapVars, vars
  <2> QED
    BY <2>1, <2>2, InvisibleStep
<1>10. CASE GcOrphan \/ DropPorts \/ DropBuffers
  <2>1. ~Open /\ ~Open'
    BY <1>10 DEF IInv, PhaseExact, Open, GcOrphan, DropPorts, DropBuffers, clientVars
  <2>2. UNCHANGED <<registered, inCycle>>
    BY <1>10, <2>1 DEF IInv, ServerExact, GcOrphan, DropPorts, DropBuffers, mapVars
  <2> QED
    BY <2>1, <2>2, ClosedStep
<1> QED
  BY <1>1, <1>2, <1>3, <1>4, <1>5, <1>6, <1>7, <1>8, <1>9, <1>10 DEF Next

(* The port hand-off implements the promise of lib.rs:49-60, for any number *)
(* of ports.                                                                *)
THEOREM Refinement == Spec => ImplementsPortView
<1>1. Init => PV!Init
  BY InitMaps
<1>2. IInv /\ IInv' /\ [Next]_vars => [PV!Next]_(PV!vars)
  BY StepMaps
<1> QED
  BY <1>1, <1>2, Invariance, PTL DEF Spec, ImplementsPortView, PV!Spec

=============================================================================
