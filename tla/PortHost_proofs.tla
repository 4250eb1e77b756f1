--------------------------- MODULE PortHost_proofs ---------------------------
(***************************************************************************)
(* TLAPS proofs about PortHost, for every set of ports and any faults.     *)
(* The invariant of PortSync does not survive the faults; what does is     *)
(* stated here, with the lemmas about counts and assignments of            *)
(* PortSync_proofs.                                                        *)
(***************************************************************************)
EXTENDS PortHost, PortSync_proofs

USE DEF Slot, NoSlot

-----------------------------------------------------------------------------
(* What is left of PortSync's invariant.  `Counts' is as there.             *)
Borrowing ==
  /\ RolesDistinct /\ SlotBorrowed /\ PhaseExact
  /\ pc \in {"regSwap", "unregSwap"} => buf[back] = ports
  /\ pc \in {"gcBack", "gcPending"} => collectors > 0
  /\ collectors <= Count(pendingPortGc)

(* A period belongs to an active client, and unless a callback moved to a   *)
(* newer map, its callbacks have seen what is in the front slot.            *)
PeriodExact ==
  /\ period \in BOOLEAN /\ ran \in {0, 1, 2, 3}
  /\ seen \subseteq Ports /\ moved \in BOOLEAN /\ outer \in 0..MaxNested
  /\ period => phase = "active"
  /\ inCycle => period /\ ran > 0
  /\ period /\ ran = 0 => seen = {} /\ ~moved
  /\ period /\ ran > 0 /\ ~moved => seen = buf[front]

HostInd == Counts /\ Borrowing /\ PeriodExact

LEMMA CallbackDomain == DOMAIN Callbacks = {1, 2, 3} /\ {0} \cup DOMAIN Callbacks = {0, 1, 2, 3}
BY DEF Callbacks

LEMMA InitHostInd == HostInit => HostInd
<1> SUFFICES ASSUME HostInit PROVE HostInd
  OBVIOUS
<1>1. IInv
  BY InitIInv DEF HostInit
<1>2. Counts /\ RolesDistinct /\ SlotBorrowed /\ PhaseExact /\ pc = "idle" /\ ~inCycle
  BY <1>1, IInvParts DEF Protocol, HostInit, Init
<1>3. PeriodExact
  <2>1. period \in BOOLEAN /\ moved \in BOOLEAN
    BY DEF HostInit
  <2> QED
    BY <1>2, <2>1, NestedAssumption DEF HostInit, PeriodExact
<1> QED
  BY <1>2, <1>3 DEF HostInd, Borrowing, HostInit, Init, Count

-----------------------------------------------------------------------------
(* Ports taken out of the client's map, nothing else. *)
LEMMA RemoveExact ==
  ASSUME Counts, NEW R \in SUBSET ports, ports' = ports \ R, Recount({}, R),
         UNCHANGED <<buf, phase>>
  PROVE  /\ rc' \in [Ports -> Nat] /\ registered' \subseteq Ports
         /\ RcExact' /\ ServerExact'
<1>1. /\ rc' = [p \in Ports |-> rc[p] + Count(p \in {}) - Count(p \in R)]
      /\ registered' = registered \ {p \in Ports : rc[p] > 0 /\ rc'[p] = 0}
  BY DEF Recount, RcAfter, LastDrop
<1>2. \A p \in Ports : rc'[p] = Refs(p)'
  <2> TAKE p \in Ports
  <2>1. rc'[p] = Refs(p) - Count(p \in R)
    BY <1>1 DEF Counts, TypeOK, RcExact, Count, Refs
  <2> QED
    BY <2>1 DEF Refs, Count
<1>3. \A p \in Ports : Refs(p)' \in Nat
  BY DEF Refs, Count
<1>4. rc' \in [Ports -> Nat]
  BY <1>1, <1>2, <1>3
<1>5. ServerExact'
  <2>1. \A p \in Ports : rc'[p] > 0 => rc[p] > 0
    BY <1>1 DEF Counts, TypeOK, Count
  <2> QED
    BY <1>1, <1>4, <2>1 DEF Counts, TypeOK, ServerExact, Open
<1> QED
  BY <1>1, <1>2, <1>4, <1>5 DEF RcExact, Counts, TypeOK

LEMMA RegisterCallHost == Counts /\ Borrowing /\ RegisterCall => Counts' /\ Borrowing'
<1> SUFFICES ASSUME Counts, Borrowing, RegisterCall PROVE Counts' /\ Borrowing'
  OBVIOUS
<1>1. Counts'
  BY CountsUnchanged
     DEF RegisterCall, Counts, TypeOK, TBTypeOK, PCs, Phases, Open, tbVars, clientVars, gcVars
<1>2. Borrowing'
  BY DEF RegisterCall, Counts, TypeOK, TBTypeOK, Open, Borrowing, RolesDistinct, SlotBorrowed,
         PhaseExact, tbVars, clientVars, gcVars, mapVars
<1> QED
  BY <1>1, <1>2

LEMMA RegisterLockHost == Counts /\ Borrowing /\ RegisterLock => Counts' /\ Borrowing'
<1> SUFFICES ASSUME Counts, Borrowing, RegisterLock PROVE Counts' /\ Borrowing'
  OBVIOUS
<1>1. Counts'
  BY CountsUnchanged
     DEF RegisterLock, Counts, TypeOK, TBTypeOK, PCs, Phases, Open, tbVars, clientVars, gcVars
<1>2. Borrowing'
  BY DEF RegisterLock, Counts, TypeOK, TBTypeOK, Open, Borrowing, RolesDistinct, SlotBorrowed,
         PhaseExact, tbVars, clientVars, gcVars, mapVars
<1> QED
  BY <1>1, <1>2

LEMMA RegisterSwapHost == Counts /\ Borrowing /\ RegisterSwap => Counts' /\ Borrowing'
<1> SUFFICES ASSUME Counts, Borrowing, RegisterSwap PROVE Counts' /\ Borrowing'
  OBVIOUS
<1>1. Counts'
  BY CountsUnchanged
     DEF RegisterSwap, Counts, TypeOK, TBTypeOK, PCs, Phases, Open, tbVars, clientVars, gcVars, Swap
<1>2. Borrowing'
  BY DEF RegisterSwap, Counts, TypeOK, TBTypeOK, Open, Borrowing, RolesDistinct, SlotBorrowed,
         PhaseExact, tbVars, clientVars, gcVars, mapVars, Swap
<1> QED
  BY <1>1, <1>2

LEMMA UnregisterSwapHost == Counts /\ Borrowing /\ UnregisterSwap => Counts' /\ Borrowing'
<1> SUFFICES ASSUME Counts, Borrowing, UnregisterSwap PROVE Counts' /\ Borrowing'
  OBVIOUS
<1>1. Counts'
  BY CountsUnchanged
     DEF UnregisterSwap, Counts, TypeOK, TBTypeOK, PCs, Phases, Open, tbVars, clientVars, gcVars, Swap
<1>2. Borrowing'
  BY DEF UnregisterSwap, Counts, TypeOK, TBTypeOK, Open, Borrowing, Count, RolesDistinct, SlotBorrowed,
         PhaseExact, tbVars, clientVars, gcVars, mapVars, Swap
<1> QED
  BY <1>1, <1>2

LEMMA GcTickHost == Counts /\ Borrowing /\ GcTick => Counts' /\ Borrowing'
<1> SUFFICES ASSUME Counts, Borrowing, GcTick PROVE Counts' /\ Borrowing'
  OBVIOUS
<1>1. Counts'
  BY CountsUnchanged
     DEF GcTick, Counts, TypeOK, TBTypeOK, PCs, Phases, Open, tbVars, clientVars, gcVars
<1>2. Borrowing'
  BY DEF GcTick, Counts, TypeOK, TBTypeOK, Open, Borrowing, RolesDistinct, SlotBorrowed,
         PhaseExact, tbVars, clientVars, gcVars, mapVars
<1> QED
  BY <1>1, <1>2

LEMMA GcOrphanHost == Counts /\ Borrowing /\ GcOrphan => Counts' /\ Borrowing'
<1> SUFFICES ASSUME Counts, Borrowing, GcOrphan PROVE Counts' /\ Borrowing'
  OBVIOUS
<1>1. Counts'
  BY CountsUnchanged
     DEF GcOrphan, Counts, TypeOK, TBTypeOK, PCs, Phases, Open, tbVars, clientVars, gcVars
<1>2. Borrowing'
  BY DEF GcOrphan, Counts, TypeOK, TBTypeOK, Open, Borrowing, Count, RolesDistinct, SlotBorrowed,
         PhaseExact, tbVars, clientVars, gcVars, mapVars
<1> QED
  BY <1>1, <1>2

LEMMA BeginCycleHost == Counts /\ Borrowing /\ BeginCycle => Counts' /\ Borrowing'
<1> SUFFICES ASSUME Counts, Borrowing, BeginCycle PROVE Counts' /\ Borrowing'
  OBVIOUS
<1>1. Counts'
  BY CountsUnchanged
     DEF BeginCycle, Counts, TypeOK, TBTypeOK, PCs, Phases, Open, tbVars, clientVars, gcVars, FrontBuffer, Latest
<1>2. Borrowing'
  BY DEF BeginCycle, Counts, TypeOK, TBTypeOK, Open, Borrowing, RolesDistinct, SlotBorrowed,
         PhaseExact, tbVars, clientVars, gcVars, mapVars, FrontBuffer, Latest
<1> QED
  BY <1>1, <1>2

LEMMA EndCycleHost == Counts /\ Borrowing /\ EndCycle => Counts' /\ Borrowing'
<1> SUFFICES ASSUME Counts, Borrowing, EndCycle PROVE Counts' /\ Borrowing'
  OBVIOUS
<1>1. Counts'
  BY CountsUnchanged
     DEF EndCycle, Counts, TypeOK, TBTypeOK, PCs, Phases, Open, tbVars, clientVars, gcVars
<1>2. Borrowing'
  BY DEF EndCycle, Counts, TypeOK, TBTypeOK, Open, Borrowing, RolesDistinct, SlotBorrowed,
         PhaseExact, tbVars, clientVars, gcVars, mapVars
<1> QED
  BY <1>1, <1>2

LEMMA BreakCycleHost == Counts /\ Borrowing /\ BreakCycle => Counts' /\ Borrowing'
<1> SUFFICES ASSUME Counts, Borrowing, BreakCycle PROVE Counts' /\ Borrowing'
  OBVIOUS
<1>1. Counts'
  BY CountsUnchanged
     DEF BreakCycle, Counts, TypeOK, TBTypeOK, PCs, Phases, Open, tbVars, clientVars, gcVars
<1>2. Borrowing'
  BY DEF BreakCycle, Counts, TypeOK, TBTypeOK, Open, Borrowing, RolesDistinct, SlotBorrowed,
         PhaseExact, tbVars, clientVars, gcVars, mapVars
<1> QED
  BY <1>1, <1>2

LEMMA ActivateHost == Counts /\ Borrowing /\ (\E h \in BOOLEAN : Activate(h)) => Counts' /\ Borrowing'
<1> SUFFICES ASSUME Counts, Borrowing, (\E h \in BOOLEAN : Activate(h)) PROVE Counts' /\ Borrowing'
  OBVIOUS
<1>1. Counts'
  BY CountsUnchanged
     DEF Activate, Counts, TypeOK, TBTypeOK, PCs, Phases, Open, tbVars, clientVars, gcVars
<1>2. Borrowing'
  BY DEF Activate, Counts, TypeOK, TBTypeOK, Open, Borrowing, RolesDistinct, SlotBorrowed,
         PhaseExact, tbVars, clientVars, gcVars, mapVars
<1> QED
  BY <1>1, <1>2

LEMMA DeactivateHost == Counts /\ Borrowing /\ Deactivate => Counts' /\ Borrowing'
<1> SUFFICES ASSUME Counts, Borrowing, Deactivate PROVE Counts' /\ Borrowing'
  OBVIOUS
<1>1. Counts'
  BY CountsUnchanged
     DEF Deactivate, Counts, TypeOK, TBTypeOK, PCs, Phases, Open, tbVars, clientVars, gcVars
<1>2. Borrowing'
  BY DEF Deactivate, Counts, TypeOK, TBTypeOK, Open, Borrowing, RolesDistinct, SlotBorrowed,
         PhaseExact, tbVars, clientVars, gcVars, mapVars
<1> QED
  BY <1>1, <1>2

LEMMA IteratorCallsHost == Counts /\ Borrowing /\ IteratorCalls => Counts' /\ Borrowing'
<1> SUFFICES ASSUME Counts, Borrowing, IteratorCalls PROVE Counts' /\ Borrowing'
  OBVIOUS
<1>1. Counts'
  BY CountsUnchanged
     DEF IteratorCalls, Counts, TypeOK, TBTypeOK, PCs, Phases, Open, tbVars, clientVars, gcVars
<1>2. Borrowing'
  BY DEF IteratorCalls, Counts, TypeOK, TBTypeOK, Open, Borrowing, RolesDistinct, SlotBorrowed,
         PhaseExact, tbVars, clientVars, gcVars, mapVars
<1> QED
  BY <1>1, <1>2

LEMMA IteratorGoesOnHost == Counts /\ Borrowing /\ IteratorGoesOn => Counts' /\ Borrowing'
<1> SUFFICES ASSUME Counts, Borrowing, IteratorGoesOn PROVE Counts' /\ Borrowing'
  OBVIOUS
<1>1. Counts'
  BY CountsUnchanged
     DEF IteratorGoesOn, Counts, TypeOK, TBTypeOK, PCs, Phases, Open, tbVars, clientVars, gcVars
<1>2. Borrowing'
  BY DEF IteratorGoesOn, Counts, TypeOK, TBTypeOK, Open, Borrowing, RolesDistinct, SlotBorrowed,
         PhaseExact, tbVars, clientVars, gcVars, mapVars
<1> QED
  BY <1>1, <1>2

LEMMA RegisterPanicsHost == Counts /\ Borrowing /\ RegisterPanics => Counts' /\ Borrowing'
<1> SUFFICES ASSUME Counts, Borrowing, RegisterPanics PROVE Counts' /\ Borrowing'
  OBVIOUS
<1>1. Counts'
  BY CountsUnchanged
     DEF RegisterPanics, Counts, TypeOK, TBTypeOK, PCs, Phases, Open, tbVars, clientVars, gcVars
<1>2. Borrowing'
  BY DEF RegisterPanics, Counts, TypeOK, TBTypeOK, Open, Borrowing, RolesDistinct, SlotBorrowed,
         PhaseExact, tbVars, clientVars, gcVars, mapVars
<1> QED
  BY <1>1, <1>2

LEMMA SpawnFailsHost == Counts /\ Borrowing /\ SpawnFails => Counts' /\ Borrowing'
<1> SUFFICES ASSUME Counts, Borrowing, SpawnFails PROVE Counts' /\ Borrowing'
  OBVIOUS
<1>1. Counts'
  BY CountsUnchanged
     DEF SpawnFails, Counts, TypeOK, TBTypeOK, PCs, Phases, Open, tbVars, clientVars, gcVars, Swap
<1>2. Borrowing'
  BY DEF SpawnFails, Counts, TypeOK, TBTypeOK, Open, Borrowing, Count, RolesDistinct, SlotBorrowed,
         PhaseExact, tbVars, clientVars, gcVars, mapVars, Swap
<1> QED
  BY <1>1, <1>2

LEMMA CollectorLostHost == Counts /\ Borrowing /\ CollectorLost => Counts' /\ Borrowing'
<1> SUFFICES ASSUME Counts, Borrowing, CollectorLost PROVE Counts' /\ Borrowing'
  OBVIOUS
<1>1. Counts'
  BY CountsUnchanged
     DEF CollectorLost, Counts, TypeOK, TBTypeOK, PCs, Phases, Open, tbVars, clientVars, gcVars
<1>2. Borrowing'
  BY DEF CollectorLost, Counts, TypeOK, TBTypeOK, Open, Borrowing, Count, RolesDistinct, SlotBorrowed,
         PhaseExact, tbVars, clientVars, gcVars, mapVars
<1> QED
  BY <1>1, <1>2

LEMMA RegisterWriteHost == Counts /\ Borrowing /\ RegisterWrite => Counts' /\ Borrowing'
<1> SUFFICES ASSUME Counts, Borrowing, RegisterWrite PROVE Counts' /\ Borrowing'
  OBVIOUS
<1>1. slot \in Slot
  BY DEF RegisterWrite, Counts, Borrowing, SlotBorrowed, TypeOK, TBTypeOK
<1>2. /\ buf' \in [Slot -> SUBSET Ports] /\ ports' = ports
      /\ rc' \in [Ports -> Nat] /\ registered' \subseteq Ports
      /\ RcExact' /\ ServerExact'
  BY <1>1, AssignExact DEF RegisterWrite, Counts, clientVars
<1>3. TypeOK'
  BY <1>1, <1>2 DEF RegisterWrite, Counts, TypeOK, TBTypeOK, PCs, tbVars, clientVars, gcVars
<1>4. buf' = [buf EXCEPT ![slot] = ports]
  BY DEF RegisterWrite, Assign
<1>5. Borrowing'
  BY <1>4 DEF RegisterWrite, Assign, Counts, TypeOK, TBTypeOK, Borrowing, RolesDistinct,
              SlotBorrowed, PhaseExact, tbVars, clientVars, gcVars
<1> QED
  BY <1>2, <1>3, <1>5 DEF Counts

LEMMA UnregisterWriteHost == Counts /\ Borrowing /\ UnregisterWrite => Counts' /\ Borrowing'
<1> SUFFICES ASSUME Counts, Borrowing, UnregisterWrite PROVE Counts' /\ Borrowing'
  OBVIOUS
<1>1. slot \in Slot
  BY DEF UnregisterWrite, Counts, Borrowing, SlotBorrowed, TypeOK, TBTypeOK
<1>2. /\ buf' \in [Slot -> SUBSET Ports] /\ ports' = ports
      /\ rc' \in [Ports -> Nat] /\ registered' \subseteq Ports
      /\ RcExact' /\ ServerExact'
  BY <1>1, AssignExact DEF UnregisterWrite, Counts, clientVars
<1>3. TypeOK'
  BY <1>1, <1>2 DEF UnregisterWrite, Counts, TypeOK, TBTypeOK, PCs, tbVars, clientVars, gcVars
<1>4. buf' = [buf EXCEPT ![slot] = ports]
  BY DEF UnregisterWrite, Assign
<1>5. Borrowing'
  BY <1>4 DEF UnregisterWrite, Assign, Counts, TypeOK, TBTypeOK, Borrowing, RolesDistinct,
              SlotBorrowed, PhaseExact, tbVars, clientVars, gcVars
<1> QED
  BY <1>2, <1>3, <1>5 DEF Counts

LEMMA GcClearBackHost == Counts /\ Borrowing /\ GcClearBack => Counts' /\ Borrowing'
<1> SUFFICES ASSUME Counts, Borrowing, GcClearBack PROVE Counts' /\ Borrowing'
  OBVIOUS
<1>1. slot \in Slot
  BY DEF GcClearBack, Counts, Borrowing, SlotBorrowed, TypeOK, TBTypeOK
<1>2. /\ buf' \in [Slot -> SUBSET Ports] /\ ports' = ports
      /\ rc' \in [Ports -> Nat] /\ registered' \subseteq Ports
      /\ RcExact' /\ ServerExact'
  BY <1>1, AssignExact DEF GcClearBack, Counts, clientVars
<1>3. TypeOK'
  BY <1>1, <1>2 DEF GcClearBack, Counts, TypeOK, TBTypeOK, PCs, tbVars, clientVars, gcVars, PendingMut
<1>4. buf' = [buf EXCEPT ![slot] = {}]
  BY DEF GcClearBack, Assign
<1>5. Borrowing'
  BY <1>4 DEF GcClearBack, Assign, Counts, TypeOK, TBTypeOK, Borrowing, RolesDistinct,
              SlotBorrowed, PhaseExact, tbVars, clientVars, gcVars, PendingMut
<1> QED
  BY <1>2, <1>3, <1>5 DEF Counts

LEMMA GcClearPendingHost == Counts /\ Borrowing /\ GcClearPending => Counts' /\ Borrowing'
<1> SUFFICES ASSUME Counts, Borrowing, GcClearPending PROVE Counts' /\ Borrowing'
  OBVIOUS
<1>1. slot \in Slot
  BY DEF GcClearPending, Counts, Borrowing, SlotBorrowed, TypeOK, TBTypeOK
<1>2. /\ buf' \in [Slot -> SUBSET Ports] /\ ports' = ports
      /\ rc' \in [Ports -> Nat] /\ registered' \subseteq Ports
      /\ RcExact' /\ ServerExact'
  BY <1>1, AssignExact DEF GcClearPending, Counts, clientVars
<1>3. TypeOK'
  <2>1. collectors' \in Nat
    BY DEF GcClearPending, Counts, TypeOK, Borrowing
  <2>2. pendingPortGc' \in BOOLEAN
    BY DEF GcClearPending
  <2> QED
    BY <1>2, <2>1, <2>2 DEF GcClearPending, Counts, TypeOK, TBTypeOK, PCs, tbVars, clientVars
<1>4. buf' = [buf EXCEPT ![slot] = {}]
  BY DEF GcClearPending, Assign
<1>5. Borrowing'
  BY <1>4 DEF GcClearPending, Assign, Counts, TypeOK, TBTypeOK, Borrowing, Count, RolesDistinct,
              SlotBorrowed, PhaseExact, tbVars, clientVars, gcVars
<1> QED
  BY <1>2, <1>3, <1>5 DEF Counts

LEMMA RegisterPortHost ==
  ASSUME Counts, Borrowing, NEW p \in Ports, RegisterPort(p) PROVE Counts' /\ Borrowing'
<1> USE DEF RegisterPort
<1>1. Open /\ rc[p] = 0
  BY DEF Counts, Borrowing, PhaseExact, ServerExact, TypeOK, Open
<1>2. Refs(p) = 0
  BY <1>1 DEF Counts, RcExact
<1>3. p \notin ports /\ p \notin buf[0] /\ p \notin buf[1] /\ p \notin buf[2]
  BY <1>2 DEF Refs, Count
<1>4. TypeOK'
  BY DEF Counts, TypeOK, TBTypeOK, tbVars, clientVars, gcVars
<1>5. RcExact'
  <2> SUFFICES ASSUME NEW q \in Ports PROVE (rc[q] = Refs(q))'
    BY DEF RcExact
  <2>1. CASE q = p
    BY <1>3, <2>1 DEF Counts, TypeOK, Refs, Count
  <2>2. CASE q # p
    BY <2>2 DEF Counts, TypeOK, RcExact, Refs, Count
  <2> QED
    BY <2>1, <2>2
<1>6. ServerExact'
  BY <1>1 DEF Counts, TypeOK, ServerExact, Open, clientVars
<1>7. Borrowing'
  BY DEF Counts, TypeOK, TBTypeOK, Borrowing, RolesDistinct, SlotBorrowed, PhaseExact,
         tbVars, clientVars, gcVars
<1> QED
  BY <1>4, <1>5, <1>6, <1>7 DEF Counts

LEMMA UnregisterCallHost ==
  ASSUME Counts, Borrowing, NEW S \in SUBSET Ports, UnregisterCall(S)
  PROVE  Counts' /\ Borrowing'
<1>1. /\ rc' \in [Ports -> Nat] /\ registered' \subseteq Ports
      /\ RcExact' /\ ServerExact'
  BY RemoveExact DEF UnregisterCall, clientVars
<1>2. TypeOK'
  BY <1>1 DEF UnregisterCall, Counts, TypeOK, TBTypeOK, PCs, tbVars, clientVars, gcVars
<1>3. Borrowing'
  BY DEF UnregisterCall, Counts, TypeOK, TBTypeOK, Borrowing, RolesDistinct, SlotBorrowed,
         PhaseExact, Open, tbVars, clientVars, gcVars
<1> QED
  BY <1>1, <1>2, <1>3 DEF Counts

(* The iterator of unregister_ports panics in the middle.                   *)
LEMMA UnregisterPanicsHost ==
  ASSUME Counts, Borrowing, NEW S \in SUBSET Ports, UnregisterPanics(S)
  PROVE  Counts' /\ Borrowing'
<1>1. /\ rc' \in [Ports -> Nat] /\ registered' \subseteq Ports
      /\ RcExact' /\ ServerExact'
  BY RemoveExact DEF UnregisterPanics, clientVars
<1>2. TypeOK'
  BY <1>1 DEF UnregisterPanics, Counts, TypeOK, TBTypeOK, tbVars, clientVars, gcVars
<1>3. Borrowing'
  BY DEF UnregisterPanics, Counts, TypeOK, TBTypeOK, Borrowing, RolesDistinct, SlotBorrowed,
         PhaseExact, Open, tbVars, clientVars, gcVars
<1> QED
  BY <1>1, <1>2, <1>3 DEF Counts

LEMMA CloseClientHost == Counts /\ Borrowing /\ CloseClient => Counts' /\ Borrowing'
<1> SUFFICES ASSUME Counts, Borrowing, CloseClient PROVE Counts' /\ Borrowing'
  OBVIOUS
<1> USE DEF CloseClient
<1>1. TypeOK'
  BY DEF Counts, TypeOK, TBTypeOK, Phases, PCs, tbVars, gcVars
<1>2. RcExact' /\ ServerExact'
  BY DEF Counts, RcExact, ServerExact, Refs, Open
<1>3. Borrowing'
  BY DEF Counts, TypeOK, TBTypeOK, Borrowing, RolesDistinct, SlotBorrowed, PhaseExact,
         tbVars, gcVars
<1> QED
  BY <1>1, <1>2, <1>3 DEF Counts

LEMMA DropPortsHost == Counts /\ Borrowing /\ DropPorts => Counts' /\ Borrowing'
<1> SUFFICES ASSUME Counts, Borrowing, DropPorts PROVE Counts' /\ Borrowing'
  OBVIOUS
<1>1. /\ rc' \in [Ports -> Nat] /\ registered' \subseteq Ports
      /\ RcExact' /\ ServerExact'
  BY RemoveExact DEF DropPorts, clientVars
<1>2. TypeOK'
  BY <1>1 DEF DropPorts, Counts, TypeOK, TBTypeOK, PCs, tbVars, clientVars, gcVars
<1>3. Borrowing'
  BY DEF DropPorts, Counts, TypeOK, TBTypeOK, Borrowing, RolesDistinct, SlotBorrowed,
         PhaseExact, tbVars, clientVars, gcVars
<1> QED
  BY <1>1, <1>2, <1>3 DEF Counts

LEMMA DropBuffersHost == Counts /\ Borrowing /\ DropBuffers => Counts' /\ Borrowing'
<1> SUFFICES ASSUME Counts, Borrowing, DropBuffers PROVE Counts' /\ Borrowing'
  OBVIOUS
<1> USE DEF DropBuffers
<1>1. ports = {} /\ registered = {} /\ ~Open
  BY DEF Counts, Borrowing, PhaseExact, ServerExact, Open
<1>2. \A p \in Ports : rc'[p] = 0
  BY <1>1 DEF Counts, TypeOK, RcExact, Refs, Count
<1>3. TypeOK'
  <2>1. rc' \in [Ports -> Nat]
    BY <1>2
  <2>2. buf' \in [Slot -> SUBSET Ports]
    OBVIOUS
  <2> QED
    BY <1>1, <2>1, <2>2 DEF Counts, TypeOK, TBTypeOK, PCs, tbVars, clientVars, gcVars
<1>4. RcExact' /\ ServerExact'
  BY <1>1, <1>2 DEF RcExact, Refs, Count, ServerExact, Open, clientVars
<1>5. Borrowing'
  BY <1>1 DEF Counts, TypeOK, TBTypeOK, Borrowing, RolesDistinct, SlotBorrowed, PhaseExact,
              tbVars, clientVars, gcVars
<1> QED
  BY <1>3, <1>4, <1>5 DEF Counts

LEMMA StutterHost == Counts /\ Borrowing /\ UNCHANGED vars => Counts' /\ Borrowing'
BY DEF vars, Counts, TypeOK, TBTypeOK, RcExact, Refs, ServerExact, Open,
       Borrowing, RolesDistinct, SlotBorrowed, PhaseExact

-----------------------------------------------------------------------------
(* The steps of PortSync, the period apart.                                 *)
LEMMA InheritedHost == Counts /\ Borrowing /\ Inherited => Counts' /\ Borrowing'
BY RegisterCallHost, RegisterPortHost, RegisterLockHost, RegisterWriteHost,
   RegisterSwapHost, UnregisterCallHost, UnregisterWriteHost, UnregisterSwapHost,
   GcTickHost, GcClearBackHost, GcClearPendingHost, GcOrphanHost, EndCycleHost,
   ActivateHost, DeactivateHost, CloseClientHost, DropPortsHost, DropBuffersHost,
   StutterHost
   DEF Inherited, MainStep, Terminated

(* None of them touches what an active client's callbacks work on.          *)
LEMMA FrontKept ==
  ASSUME Counts, Borrowing, Inherited, phase = "active"
  PROVE  front' = front /\ (buf'[front] = buf[front] \/ ~period)
<1>0. /\ front # back /\ front # pending /\ TypeOK
      /\ back \in Slot /\ pending \in Slot
  BY DEF Counts, TypeOK, TBTypeOK, Borrowing, RolesDistinct
<1>1. CASE RegisterWrite \/ UnregisterWrite \/ GcClearBack \/ GcClearPending
  <2>1. PICK m : Assign(slot, m)
    BY <1>1 DEF RegisterWrite, UnregisterWrite, GcClearBack, GcClearPending
  <2>2. slot \in {back, pending} /\ front' = front
    BY <1>1 DEF RegisterWrite, UnregisterWrite, GcClearBack, GcClearPending, tbVars,
                Borrowing, SlotBorrowed
  <2> QED
    BY <1>0, <2>1, <2>2, AssignElsewhere
<1>2. CASE DropPorts \/ DropBuffers
  BY <1>2 DEF DropPorts, DropBuffers, Borrowing, PhaseExact
<1> QED
  BY <1>1, <1>2 DEF Inherited, MainStep, RegisterCall, RegisterPort, RegisterLock,
     RegisterSwap, UnregisterCall, UnregisterSwap, GcTick, GcOrphan, EndCycle, Activate,
     Deactivate, CloseClient, Terminated, Swap, tbVars, mapVars, vars, clientVars

(* The period of an inherited step: only a deactivation or a close ends the *)
(* activity, and both wait for the period.                                  *)
LEMMA InheritedPeriod ==
  ASSUME Counts, Borrowing, PeriodExact, Inherited, UNCHANGED hostVars PROVE PeriodExact'
<1>1. period => phase' = "active"
  <2> SUFFICES ASSUME period PROVE phase' = "active"
    OBVIOUS
  <2>1. phase = "active"
    BY DEF PeriodExact
  <2> QED
    BY <2>1 DEF Inherited, MainStep, RegisterCall, RegisterPort, RegisterLock, RegisterWrite,
       RegisterSwap, UnregisterCall, UnregisterWrite, UnregisterSwap, GcTick, GcClearBack,
       GcClearPending, GcOrphan, EndCycle, Activate, Deactivate, CloseClient, DropPorts,
       DropBuffers, Terminated, clientVars, vars
<1>2. inCycle' => inCycle
  BY DEF Inherited, MainStep, RegisterCall, RegisterPort, RegisterLock, RegisterWrite,
       RegisterSwap, UnregisterCall, UnregisterWrite, UnregisterSwap, GcTick, GcClearBack,
       GcClearPending, GcOrphan, EndCycle, Activate, Deactivate, CloseClient, DropPorts,
       DropBuffers, Terminated, vars
<1>3. period => buf'[front'] = buf[front]
  BY FrontKept DEF PeriodExact
<1> QED
  BY <1>1, <1>2, <1>3 DEF PeriodExact, hostVars, periodVars

LEMMA CallbackPeriod ==
  ASSUME Counts, Borrowing, PeriodExact, NEW k \in DOMAIN Callbacks, CallbackBegin(k)
  PROVE  PeriodExact'
<1>1. /\ period /\ k \in {1, 2, 3} /\ ran < k
      /\ ran' = k /\ seen' = seen \cup buf[front']
      /\ moved' = (moved \/ (ran > 0 /\ dirty)) /\ period' = period /\ outer' = outer
      /\ front' = (IF dirty THEN pending ELSE front)
      /\ phase' = phase /\ buf' = buf /\ phase = "active" /\ TypeOK
  BY CallbackDomain DEF CallbackBegin, BeginCycle, FrontBuffer, Latest, clientVars, mapVars,
     Counts, PeriodExact
<1>2. moved' \in BOOLEAN
  BY <1>1
<1>3. front' \in Slot /\ seen' \subseteq Ports
  BY <1>1 DEF PeriodExact, TypeOK, TBTypeOK
<1>4. ~moved' => seen' = buf'[front']
  <2>1. CASE ran = 0
    BY <1>1, <2>1 DEF PeriodExact
  <2>2. CASE ran > 0
    BY <1>1, <2>2 DEF PeriodExact
  <2> QED
    BY <2>1, <2>2 DEF PeriodExact
<1> QED
  BY <1>1, <1>2, <1>3, <1>4 DEF PeriodExact

LEMMA StepHostInd == HostInd /\ [HostNext]_allVars => HostInd'
<1> SUFFICES ASSUME HostInd, [HostNext]_allVars PROVE HostInd'
  OBVIOUS
<1>0. Counts /\ Borrowing /\ PeriodExact
  BY DEF HostInd
<1>1. CASE Inherited /\ UNCHANGED hostVars
  BY <1>0, <1>1, InheritedHost, InheritedPeriod DEF HostInd
<1>2. CASE PeriodBegin
  <2>1. UNCHANGED vars
    BY <1>2 DEF PeriodBegin
  <2>2. moved' \in BOOLEAN /\ period' \in BOOLEAN
    BY <1>2 DEF PeriodBegin
  <2>3. PeriodExact'
    BY <1>0, <1>2, <2>2 DEF PeriodBegin, PeriodExact, Borrowing, PhaseExact, vars
  <2> QED
    BY <1>0, <2>1, <2>3, StutterHost DEF HostInd
<1>3. ASSUME NEW k \in DOMAIN Callbacks, CallbackBegin(k) PROVE HostInd'
  BY <1>0, <1>3, BeginCycleHost, CallbackPeriod DEF CallbackBegin, HostInd
<1>4. CASE PeriodEnd
  <2>1. UNCHANGED vars
    BY <1>4 DEF PeriodEnd
  <2>2. moved' \in BOOLEAN /\ period' \in BOOLEAN
    BY <1>4 DEF PeriodEnd
  <2>3. PeriodExact'
    BY <1>0, <1>4, <2>2 DEF PeriodEnd, PeriodExact, vars
  <2> QED
    BY <1>0, <2>1, <2>3, StutterHost DEF HostInd
<1>5. CASE RegisterPanics
  <2>1. PeriodExact'
    BY <1>0, <1>5 DEF RegisterPanics, PeriodExact, hostVars, periodVars, tbVars, mapVars, clientVars
  <2> QED
    BY <1>0, <1>5, <2>1, RegisterPanicsHost DEF HostInd
<1>6. ASSUME NEW S \in SUBSET Ports, UnregisterPanics(S) PROVE HostInd'
  <2>1. PeriodExact'
    BY <1>0, <1>6 DEF UnregisterPanics, PeriodExact, hostVars, periodVars, tbVars, clientVars
  <2> QED
    BY <1>0, <1>6, <2>1, UnregisterPanicsHost DEF HostInd
<1>7. CASE SpawnFails
  <2>1. PeriodExact'
    BY <1>0, <1>7 DEF SpawnFails, Swap, PeriodExact, hostVars, periodVars, mapVars, clientVars
  <2> QED
    BY <1>0, <1>7, <2>1, SpawnFailsHost DEF HostInd
<1>8. CASE CollectorLost
  <2>1. PeriodExact'
    BY <1>0, <1>8 DEF CollectorLost, PeriodExact, hostVars, periodVars, tbVars, mapVars, clientVars
  <2> QED
    BY <1>0, <1>8, <2>1, CollectorLostHost DEF HostInd
<1>9. CASE ProcessBreaks
  <2>1. PeriodExact'
    BY <1>0, <1>9 DEF ProcessBreaks, BreakCycle, PeriodExact, hostVars, periodVars, tbVars, mapVars
  <2> QED
    BY <1>0, <1>9, <2>1, BreakCycleHost DEF ProcessBreaks, HostInd
<1>10. CASE IteratorCalls
  <2>1. PeriodExact'
    BY <1>0, <1>10, NestedAssumption
       DEF IteratorCalls, PeriodExact, periodVars, tbVars, mapVars, clientVars
  <2> QED
    BY <1>0, <1>10, <2>1, IteratorCallsHost DEF HostInd
<1>11. CASE IteratorGoesOn
  <2>1. PeriodExact'
    BY <1>0, <1>11, NestedAssumption
       DEF IteratorGoesOn, PeriodExact, periodVars, tbVars, mapVars, clientVars
  <2> QED
    BY <1>0, <1>11, <2>1, IteratorGoesOnHost DEF HostInd
<1>12. CASE UNCHANGED allVars
  <2>1. UNCHANGED vars /\ UNCHANGED hostVars
    BY <1>12 DEF allVars
  <2>2. PeriodExact'
    BY <1>0, <2>1 DEF PeriodExact, vars, hostVars, periodVars
  <2> QED
    BY <1>0, <2>1, <2>2, StutterHost DEF HostInd
<1> QED
  BY <1>1, <1>2, <1>3, <1>4, <1>5, <1>6, <1>7, <1>8, <1>9, <1>10, <1>11,
     <1>12 DEF HostNext

(* Who holds which slot and map, and the counts that follow, survive every  *)
(* panic of an iterator and every lost collector (client.rs:346-445).       *)
THEOREM HostIndInvariance == HostSpec => []HostInd
<1>1. HostInit => HostInd
  BY InitHostInd
<1>2. HostInd /\ [HostNext]_allVars => HostInd'
  BY StepHostInd
<1> QED
  BY <1>1, <1>2, PTL DEF HostSpec

-----------------------------------------------------------------------------
(* The roles of the slots, the borrow, the counts and what the server holds *)
(* survive panicking iterators and lost collectors, for any set of ports    *)
(* (client.rs:346-445).                                                     *)
THEOREM HostInvariance == HostSpec => []HostInv
<1>1. HostInd => HostInv
  <2> SUFFICES ASSUME HostInd PROVE HostInv
    OBVIOUS
  <2>1. HostTypeOK
    BY CallbackDomain DEF HostInd, Counts, PeriodExact, HostTypeOK
  <2> QED
    BY <2>1 DEF HostInd, HostInv, Counts, Borrowing, PeriodExact
<1> QED
  BY <1>1, HostIndInvariance, PTL

(* A port the client still owns is registered at the server, after any      *)
(* panic (client.rs:384-412).                                               *)
THEOREM OwnedAreRegistered == HostSpec => []OwnPortsRegistered
<1>1. HostInd => OwnPortsRegistered
  <2> SUFFICES ASSUME HostInd, Open, NEW p \in ports PROVE p \in registered
    BY DEF OwnPortsRegistered
  <2>1. p \in Ports /\ rc[p] = Refs(p)
    BY DEF HostInd, Counts, TypeOK, RcExact
  <2>2. rc[p] > 0
    BY <2>1 DEF Refs, Count
  <2> QED
    BY <2>1, <2>2 DEF HostInd, Counts, ServerExact
<1> QED
  BY <1>1, HostIndInvariance, PTL

(* What the callbacks of a period could look up lives as long as the period *)
(* if all of them took the same map (callbacks.rs:376-391, 713-771).        *)
THEOREM PeriodDataLives == HostSpec => []PeriodKeepsData
<1>1. HostInd => PeriodKeepsData
  <2> SUFFICES ASSUME HostInd, period, ~moved, NEW p \in seen PROVE rc[p] > 0
    BY DEF PeriodKeepsData
  <2>1. p \in Ports /\ ran > 0 /\ seen = buf[front]
    BY DEF HostInd, PeriodExact
  <2>2. rc[p] = Refs(p) /\ front \in Slot
    BY <2>1 DEF HostInd, Counts, RcExact, TypeOK, TBTypeOK
  <2> QED
    BY <2>1, <2>2 DEF Refs, Count
<1> QED
  BY <1>1, HostIndInvariance, PTL

(* A call that returns has published Client.ports as a whole, whatever the  *)
(* calls before it left unfinished (client.rs:395-397, 413-415).            *)
THEOREM CallsPublish == HostSpec => CallRestores
<1> DEFINE Published == (pc \in {"regSwap", "unregSwap"} /\ pc' = "idle") => (buf[Latest] = ports)'
<1>1. HostInd /\ [HostNext]_allVars => [Published]_allVars
  <2> SUFFICES ASSUME HostInd, HostNext, pc \in {"regSwap", "unregSwap"}, pc' = "idle"
               PROVE  (buf[Latest] = ports)'
    OBVIOUS
  <2>1. buf[back] = ports
    BY DEF HostInd, Borrowing
  <2>2. RegisterSwap \/ UnregisterSwap \/ SpawnFails
    BY DEF HostNext, Inherited, MainStep, RegisterCall, RegisterPort, RegisterLock,
       RegisterWrite, UnregisterCall, UnregisterWrite, GcTick, GcClearBack,
       GcClearPending, GcOrphan, EndCycle, Activate, Deactivate, CloseClient, DropPorts,
       DropBuffers, Terminated, PeriodBegin, CallbackBegin, BeginCycle, PeriodEnd,
       ProcessBreaks, BreakCycle, IteratorCalls, IteratorGoesOn, RegisterPanics,
       UnregisterPanics, CollectorLost, vars
  <2>3. pending' = back /\ dirty' = TRUE /\ buf' = buf /\ ports' = ports
    BY <2>2 DEF RegisterSwap, UnregisterSwap, SpawnFails, Swap, mapVars
  <2> QED
    BY <2>1, <2>3 DEF Latest
<1> QED
  BY <1>1, HostIndInvariance, PTL DEF HostSpec, CallRestores

(* A collection that ends leaves nothing at the server but what the client  *)
(* owns and what the callbacks' map shows: ports that a panic took out of   *)
(* Client.ports without a publication (client.rs:434-441).                  *)
THEOREM CollectionsReturn == HostSpec => CollectionReturns
<1> DEFINE Returned == (pc = "gcPending" /\ pc' = "idle")
                         => (registered = ports \cup buf[front])'
<1>1. HostInd /\ [HostNext]_allVars => [Returned]_allVars
  <2> SUFFICES ASSUME HostInd, HostInd', HostNext, pc = "gcPending", pc' = "idle"
               PROVE  (registered = ports \cup buf[front])'
    BY StepHostInd
  <2>1. GcClearPending
    BY DEF HostNext, Inherited, MainStep, RegisterCall, RegisterPort, RegisterLock,
       RegisterWrite, RegisterSwap, UnregisterCall, UnregisterWrite, UnregisterSwap, GcTick,
       GcClearBack, GcOrphan, EndCycle, Activate, Deactivate, CloseClient, DropPorts,
       DropBuffers, Terminated, PeriodBegin, CallbackBegin, BeginCycle, PeriodEnd,
       ProcessBreaks, BreakCycle, IteratorCalls, IteratorGoesOn, RegisterPanics,
       UnregisterPanics, SpawnFails, CollectorLost, vars
  <2>2. /\ buf' = [buf EXCEPT ![pending] = {}] /\ buf[back] = {}
        /\ UNCHANGED <<front, pending, back>>
    BY <2>1 DEF GcClearPending, Assign, tbVars, HostInd, Borrowing, SlotBorrowed
  <2>3. /\ {front, pending, back} \subseteq {0, 1, 2} /\ buf \in [Slot -> SUBSET Ports]
        /\ front # pending /\ front # back /\ pending # back
    BY DEF HostInd, Counts, TypeOK, TBTypeOK, Borrowing, RolesDistinct
  <2>4. buf'[pending] = {} /\ buf'[back] = {} /\ {front, pending, back} = {0, 1, 2}
    BY <2>2, <2>3
  <2>5. \A p \in Ports : rc'[p] > 0 <=> p \in ports' \/ p \in buf'[front]
    <3> TAKE p \in Ports
    <3>1. rc'[p] = Refs(p)'
      BY DEF HostInd, Counts, RcExact
    <3> QED
      BY <2>3, <2>4, <3>1 DEF Refs, Count
  <2>6. registered' = {p \in Ports : rc'[p] > 0}
    BY DEF HostInd, Counts, ServerExact, Borrowing, PhaseExact, Open
  <2>7. ports' \subseteq Ports /\ buf'[front] \subseteq Ports
    BY <2>3 DEF HostInd, Counts, TypeOK
  <2> QED
    BY <2>2, <2>5, <2>6, <2>7
<1> QED
  BY <1>1, HostIndInvariance, PTL DEF HostSpec, CollectionReturns

(* Main thread and callback never hold the same slot, after any panic and   *)
(* with any number of callbacks in a period (client.rs:396, 414, 434-436).  *)
THEOREM DataRaceFreedomHost == HostSpec => []NoDataRace
<1>1. HostInd => NoDataRace
  BY DEF HostInd, Counts, TypeOK, TBTypeOK, Borrowing, RolesDistinct, SlotBorrowed,
         NoDataRace
<1> QED
  BY <1>1, HostIndInvariance, PTL

(* Every callback of a period finds registered ports only, although groups  *)
(* may be left unpublished by a panic (process.rs:98, 163-167, 461-468).    *)
THEOREM CyclesSeeRegisteredHost == HostSpec => []CycleSeesRegistered
<1>1. HostInd => CycleSeesRegistered
  <2> SUFFICES ASSUME HostInd, inCycle, NEW p \in buf[front] PROVE p \in registered
    BY DEF CycleSeesRegistered
  <2>1. front \in Slot /\ p \in Ports /\ rc[p] = Refs(p) /\ Open
    BY DEF HostInd, Counts, TypeOK, TBTypeOK, RcExact, PeriodExact, Borrowing, PhaseExact, Open
  <2>2. rc[p] > 0
    BY <2>1 DEF Refs, Count
  <2> QED
    BY <2>1, <2>2 DEF HostInd, Counts, ServerExact
<1> QED
  BY <1>1, HostIndInvariance, PTL

(* Teardown drops every port object, whatever a panic or a lost collector   *)
(* left unpublished or uncollected before (client.rs:268-280, 1230-1234).   *)
THEOREM NoLeakHost == HostSpec => []NoLeakAfterDrop
<1>1. HostInd => NoLeakAfterDrop
  BY DEF HostInd, Counts, RcExact, Refs, Count, Borrowing, PhaseExact, NoLeakAfterDrop
<1> QED
  BY <1>1, HostIndInvariance, PTL

(* The map of a callback does not change before it returns, faults or not   *)
(* (callbacks.rs:380-389).                                                  *)
THEOREM ViewIsStableHost == HostSpec => ViewStable
<1> DEFINE Stable == inCycle /\ inCycle' => buf'[front'] = buf[front]
<1>1. HostInd /\ [HostNext]_allVars => [Stable]_vars
  <2> SUFFICES ASSUME HostInd, [HostNext]_allVars, inCycle PROVE buf'[front'] = buf[front]
    OBVIOUS
  <2>1. Counts /\ Borrowing /\ period /\ phase = "active"
    BY DEF HostInd, PeriodExact
  <2>2. CASE Inherited
    BY <2>1, <2>2, FrontKept
  <2>3. CASE ~Inherited
    BY <2>3 DEF HostNext, PeriodBegin, CallbackBegin, BeginCycle, ProcessBreaks,
       BreakCycle, PeriodEnd, IteratorCalls, IteratorGoesOn, RegisterPanics,
       UnregisterPanics, SpawnFails, Swap, CollectorLost, tbVars, mapVars, vars, allVars
  <2> QED
    BY <2>2, <2>3
<1> QED
  BY <1>1, HostIndInvariance, PTL DEF HostSpec, ViewStable

-----------------------------------------------------------------------------
(* Nothing is nested unless iterators make calls. *)
LEMMA NotNested == "reentry" \notin Faults => (HostSpec => [](outer = 0))
<1> SUFFICES ASSUME "reentry" \notin Faults PROVE HostSpec => [](outer = 0)
  OBVIOUS
<1>1. HostInit => outer = 0
  BY DEF HostInit
<1>2. outer = 0 /\ [HostNext]_allVars => (outer = 0)'
  <2> SUFFICES ASSUME outer = 0, [HostNext]_allVars PROVE outer' = outer
    OBVIOUS
  <2>1. ~IteratorCalls /\ ~IteratorGoesOn
    BY DEF IteratorCalls, IteratorGoesOn
  <2>2. CASE (Inherited /\ UNCHANGED hostVars) \/ UNCHANGED allVars
    BY <2>2 DEF hostVars, allVars
  <2>3. CASE PeriodBegin \/ ProcessBreaks \/ PeriodEnd
    BY <2>3 DEF PeriodBegin, ProcessBreaks, PeriodEnd, hostVars
  <2>4. CASE \E k \in DOMAIN Callbacks : CallbackBegin(k)
    BY <2>4 DEF CallbackBegin
  <2>5. CASE \/ RegisterPanics \/ SpawnFails \/ CollectorLost
             \/ \E S \in SUBSET Ports : UnregisterPanics(S)
    BY <2>5 DEF RegisterPanics, SpawnFails, CollectorLost, UnregisterPanics, hostVars
  <2> QED
    BY <2>1, <2>2, <2>3, <2>4, <2>5 DEF HostNext
<1> QED
  BY <1>1, <1>2, PTL DEF HostSpec

(* Without faults a step of the client in its periods is a step of PortSync *)
(* or invisible to it: everything proved of one callback at a time holds of *)
(* periods with three (callbacks.rs:376-391, 708-771).                      *)
LEMMA FaultFreeStep == Faults = {} /\ outer = 0 /\ [HostNext]_allVars => [Next]_vars
<1> SUFFICES ASSUME Faults = {}, outer = 0, [HostNext]_allVars PROVE [Next]_vars
  OBVIOUS
<1>1. CASE Inherited
  BY <1>1 DEF Inherited, MainStep, Next
<1>2. CASE PeriodBegin \/ PeriodEnd \/ UNCHANGED allVars
  BY <1>2 DEF PeriodBegin, PeriodEnd, allVars
<1>3. CASE \E k \in DOMAIN Callbacks : CallbackBegin(k)
  BY <1>3 DEF CallbackBegin, Next
<1>4. CASE ProcessBreaks
  BY <1>4 DEF ProcessBreaks, Next
<1>5. /\ ~(IteratorCalls \/ IteratorGoesOn \/ RegisterPanics \/ SpawnFails \/ CollectorLost)
      /\ ~(\E S \in SUBSET Ports : UnregisterPanics(S))
  BY DEF IteratorCalls, IteratorGoesOn, RegisterPanics, SpawnFails, CollectorLost,
         UnregisterPanics
<1> QED
  BY <1>1, <1>2, <1>3, <1>4, <1>5 DEF HostNext

(* With an executor and iterators that never fail nor call back, the client *)
(* in its periods is the client of PortSync.                                *)
THEOREM FaultFree == Faults = {} => (HostSpec => Spec)
<1> SUFFICES ASSUME Faults = {} PROVE HostSpec => Spec
  OBVIOUS
<1>1. HostInit => Init
  BY DEF HostInit
<1>2. outer = 0 /\ [HostNext]_allVars => [Next]_vars
  BY FaultFreeStep
<1>3. HostSpec => [](outer = 0)
  BY NotNested
<1> QED
  BY <1>1, <1>2, <1>3, PTL DEF HostSpec, Spec

(* In particular whole periods see PortView's tables, and a collection that *)
(* ended has given everything back (lib.rs:49-60).                          *)
THEOREM FaultFreeTables ==
  Faults = {} => (HostSpec => ImplementsPortView /\ []NoGarbageWithoutCollector)
BY FaultFree, Refinement, CollectionComplete

=============================================================================
