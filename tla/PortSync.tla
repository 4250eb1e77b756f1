------------------------------- MODULE PortSync -------------------------------
(***************************************************************************)
(* Ports of one client: Client::register_ports, Client::unregister_ports   *)
(* and the collector task it spawns, the process callback, and the order   *)
(* in which a client is torn down (src/src/client.rs, callbacks.rs,        *)
(* process.rs).                                                            *)
(*                                                                         *)
(* Two threads.  The main thread runs the calls and, between them, the     *)
(* collector task: `pc' is its place inside a call, "idle" between calls.  *)
(* The process thread takes the front slot of the triple buffer for the    *)
(* duration of a callback (`inCycle').  A port is identified by its uuid;  *)
(* the server may hand out a uuid again once it is unregistered.           *)
(***************************************************************************)
EXTENDS TripleBuffer

CONSTANT Ports          \* uuids the server can hand out to this client

NoSlot == 3

VARIABLES
  phase,          \* which Rust value owns the client: see Phases
  cycling,        \* the server runs the process callback of this client
  registered,     \* server side: ports registered by this client
  ports,          \* Client.ports: keys of the main thread's map
  buf,            \* the three ProcessPorts maps behind the triple buffer
  rc,             \* strong count of the Rc<ProcessPortInner> of each port
  pc,             \* main thread: step inside the current call
  slot,           \* slot the main thread holds a &mut to, or NoSlot
  pendingPortGc,  \* Client.pending_port_gc
  collectors,     \* number of collector tasks alive in the executor
  inCycle         \* process thread: inside a callback, front guard held

clientVars == <<phase, cycling>>
gcVars == <<pendingPortGc, collectors>>
mapVars == <<registered, ports, buf, rc>>
vars == <<front, pending, back, dirty, phase, cycling, registered, ports, buf,
          rc, pc, slot, pendingPortGc, collectors, inCycle>>

Phases == {"inactive", "active", "deactivated", "closed"}

PCs == {"idle", "register", "regWrite", "regSwap", "unregWrite", "unregSwap",
        "gcBack", "gcPending", "dropPorts", "dropBuffers", "gone"}

TypeOK ==
  /\ TBTypeOK
  /\ phase \in Phases
  /\ cycling \in BOOLEAN
  /\ registered \subseteq Ports
  /\ ports \subseteq Ports
  /\ buf \in [Slot -> SUBSET Ports]
  /\ rc \in [Ports -> Nat]
  /\ pc \in PCs
  /\ slot \in Slot \cup {NoSlot}
  /\ pendingPortGc \in BOOLEAN
  /\ collectors \in Nat
  /\ inCycle \in BOOLEAN

Open == phase # "closed"

Init ==
  /\ TBInit
  /\ phase = "inactive"
  /\ cycling = FALSE
  /\ registered = {}
  /\ ports = {}
  /\ buf = [s \in Slot |-> {}]
  /\ rc = [p \in Ports |-> 0]
  /\ pc = "idle"
  /\ slot = NoSlot
  /\ pendingPortGc = FALSE
  /\ collectors = 0
  /\ inCycle = FALSE

-----------------------------------------------------------------------------
(* Reference counting.  Cloning a map clones the Rc of every port in it,   *)
(* dropping a map drops them; the last drop runs PortPtr::drop, which      *)
(* unregisters the port at the server.                                     *)

Count(b) == IF b THEN 1 ELSE 0

RcAfter(cloned, dropped) ==
  [p \in Ports |-> rc[p] + Count(p \in cloned) - Count(p \in dropped)]

LastDrop(newRc) == {p \in Ports : rc[p] > 0 /\ newRc[p] = 0}

RecountNoClone(cloned, dropped) ==      \* fault: a map copied without its Rcs
  /\ rc' = RcAfter({}, dropped)
  /\ registered' = registered \ LastDrop(rc')

RecountNoDrop(cloned, dropped) ==       \* fault: the old map is forgotten
  /\ rc' = RcAfter(cloned, {})
  /\ registered' = registered \ LastDrop(rc')

Recount(cloned, dropped) ==
  /\ rc' = RcAfter(cloned, dropped)
  /\ registered' = registered \ LastDrop(rc')

(* Assigning a map to a slot: clone the new value, drop the old one. *)
Assign(s, map) ==
  /\ buf' = [buf EXCEPT ![s] = map]
  /\ Recount(map, buf[s])
  /\ ports' = ports

-----------------------------------------------------------------------------
(* register_ports *)

RegisterCall ==
  /\ Open /\ pc = "idle"
  /\ pc' = "register"
  /\ UNCHANGED <<tbVars, clientVars, mapVars, slot, gcVars, inCycle>>

(* One item of the caller's iterator is registered at the server and put   *)
(* into Client.ports.  An item the server refuses changes nothing.  What    *)
(* the iterator itself may do between two items is in PortHost.            *)
RegisterPort(p) ==
  /\ pc = "register"
  /\ p \in Ports \ registered
  /\ registered' = registered \cup {p}
  /\ ports' = ports \cup {p}
  /\ rc' = [rc EXCEPT ![p] = 1]
  /\ UNCHANGED <<tbVars, clientVars, buf, pc, slot, gcVars, inCycle>>

RegisterLock ==
  /\ pc = "register"
  /\ pc' = "regWrite"
  /\ slot' = back
  /\ UNCHANGED <<tbVars, clientVars, mapVars, gcVars, inCycle>>

RegisterWriteMerges ==          \* fault: new ports are added to the old map
  /\ pc = "regWrite"
  /\ Assign(slot, buf[slot] \cup ports)
  /\ slot' = NoSlot
  /\ pc' = "regSwap"
  /\ UNCHANGED <<tbVars, clientVars, gcVars, inCycle>>

RegisterWrite ==
  /\ pc = "regWrite"
  /\ Assign(slot, ports)
  /\ slot' = NoSlot
  /\ pc' = "regSwap"
  /\ UNCHANGED <<tbVars, clientVars, gcVars, inCycle>>

RegisterSwap ==
  /\ pc = "regSwap"
  /\ Swap
  /\ pc' = "idle"
  /\ UNCHANGED <<clientVars, mapVars, slot, gcVars, inCycle>>

-----------------------------------------------------------------------------
(* unregister_ports *)

UnregisterCallNow(S) ==         \* fault: the server is told at once
  /\ Open /\ pc = "idle"
  /\ ports' = ports \ S
  /\ rc' = RcAfter({}, ports \cap S)
  /\ registered' = registered \ S
  /\ slot' = back
  /\ pc' = "unregWrite"
  /\ UNCHANGED <<tbVars, clientVars, buf, gcVars, inCycle>>

(* The caller may name any uuids, ports already removed included. *)
UnregisterCall(S) ==
  /\ Open /\ pc = "idle"
  /\ ports' = ports \ S
  /\ Recount({}, ports \cap S)
  /\ slot' = back
  /\ pc' = "unregWrite"
  /\ UNCHANGED <<tbVars, clientVars, buf, gcVars, inCycle>>

UnregisterWrite ==
  /\ pc = "unregWrite"
  /\ Assign(slot, ports)
  /\ slot' = NoSlot
  /\ pc' = "unregSwap"
  /\ UNCHANGED <<tbVars, clientVars, gcVars, inCycle>>

UnregisterSwapSpawns ==         \* fault: a collector for every call
  /\ pc = "unregSwap"
  /\ Swap
  /\ pendingPortGc' = TRUE
  /\ collectors' = collectors + 1
  /\ pc' = "idle"
  /\ UNCHANGED <<clientVars, mapVars, slot, inCycle>>

(* bufs.swap(), then spawn the collector unless one is already pending. *)
UnregisterSwap ==
  /\ pc = "unregSwap"
  /\ Swap
  /\ pendingPortGc' = TRUE
  /\ collectors' = IF pendingPortGc THEN collectors ELSE collectors + 1
  /\ pc' = "idle"
  /\ UNCHANGED <<clientVars, mapVars, slot, inCycle>>

-----------------------------------------------------------------------------
(* The collector: an async task on the main thread, woken once per period. *)

GcTick ==
  /\ Open /\ pc = "idle" /\ collectors > 0
  /\ slot' = back
  /\ pc' = "gcBack"
  /\ UNCHANGED <<tbVars, clientVars, mapVars, gcVars, inCycle>>

GcClearBackDone ==              \* fault: done when the back slot is empty
  /\ pc = "gcBack"
  /\ Assign(slot, {})
  /\ slot' = NoSlot
  /\ pendingPortGc' = FALSE
  /\ collectors' = collectors - 1
  /\ pc' = "idle"
  /\ UNCHANGED <<tbVars, clientVars, inCycle>>

(* Clear the back slot; then the pending one if the process thread has     *)
(* already moved on to the latest publication, else wait for another tick. *)
GcClearBack ==
  /\ pc = "gcBack"
  /\ Assign(slot, {})
  /\ IF PendingMut
       THEN slot' = pending /\ pc' = "gcPending"
       ELSE slot' = NoSlot /\ pc' = "idle"
  /\ UNCHANGED <<tbVars, clientVars, gcVars, inCycle>>

GcClearPendingSkips ==          \* fault: the pending slot is not cleared
  /\ pc = "gcPending"
  /\ slot' = NoSlot
  /\ collectors' = collectors - 1
  /\ pendingPortGc' = FALSE
  /\ pc' = "idle"
  /\ UNCHANGED <<tbVars, clientVars, mapVars, inCycle>>

GcClearPending ==
  /\ pc = "gcPending"
  /\ Assign(slot, {})
  /\ slot' = NoSlot
  /\ collectors' = collectors - 1
  /\ pendingPortGc' = FALSE
  /\ pc' = "idle"
  /\ UNCHANGED <<tbVars, clientVars, inCycle>>

(* The client is gone: Weak::upgrade fails and the task ends. *)
GcOrphan ==
  /\ pc = "gone" /\ collectors > 0
  /\ collectors' = collectors - 1
  /\ UNCHANGED <<tbVars, clientVars, mapVars, pc, slot, pendingPortGc, inCycle>>

-----------------------------------------------------------------------------
(* Process thread.  The server runs callbacks only between jack_activate   *)
(* and jack_deactivate or jack_client_close, one at a time, and only while *)
(* they return 0.                                                          *)

BeginCycle ==
  /\ cycling /\ ~inCycle
  /\ FrontBuffer
  /\ inCycle' = TRUE
  /\ UNCHANGED <<clientVars, mapVars, pc, slot, gcVars>>

(* ControlFlow::Continue. *)
EndCycle ==
  /\ inCycle
  /\ inCycle' = FALSE
  /\ UNCHANGED <<tbVars, clientVars, mapVars, pc, slot, gcVars>>

(* ControlFlow::Break: the callback returns -1, after which the server does *)
(* not call it again.  The client is not told and remains an ActiveClient.  *)
BreakCycle ==
  /\ inCycle
  /\ inCycle' = FALSE
  /\ cycling' = FALSE
  /\ UNCHANGED <<tbVars, phase, mapVars, pc, slot, gcVars>>

-----------------------------------------------------------------------------
(* Activation and teardown.  jack_deactivate and jack_client_close return  *)
(* once the callback in progress has.                                      *)

Activate(withHandler) ==
  /\ phase = "inactive" /\ pc = "idle"
  /\ phase' = "active"
  /\ cycling' = withHandler
  /\ UNCHANGED <<tbVars, mapVars, pc, slot, gcVars, inCycle>>

Deactivate ==
  /\ phase = "active" /\ pc = "idle" /\ ~inCycle
  /\ phase' = "deactivated"
  /\ cycling' = FALSE
  /\ UNCHANGED <<tbVars, mapVars, pc, slot, gcVars, inCycle>>

(* Client::drop: jack_client_close frees the server's side of every port. *)
CloseClient ==
  /\ Open /\ pc = "idle" /\ ~inCycle
  /\ phase' = "closed"
  /\ cycling' = FALSE
  /\ registered' = {}
  /\ pc' = "dropPorts"
  /\ UNCHANGED <<tbVars, ports, buf, rc, slot, gcVars, inCycle>>

(* The fields of Client follow, in declaration order. *)
DropPorts ==
  /\ pc = "dropPorts"
  /\ ports' = {}
  /\ Recount({}, ports)
  /\ pc' = "dropBuffers"
  /\ UNCHANGED <<tbVars, clientVars, buf, slot, gcVars, inCycle>>

(* Last Arc of the triple buffer (Client's or ProcessData's): three maps. *)
DropBuffers ==
  /\ pc = "dropBuffers"
  /\ buf' = [s \in Slot |-> {}]
  /\ rc' = [p \in Ports |->
              rc[p] - Count(p \in buf[0]) - Count(p \in buf[1]) - Count(p \in buf[2])]
  /\ registered' = registered \ LastDrop(rc')
  /\ pc' = "gone"
  /\ UNCHANGED <<tbVars, clientVars, ports, slot, gcVars, inCycle>>

Terminated == pc = "gone" /\ collectors = 0 /\ UNCHANGED vars

-----------------------------------------------------------------------------
MainStep ==
  \/ RegisterLock \/ RegisterWrite \/ RegisterSwap
  \/ UnregisterWrite \/ UnregisterSwap
  \/ GcClearBack \/ GcClearPending
  \/ DropPorts \/ DropBuffers

Next ==
  \/ RegisterCall
  \/ \E p \in Ports : RegisterPort(p)
  \/ RegisterLock
  \/ RegisterWrite
  \/ RegisterSwap
  \/ \E S \in SUBSET Ports \ {{}} : UnregisterCall(S)
  \/ UnregisterWrite
  \/ UnregisterSwap
  \/ GcTick
  \/ GcClearBack
  \/ GcClearPending
  \/ GcOrphan
  \/ BeginCycle
  \/ EndCycle
  \/ BreakCycle
  \/ \E h \in BOOLEAN : Activate(h)
  \/ Deactivate
  \/ CloseClient
  \/ DropPorts
  \/ DropBuffers
  \/ Terminated

Spec == Init /\ [][Next]_vars

(* A call that has started is run to its end; the executor polls a woken    *)
(* collector infinitely often when it gets the thread back infinitely       *)
(* often; the server goes on cycling a client until it is deactivated or a  *)
(* callback breaks, and callbacks return.                                   *)
Fairness ==
  /\ WF_vars(MainStep)
  /\ SF_vars(GcTick)
  /\ WF_vars(GcOrphan)
  /\ WF_vars(BeginCycle)
  /\ WF_vars(EndCycle)

FairSpec == Spec /\ Fairness

-----------------------------------------------------------------------------
(* The main thread never writes a slot the process thread is reading:       *)
(* client.rs:396, 414, 434 and 436 against callbacks.rs:380-389.            *)
NoDataRace == inCycle /\ slot \in Slot => slot # front

(* Every port a running callback can look up is still registered, so        *)
(* jack_port_get_buffer is never called on an unregistered port             *)
(* (process.rs:98 and 163-167 against process.rs:461-468).                  *)
CycleSeesRegistered == inCycle => buf[front] \subseteq registered

(* Between calls, the next callback will see exactly Client.ports: the      *)
(* collector never takes away a publication that was not picked up yet.     *)
NextCycleSeesPorts == Open /\ pc = "idle" => buf[Latest] = ports

(* Between calls, with no collection pending, the server holds exactly the  *)
(* ports the client owns: nothing unregistered is left behind.              *)
NoGarbageWithoutCollector ==
  Open /\ pc = "idle" /\ ~pendingPortGc => registered = ports

(* A collector is alive exactly while the flag says so: never two, and      *)
(* never a flag that stays set with nobody to clear it.                     *)
SingleCollector == Open => collectors = Count(pendingPortGc)

(* Once the client and its buffers are dropped no port object survives.     *)
NoLeakAfterDrop == pc = "gone" => \A p \in Ports : rc[p] = 0

(* The map a callback works on does not change until the callback returns.  *)
ViewStable == [][inCycle /\ inCycle' => buf'[front'] = buf[front]]_vars

Garbage(p) == p \in registered /\ p \notin ports

(* Seen from outside, the port tables behave as PortView says: groups are   *)
(* published in one step, a callback keeps the view it began with, and a    *)
(* port is reclaimed only when no table can reach it (lib.rs:49-60).        *)
PV == INSTANCE PortView WITH
        open   <- Open,
        live   <- registered,
        table  <- IF Open THEN buf[Latest] ELSE {},
        staged <- IF Open THEN ports \ buf[Latest] ELSE {},
        view   <- IF Open THEN buf[front] ELSE {}

ImplementsPortView == PV!Spec

(* What lib.rs:57-60 says of a port unregistered while a cycle is running:  *)
(* its data is deallocated after the process cycle finishes.                *)
ReclaimedAfterCycle ==
  \A p \in Ports : (Garbage(p) /\ inCycle) ~> p \notin registered

-----------------------------------------------------------------------------
(* The inductive invariant behind the safety properties.                    *)

RolesDistinct == front # pending /\ front # back /\ pending # back

(* What the main thread has borrowed, and what that tells about the rest. *)
SlotBorrowed ==
  /\ pc \in {"regWrite", "unregWrite", "gcBack"} => slot = back
  /\ pc = "gcPending" => slot = pending /\ ~dirty /\ buf[back] = {}
  /\ pc \notin {"regWrite", "unregWrite", "gcBack", "gcPending"} => slot = NoSlot

Refs(p) == Count(p \in ports) + Count(p \in buf[0]) + Count(p \in buf[1])
             + Count(p \in buf[2])

RcExact == \A p \in Ports : rc[p] = Refs(p)

ServerExact == registered = IF Open THEN {p \in Ports : rc[p] > 0} ELSE {}

TableCurrent ==
  /\ pc \in {"idle", "gcBack", "gcPending"} => buf[Latest] = ports
  /\ pc \in {"register", "regWrite", "regSwap"} => buf[Latest] \subseteq ports
  /\ pc \in {"unregWrite", "unregSwap"} => ports \subseteq buf[Latest]
  /\ pc \in {"regSwap", "unregSwap"} => buf[back] = ports

(* With no collection pending nothing but the client's ports is referenced. *)
AllCollected ==
  /\ pc \in {"gcBack", "gcPending"} => pendingPortGc
  /\ ~pendingPortGc /\ pc \in {"idle", "register", "regWrite", "regSwap"}
       => \A s \in Slot : buf[s] \subseteq ports

CollectorFlag == pc # "gone" => collectors = Count(pendingPortGc)

PhaseExact ==
  /\ inCycle => cycling
  /\ cycling => phase = "active"
  /\ phase = "closed" <=> pc \in {"dropPorts", "dropBuffers", "gone"}
  /\ pc \in {"dropBuffers", "gone"} => ports = {}
  /\ pc = "gone" => \A s \in Slot : buf[s] = {}

(* The strengthening from which the safety properties follow: who owns each *)
(* slot, that every count is exact, what the tables of the slots agree on.  *)
IInv ==
  /\ TypeOK
  /\ RolesDistinct
  /\ SlotBorrowed
  /\ RcExact
  /\ ServerExact
  /\ TableCurrent
  /\ AllCollected
  /\ CollectorFlag
  /\ PhaseExact

=============================================================================
