------------------------------- MODULE PortHost -------------------------------
(***************************************************************************)
(* PortSync in its surroundings.  Three things the calls of the crate      *)
(* depend on and do not control are added:                                 *)
(*  - a period of the server, in which the sync, process and timebase      *)
(*    callbacks run one after the other and each asks for the front buffer *)
(*    on its own (src/src/callbacks.rs:376-391, 708-733, 747-771);         *)
(*  - the caller's iterator, which register_ports and unregister_ports run *)
(*    between their steps (src/src/client.rs:346-412).  It may panic.  That *)
(*    of register_ports may also make calls of its own, since the port map *)
(*    is borrowed for one insertion at a time (388-390); that of           *)
(*    unregister_ports finds the map borrowed, so such a call panics;      *)
(*  - the executor, which may refuse to spawn the collector or lose it     *)
(*    (src/src/client.rs:47-84, 417-443, src/src/tokio.rs, glib.rs).       *)
(* The last two the code does not provide for: Faults says which of them    *)
(* may happen, and the properties say what survives them.                  *)
(***************************************************************************)
EXTENDS PortSync

CONSTANTS
  Faults,      \* what may happen: see above
  MaxNested    \* how deep calls of register_ports are nested in iterators

ASSUME FaultsAssumption == Faults \subseteq {"iterator", "reentry", "collector"}
ASSUME NestedAssumption == MaxNested \in Nat

VARIABLES
  period,   \* the server runs a period of this client
  ran,      \* the last callback this period has begun, 0 before the first
  seen,     \* ports a callback of this period could look up
  moved,    \* a later callback of the period picked up a newer map
  outer     \* calls of register_ports whose iterator runs other calls

periodVars == <<period, ran, seen, moved>>
hostVars == <<periodVars, outer>>
allVars == <<vars, hostVars>>

Callbacks == <<"sync", "process", "timebase">>

HostTypeOK ==
  /\ TypeOK
  /\ period \in BOOLEAN
  /\ ran \in {0} \cup DOMAIN Callbacks
  /\ seen \subseteq Ports
  /\ moved \in BOOLEAN
  /\ outer \in 0..MaxNested

HostInit ==
  Init /\ period = FALSE /\ ran = 0 /\ seen = {} /\ moved = FALSE /\ outer = 0

-----------------------------------------------------------------------------
(* The server's period.  The process callback runs in each, the other two   *)
(* when they are registered and the transport asks for them.  A period in   *)
(* which the process callback broke has no timebase callback and is the     *)
(* last; what the sync callback returns does not end the cycles.            *)

PeriodBegin ==
  /\ cycling /\ ~period
  /\ period' = TRUE /\ ran' = 0 /\ seen' = {} /\ moved' = FALSE
  /\ UNCHANGED <<vars, outer>>

CallbackBegin(k) ==
  /\ period /\ ran < k
  /\ Callbacks[k] = "timebase" => ran > 0 /\ Callbacks[ran] = "process"
  /\ BeginCycle
  /\ ran' = k
  /\ seen' = seen \cup buf[front']
  /\ moved' = (moved \/ (ran > 0 /\ dirty))
  /\ UNCHANGED <<period, outer>>

ProcessBreaks ==
  /\ ran > 0 /\ Callbacks[ran] = "process"
  /\ BreakCycle
  /\ UNCHANGED hostVars

PeriodEnd ==
  /\ period /\ ~inCycle
  /\ ran > 0 /\ Callbacks[ran] # "sync"
  /\ period' = FALSE /\ ran' = 0 /\ seen' = {} /\ moved' = FALSE
  /\ UNCHANGED <<vars, outer>>

-----------------------------------------------------------------------------
(* The caller's iterator.  Between two items that of register_ports has the *)
(* thread and no borrow is held: it may make calls and even let the         *)
(* executor run, as if idle, before it goes on with the next item.          *)

IteratorCalls ==
  /\ "reentry" \in Faults
  /\ pc = "register" /\ outer < MaxNested
  /\ pc' = "idle"
  /\ outer' = outer + 1
  /\ UNCHANGED <<tbVars, clientVars, mapVars, slot, gcVars, inCycle, periodVars>>

IteratorGoesOn ==
  /\ pc = "idle" /\ outer > 0
  /\ pc' = "register"
  /\ outer' = outer - 1
  /\ UNCHANGED <<tbVars, clientVars, mapVars, slot, gcVars, inCycle, periodVars>>

(* It panics.  A group that was partly registered stays in Client.ports     *)
(* without having been published; of a group that was partly unregistered   *)
(* the ports S are out of Client.ports, the buffers are left alone and no   *)
(* collector is started.  In a nested call the panic reaches the iterator   *)
(* around it, which may catch it or panic in turn.                          *)

RegisterPanics ==
  /\ "iterator" \in Faults
  /\ pc = "register"
  /\ pc' = "idle"
  /\ UNCHANGED <<tbVars, clientVars, mapVars, slot, gcVars, inCycle, hostVars>>

UnregisterPanics(S) ==
  /\ "iterator" \in Faults
  /\ Open /\ pc = "idle"
  /\ ports' = ports \ S
  /\ Recount({}, ports \cap S)
  /\ UNCHANGED <<tbVars, clientVars, buf, pc, slot, gcVars, inCycle, hostVars>>

(* The executor panics in interval() or spawn_local(), as both do outside   *)
(* of a running one: the flag has been set just before.                     *)
SpawnFails ==
  /\ "collector" \in Faults
  /\ pc = "unregSwap" /\ ~pendingPortGc
  /\ Swap
  /\ pendingPortGc' = TRUE
  /\ pc' = "idle"
  /\ UNCHANGED <<clientVars, mapVars, slot, collectors, inCycle, hostVars>>

(* The executor is dropped with the tasks it holds while the client lives   *)
(* on, or polls the collector on a thread where ThreadGuard panics.         *)
CollectorLost ==
  /\ "collector" \in Faults
  /\ pc = "idle" /\ collectors > 0
  /\ collectors' = collectors - 1
  /\ UNCHANGED <<tbVars, clientVars, mapVars, pc, slot, pendingPortGc, inCycle, hostVars>>

-----------------------------------------------------------------------------
(* Steps of PortSync that do not concern the period.  An iterator borrows   *)
(* the client, so it cannot activate, deactivate or drop it; deactivation   *)
(* and close return when the period in progress is over.                    *)
Inherited ==
  \/ RegisterCall
  \/ \E p \in Ports : RegisterPort(p)
  \/ \E S \in SUBSET Ports \ {{}} : UnregisterCall(S)
  \/ MainStep
  \/ GcTick
  \/ GcOrphan
  \/ EndCycle
  \/ outer = 0 /\ \E h \in BOOLEAN : Activate(h)
  \/ outer = 0 /\ ~period /\ (Deactivate \/ CloseClient)
  \/ Terminated

HostNext ==
  \/ Inherited /\ UNCHANGED hostVars
  \/ PeriodBegin
  \/ \E k \in DOMAIN Callbacks : CallbackBegin(k)
  \/ ProcessBreaks
  \/ PeriodEnd
  \/ IteratorCalls
  \/ IteratorGoesOn
  \/ RegisterPanics
  \/ \E S \in SUBSET Ports : UnregisterPanics(S)
  \/ SpawnFails
  \/ CollectorLost

HostSpec == HostInit /\ [][HostNext]_allVars

(* As in PortSync; a client gets period after period, each with a process   *)
(* callback, until it is deactivated or that callback breaks.  An iterator  *)
(* makes finitely many calls and has finitely many items; whether it lets   *)
(* the executor run is up to it.                                            *)
HostFairness ==
  /\ WF_allVars(MainStep /\ UNCHANGED hostVars)
  /\ \A d \in 0..MaxNested : SF_allVars(outer = d /\ RegisterLock /\ UNCHANGED hostVars)
  /\ \A d \in 1..MaxNested : SF_allVars(outer = d /\ IteratorGoesOn)
  /\ SF_allVars(outer = 0 /\ GcTick /\ UNCHANGED hostVars)
  /\ WF_allVars(GcOrphan /\ UNCHANGED hostVars)
  /\ WF_allVars(PeriodBegin)
  /\ WF_allVars(CallbackBegin(2))
  /\ WF_allVars(EndCycle /\ UNCHANGED hostVars)
  /\ WF_allVars(PeriodEnd)

HostFairSpec == HostSpec /\ HostFairness

-----------------------------------------------------------------------------
(* What the faults cannot disturb: the roles of the slots, the borrow, the  *)
(* counts, what the server holds, the phases; and never are two collectors  *)
(* alive, however many were refused or lost.                                *)
HostInv ==
  /\ HostTypeOK
  /\ RolesDistinct
  /\ SlotBorrowed
  /\ RcExact
  /\ ServerExact
  /\ PhaseExact
  /\ pc \in {"regSwap", "unregSwap"} => buf[back] = ports
  /\ collectors <= Count(pendingPortGc)
  /\ inCycle => period

(* A port the client still owns is registered, so port_rename,              *)
(* port_disconnect and port_by_owned_uuid (client.rs:467-472, 503-522,      *)
(* 567-580) hand the server a live pointer, also after a panic.             *)
OwnPortsRegistered == Open => ports \subseteq registered

(* A call that returns has published Client.ports as a whole, whatever      *)
(* earlier calls left unfinished (client.rs:395-397, 413-415).              *)
CallRestores ==
  [][(pc \in {"regSwap", "unregSwap"} /\ pc' = "idle")
       => (buf[Latest] = ports)']_allVars

(* A collection that has come to its end leaves at the server what the      *)
(* client owns and what the map of the callbacks still shows, after a panic *)
(* may be more: nothing else is ever leaked (client.rs:434-441).            *)
CollectionReturns ==
  [][(pc = "gcPending" /\ pc' = "idle")
       => (registered = ports \cup buf[front])']_allVars

(* The executor lost the collector and the flag says that there is one.     *)
Orphaned == Open /\ pendingPortGc /\ collectors = 0

(* Once the latest publication lacks a port and a collection is pending,    *)
(* the port is given back, although iterators panic, unless the collector   *)
(* is lost for good or the cycles have ended, by a deactivation or because  *)
(* the process callback broke, while the map of the callbacks still had the *)
(* port (client.rs:417-443, callbacks.rs:387-390).                          *)
ReclaimedOncePublished ==
  \A p \in Ports :
    (Garbage(p) /\ p \notin buf[Latest] /\ pendingPortGc /\ pc = "idle")
      ~> (p \notin registered \/ Orphaned \/ (p \in buf[front] /\ ~cycling))

(* lib.rs:57-60: the data of a port unregistered while the process cycle is *)
(* running is deallocated after the process cycle finishes.  True of each   *)
(* callback; of a period with several, whose callbacks take the front slot  *)
(* one by one (callbacks.rs:381, 718, 757), only while all of them took the *)
(* same map.                                                                *)
PeriodKeepsData == period /\ ~moved => \A p \in seen : rc[p] > 0

(* The same sentence of lib.rs:57-60 taken for the whole period.            *)
WholePeriodKeepsData == period => \A p \in seen : rc[p] > 0

=============================================================================
