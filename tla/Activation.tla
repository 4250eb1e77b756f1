------------------------------ MODULE Activation ------------------------------
(***************************************************************************)
(* The life of a client: InactiveClient::activate, which installs the      *)
(* server's callbacks one by one and gives up at the first refusal,        *)
(* ActiveClient::deactivate and its callback setters, and the drops        *)
(* (src/src/client.rs, src/src/callbacks.rs).                              *)
(*                                                                         *)
(* The server keeps a C function and a data pointer per callback.  The     *)
(* pointer is to one of two boxes owned by the Rust side, ProcessData and  *)
(* NotificationData; `cb' says whether an entry is null, points to the box *)
(* of the attempt in progress, or to a box that has been freed.            *)
(***************************************************************************)
EXTENDS Naturals, Sequences

(* The setters of set_notification_callbacks that may fail, in the order of *)
(* the calls; the source has ten, all alike.                                *)
CONSTANT NotifySetters

ASSUME NotifySettersAssumption ==
  /\ NotifySetters \in Seq(STRING)
  /\ \A i \in DOMAIN NotifySetters :
       NotifySetters[i] \notin {"thread_init", "process", "shutdown", "latency",
                               "sync", "timebase"}

VARIABLES
  pc,            \* which value owns the client, see PCs
  opt,           \* arguments of the activation tried or in force
  step,          \* index of the step callback to install
  cb,            \* server: what each callback's data pointer is
  boxes,         \* boxes alive on the heap
  serverActive,  \* server: the client is in the graph, callbacks may run
  otherMaster    \* server: another client is the timebase master

vars == <<pc, opt, step, cb, boxes, serverActive, otherMaster>>

PCs == {"inactive", "installing", "refused", "active", "deactivated", "closed"}

(* Which handlers were passed, and the ActivateFlags: TIMEBASE_FORCE         *)
(* contains TIMEBASE.                                                       *)
Options == {o \in [process : BOOLEAN, notify : BOOLEAN, latency : BOOLEAN,
                   sync : BOOLEAN, timebase : BOOLEAN, force : BOOLEAN] :
              o.force => o.timebase}

ProcessKinds == <<"thread_init", "process">>

NotifyKinds == <<"shutdown">> \o NotifySetters

Elems(s) == {s[i] : i \in DOMAIN s}

Kinds == Elems(ProcessKinds) \cup Elems(NotifyKinds) \cup {"latency", "sync", "timebase"}

(* The box a callback's data pointer leads to. *)
BoxOf(k) == IF k \in Elems(NotifyKinds) \cup {"latency"} THEN "notify" ELSE "process"

Pointers == {"null", "live", "freed"}

TypeOK ==
  /\ pc \in PCs
  /\ opt \in [process : BOOLEAN, notify : BOOLEAN, latency : BOOLEAN,
               sync : BOOLEAN, timebase : BOOLEAN, force : BOOLEAN]
  /\ opt.force => opt.timebase
  /\ step \in 1..(Len(NotifyKinds) + 6)
  /\ cb \in [Kinds -> Pointers]
  /\ boxes \subseteq {"process", "notify"}
  /\ serverActive \in BOOLEAN
  /\ otherMaster \in BOOLEAN

NoOptions == [process |-> FALSE, notify |-> FALSE, latency |-> FALSE,
              sync |-> FALSE, timebase |-> FALSE, force |-> FALSE]

Init ==
  /\ pc = "inactive"
  /\ opt = NoOptions
  /\ step = 1
  /\ cb = [k \in Kinds |-> "null"]
  /\ boxes = {}
  /\ serverActive = FALSE
  /\ otherMaster \in BOOLEAN

-----------------------------------------------------------------------------
(* activate: the callbacks it sets, in order, and to what.  With a handler  *)
(* a group is set to the handler's box, without one it is unset; the        *)
(* optional ones are touched only if their handler is there.                *)

PlanWithoutUnset(o) ==          \* fault: absent handlers are not unset
  (IF o.process THEN ProcessKinds ELSE <<>>)
    \o (IF o.notify THEN NotifyKinds \o <<"latency">> ELSE <<>>)
    \o (IF o.process THEN <<"sync">> ELSE <<>>)
    \o (IF o.process /\ o.timebase THEN <<"timebase">> ELSE <<>>)

PlanOnlyFlags(o) ==             \* fault: unwanted optional ones are not unset
  ProcessKinds \o NotifyKinds
    \o (IF o.notify /\ o.latency THEN <<"latency">> ELSE <<>>)
    \o (IF o.process /\ o.sync THEN <<"sync">> ELSE <<>>)
    \o (IF o.process /\ o.timebase THEN <<"timebase">> ELSE <<>>)

Plan(o) ==
  ProcessKinds \o NotifyKinds
    \o (IF o.notify THEN <<"latency">> ELSE <<>>)
    \o (IF o.process THEN <<"sync">> ELSE <<>>)
    \o (IF o.process /\ o.timebase THEN <<"timebase">> ELSE <<>>)

Wanted(o, k) ==
  IF k \in Elems(ProcessKinds) THEN o.process
  ELSE IF k \in Elems(NotifyKinds) THEN o.notify
  ELSE o[k]

Pointer(b) == IF b THEN "live" ELSE "null"

(* jack_set_timebase_callback refuses a conditional request while another   *)
(* client is the master.                                                    *)
TimebaseGranted(force) == force \/ ~otherMaster

(* jack_release_timebase takes the callback away from the master only. *)
ReleasedTimebase(table) == [table EXCEPT !["timebase"] = "null"]

Freed(table, bs) ==
  [k \in Kinds |-> IF table[k] = "live" /\ BoxOf(k) \in bs THEN "freed" ELSE table[k]]

Activate(o) ==
  /\ pc = "inactive"
  /\ pc' = "installing"
  /\ opt' = o
  /\ step' = 1
  /\ boxes' = IF o.process THEN {"process"} ELSE {}
  /\ UNCHANGED <<cb, serverActive, otherMaster>>

(* The NotificationData is allocated once the process callbacks are set. *)
Allocated(k) ==
  IF opt.notify /\ k = NotifyKinds[1] THEN boxes \cup {"notify"} ELSE boxes

Install ==
  /\ pc = "installing" /\ step <= Len(Plan(opt))
  /\ LET k == Plan(opt)[step] IN
       /\ k = "timebase" => TimebaseGranted(opt.force)
       /\ cb' = [cb EXCEPT ![k] = Pointer(Wanted(opt, k))]
       /\ otherMaster' = IF k = "timebase" THEN FALSE ELSE otherMaster
       /\ boxes' = Allocated(k)
  /\ step' = step + 1
  /\ UNCHANGED <<pc, opt, serverActive>>

(* Any of the setters may return an error, jack_on_shutdown cannot. *)
InstallRefused ==
  /\ pc = "installing" /\ step <= Len(Plan(opt))
  /\ Plan(opt)[step] # "shutdown"
  /\ pc' = "refused"
  /\ UNCHANGED <<opt, step, cb, boxes, serverActive, otherMaster>>

(* jack_activate.  Its error is mapped into the Ok value and dropped: an    *)
(* ActiveClient is returned whatever it says.                               *)
JackActivate(ok) ==
  /\ pc = "installing" /\ step > Len(Plan(opt))
  /\ pc' = "active"
  /\ step' = 1
  /\ serverActive' = ok
  /\ UNCHANGED <<opt, cb, boxes, otherMaster>>

(* The error path gives client and handlers back and drops the boxes, with  *)
(* the callbacks that were set left as they are.                            *)
GiveBack ==
  /\ pc = "refused"
  /\ cb' = Freed(IF opt.timebase THEN ReleasedTimebase(cb) ELSE cb, boxes)
  /\ boxes' = {}
  /\ opt' = NoOptions
  /\ step' = 1
  /\ pc' = "inactive"
  /\ UNCHANGED <<serverActive, otherMaster>>

-----------------------------------------------------------------------------
(* ActiveClient *)

RegisterSync ==
  /\ pc = "active" /\ "process" \in boxes
  /\ cb' = [cb EXCEPT !["sync"] = "live"]
  /\ UNCHANGED <<pc, opt, step, boxes, serverActive, otherMaster>>

UnregisterSync ==
  /\ pc = "active"
  /\ cb' = [cb EXCEPT !["sync"] = "null"]
  /\ UNCHANGED <<pc, opt, step, boxes, serverActive, otherMaster>>

AcquireTimebase(force) ==
  /\ pc = "active" /\ "process" \in boxes
  /\ TimebaseGranted(force)
  /\ cb' = [cb EXCEPT !["timebase"] = "live"]
  /\ otherMaster' = FALSE
  /\ UNCHANGED <<pc, opt, step, boxes, serverActive>>

ReleaseTimebase ==
  /\ pc = "active"
  /\ cb' = ReleasedTimebase(cb)
  /\ UNCHANGED <<pc, opt, step, boxes, serverActive, otherMaster>>

(* The timebase is released before jack_deactivate is tried, and stays so   *)
(* when that fails and the caller keeps an active client.                   *)
DeactivateFails ==
  /\ pc = "active"
  /\ cb' = ReleasedTimebase(cb)
  /\ UNCHANGED <<pc, opt, step, boxes, serverActive, otherMaster>>

DeactivateKeepsTimebase ==      \* fault: the timebase is not released
  /\ pc = "active"
  /\ serverActive' = FALSE
  /\ cb' = Freed(cb, boxes)
  /\ boxes' = {}
  /\ opt' = NoOptions
  /\ pc' = "deactivated"
  /\ UNCHANGED <<step, otherMaster>>

Deactivate ==
  /\ pc = "active"
  /\ serverActive' = FALSE
  /\ cb' = Freed(ReleasedTimebase(cb), boxes)
  /\ boxes' = {}
  /\ opt' = NoOptions
  /\ pc' = "deactivated"
  /\ UNCHANGED <<step, otherMaster>>

(* Dropping any of the values: jack_client_close comes first, then, for an  *)
(* ActiveClient, the boxes.                                                 *)
Close ==
  /\ pc \in {"inactive", "active", "deactivated"}
  /\ serverActive' = FALSE
  /\ cb' = [k \in Kinds |-> "null"]
  /\ boxes' = {}
  /\ opt' = NoOptions
  /\ pc' = "closed"
  /\ UNCHANGED <<step, otherMaster>>

-----------------------------------------------------------------------------
(* Another client takes the timebase with a forced request, or gives it up. *)

OtherTakesTimebase ==
  /\ pc # "closed" /\ ~otherMaster
  /\ otherMaster' = TRUE
  /\ cb' = ReleasedTimebase(cb)
  /\ UNCHANGED <<pc, opt, step, boxes, serverActive>>

OtherReleasesTimebase ==
  /\ pc # "closed" /\ otherMaster
  /\ otherMaster' = FALSE
  /\ UNCHANGED <<pc, opt, step, cb, boxes, serverActive>>

Terminated == pc = "closed" /\ UNCHANGED vars

Next ==
  \/ \E o \in Options : Activate(o)
  \/ Install
  \/ InstallRefused
  \/ \E ok \in BOOLEAN : JackActivate(ok)
  \/ GiveBack
  \/ RegisterSync
  \/ UnregisterSync
  \/ \E force \in BOOLEAN : AcquireTimebase(force)
  \/ ReleaseTimebase
  \/ DeactivateFails
  \/ Deactivate
  \/ Close
  \/ OtherTakesTimebase
  \/ OtherReleasesTimebase
  \/ Terminated

Spec == Init /\ [][Next]_vars

-----------------------------------------------------------------------------
(* While callbacks may run, those every activation sets lead to the         *)
(* handlers of this activation, or nowhere if it has none: never to the box *)
(* of an earlier, failed attempt.                                           *)
OwnHandlersCalled ==
  serverActive =>
    \A k \in Elems(ProcessKinds) \cup Elems(NotifyKinds) :
      /\ cb[k] = Pointer(BoxOf(k) \in boxes)
      /\ Wanted(opt, k) <=> BoxOf(k) \in boxes

(* The only entries an active client can have left over from a failed       *)
(* attempt are `latency' and `sync', and only if activated without the      *)
(* handler they belong to (client.rs:857-873).                              *)
LeftoversOnlyWithoutHandler ==
  serverActive =>
    \A k \in Kinds : cb[k] = "freed" =>
      \/ k = "latency" /\ ~opt.notify
      \/ k = "sync" /\ ~opt.process

(* The timebase entry never outlives ProcessData, every path that drops the *)
(* box gives it up first; and there is one master among all clients.        *)
TimebaseOwned ==
  cb["timebase"] # "null" =>
    cb["timebase"] = "live" /\ "process" \in boxes /\ ~otherMaster

(* A binding that is "safe" (README.md:3) never lets the server call into   *)
(* a box that was freed.                                                    *)
NoFreedCallback == serverActive => \A k \in Kinds : cb[k] # "freed"

-----------------------------------------------------------------------------
(* The inductive invariant behind the safety properties: what exists, what  *)
(* points to it, and how far the plan of the attempt in progress has come.  *)

(* The callbacks every activation sets. *)
Always == Elems(ProcessKinds) \cup Elems(NotifyKinds)

(* Boxes exist from the attempt that allocated them until the handlers are  *)
(* given back; NotificationData is allocated with the third callback.       *)
BoxesExact ==
  boxes = (IF opt.process THEN {"process"} ELSE {})
            \cup (IF opt.notify /\ (pc = "active" \/ step > 3) THEN {"notify"} ELSE {})

(* A live pointer leads to a box that exists. *)
LiveOwned == \A k \in Kinds : cb[k] = "live" => BoxOf(k) \in boxes

(* The steps of the plan that were taken have had their effect.  Only the   *)
(* timebase may be lost again, to another client.                           *)
InstalledSoFar ==
  pc = "installing" =>
    /\ step <= Len(Plan(opt)) + 1
    /\ \A i \in 1..(step - 1) :
         LET k == Plan(opt)[i] IN k # "timebase" => cb[k] = Pointer(Wanted(opt, k))

ActiveExact ==
  pc = "active" =>
    /\ \A k \in Always : cb[k] = Pointer(Wanted(opt, k))
    /\ opt.notify => cb["latency"] # "freed"
    /\ opt.process => cb["sync"] # "freed"

TimebaseExact ==
  /\ cb["timebase"] # "freed"
  /\ cb["timebase"] = "live" => ~otherMaster /\ (pc = "active" \/ opt.timebase)

ActInv ==
  /\ TypeOK
  /\ serverActive => pc = "active"
  /\ pc \in {"inactive", "deactivated", "closed"} => opt = NoOptions
  /\ BoxesExact
  /\ LiveOwned
  /\ InstalledSoFar
  /\ ActiveExact
  /\ TimebaseExact

=============================================================================
