------------------------------ MODULE ClientBuild ------------------------------
(***************************************************************************)
(* Threads of the program that build clients, or otherwise need the JACK   *)
(* library, at the same time (src/src/sys.rs, ClientBuilder::build).       *)
(* weak_library() caches its result in a once-cell; library() has a cell   *)
(* of its own, filled from the first, and panics when that holds an error; *)
(* build() installs the two log functions under a Once.  A cell or Once    *)
(* that is being filled makes every other thread wait.  A panic while it   *)
(* is being filled empties a cell again but poisons a Once.                *)
(***************************************************************************)
EXTENDS Naturals, FiniteSets

CONSTANTS
  Threads,
  MaxCalls      \* bound on the calls of one thread

Nobody == "nobody"
ASSUME ThreadsAssumption == Nobody \notin Threads /\ MaxCalls \in Nat

VARIABLES
  weak,      \* LIBRARY of weak_library(): "empty", or what Jack::new gave
  weakBy,    \* thread that is filling it
  lib,       \* LIBRARY of library(): "empty" or "set"
  libBy,     \* thread that is filling it
  log,       \* JACK_LOG: "new", "done", "poisoned"
  logBy,     \* thread inside call_once
  loads,     \* how often the shared library was loaded
  hooks,     \* how often the log functions were installed
  pc,        \* step of each thread
  calls,     \* calls of each thread so far
  answer     \* what the last finished call of each thread came to

cells == <<weak, weakBy, lib, libBy, log, logBy, loads, hooks>>
vars == <<cells, pc, calls, answer>>

(* Jack::new: the library, one that lacks the log functions, or an error. *)
Loaded == {"ok", "partial", "error"}
Answers == {"none", "library", "client", "error", "panic"}
PCs == {"idle", "weak", "load", "log", "install", "open", "lib", "libWeak", "libLoad"}

BuildTypeOK ==
  /\ weak \in {"empty"} \cup Loaded /\ weakBy \in Threads \cup {Nobody}
  /\ lib \in {"empty", "set"} /\ libBy \in Threads \cup {Nobody}
  /\ log \in {"new", "done", "poisoned"} /\ logBy \in Threads \cup {Nobody}
  /\ loads \in Nat /\ hooks \in Nat
  /\ pc \in [Threads -> PCs]
  /\ calls \in [Threads -> 0..MaxCalls]
  /\ answer \in [Threads -> Answers]

Init ==
  /\ weak = "empty" /\ weakBy = Nobody
  /\ lib = "empty" /\ libBy = Nobody
  /\ log = "new" /\ logBy = Nobody
  /\ loads = 0 /\ hooks = 0
  /\ pc = [t \in Threads |-> "idle"]
  /\ calls = [t \in Threads |-> 0]
  /\ answer = [t \in Threads |-> "none"]

-----------------------------------------------------------------------------
Goto(t, l) == pc' = [pc EXCEPT ![t] = l] /\ UNCHANGED <<calls, answer>>

Return(t, a) ==
  /\ pc' = [pc EXCEPT ![t] = "idle"]
  /\ answer' = [answer EXCEPT ![t] = a]
  /\ UNCHANGED calls

(* A call of build() begins with weak_library(), one of library() with its  *)
(* own cell.                                                                *)
Call(t) ==
  /\ pc[t] = "idle" /\ calls[t] < MaxCalls
  /\ pc' \in {[pc EXCEPT ![t] = l] : l \in {"weak", "lib"}}
  /\ calls' = [calls EXCEPT ![t] = @ + 1]
  /\ answer' = [answer EXCEPT ![t] = "none"]
  /\ UNCHANGED cells

UseWeakKeepsCell(t, result) ==  \* fault: a panic leaves the cell occupied
  IF pc[t] \in {"weak", "load"}
    THEN /\ IF result = "error" THEN Return(t, "error") ELSE Goto(t, "log")
         /\ UNCHANGED <<lib, libBy>>
    ELSE IF result = "error"
           THEN Return(t, "panic") /\ UNCHANGED <<lib, libBy>>
           ELSE Return(t, "library") /\ lib' = "set" /\ libBy' = Nobody

(* What a thread does with the cached result of weak_library(). *)
UseWeak(t, result) ==
  IF pc[t] \in {"weak", "load"}
    THEN /\ IF result = "error" THEN Return(t, "error") ELSE Goto(t, "log")
         /\ UNCHANGED <<lib, libBy>>
    ELSE /\ libBy' = Nobody
         /\ IF result = "error"
              THEN Return(t, "panic") /\ lib' = lib
              ELSE Return(t, "library") /\ lib' = "set"

WeakCellRaces(t) ==             \* fault: a cell that does not make others wait
  /\ pc[t] \in {"weak", "libWeak"} /\ weak = "empty"
  /\ weakBy' = t
  /\ Goto(t, IF pc[t] = "weak" THEN "load" ELSE "libLoad")
  /\ UNCHANGED <<weak, lib, libBy, log, logBy, loads, hooks>>

(* get_or_init: the first thread to come fills the cell, *)
FillWeak(t) ==
  /\ pc[t] \in {"weak", "libWeak"} /\ weak = "empty" /\ weakBy = Nobody
  /\ weakBy' = t
  /\ Goto(t, IF pc[t] = "weak" THEN "load" ELSE "libLoad")
  /\ UNCHANGED <<weak, lib, libBy, log, logBy, loads, hooks>>

(* the others wait for it and read what is there. *)
ReadWeak(t) ==
  /\ pc[t] \in {"weak", "libWeak"} /\ weak # "empty"
  /\ UseWeak(t, weak)
  /\ UNCHANGED <<weak, weakBy, log, logBy, loads, hooks>>

(* Jack::new(LIB_NAME): an error is kept like a success. *)
Load(t) ==
  /\ pc[t] \in {"load", "libLoad"}
  /\ \E result \in Loaded : weak' = result /\ UseWeak(t, result)
  /\ weakBy' = Nobody
  /\ loads' = loads + 1
  /\ UNCHANGED <<log, logBy, hooks>>

FillLib(t) ==
  /\ pc[t] = "lib" /\ lib = "empty" /\ libBy = Nobody
  /\ libBy' = t
  /\ Goto(t, "libWeak")
  /\ UNCHANGED <<weak, weakBy, lib, log, logBy, loads, hooks>>

ReadLib(t) ==
  /\ pc[t] = "lib" /\ lib = "set"
  /\ Return(t, "library")
  /\ UNCHANGED cells

(* JACK_LOG.call_once *)
EnterOnce(t) ==
  /\ pc[t] = "log" /\ log = "new" /\ logBy = Nobody
  /\ logBy' = t
  /\ Goto(t, "install")
  /\ UNCHANGED <<weak, weakBy, lib, libBy, log, loads, hooks>>

PassOnceEarly(t) ==             \* fault: a flag in place of the Once
  /\ pc[t] = "log" /\ (log # "new" \/ logBy # Nobody)
  /\ IF log = "poisoned" THEN Return(t, "panic") ELSE Goto(t, "open")
  /\ UNCHANGED cells

PassOnce(t) ==
  /\ pc[t] = "log" /\ log # "new"
  /\ IF log = "poisoned" THEN Return(t, "panic") ELSE Goto(t, "open")
  /\ UNCHANGED cells

(* The log functions are called without a look at whether they exist. *)
Install(t) ==
  /\ pc[t] = "install"
  /\ IF weak = "ok"
       THEN log' = "done" /\ hooks' = hooks + 1 /\ Goto(t, "open")
       ELSE log' = "poisoned" /\ hooks' = hooks /\ Return(t, "panic")
  /\ logBy' = Nobody
  /\ UNCHANGED <<weak, weakBy, lib, libBy, loads>>

(* A name with a nul byte, a missing jack_client_open and a server that     *)
(* refuses are errors.                                                      *)
Open(t) ==
  /\ pc[t] = "open"
  /\ \E a \in {"client", "error"} : Return(t, a)
  /\ UNCHANGED cells

Step(t) ==
  \/ FillWeak(t) \/ ReadWeak(t) \/ Load(t)
  \/ FillLib(t) \/ ReadLib(t)
  \/ EnterOnce(t) \/ PassOnce(t) \/ Install(t)
  \/ Open(t)

(* When a thread in a call is not waiting for another one to fill a cell or *)
(* to pass the Once.                                                        *)
CanStep(t) ==
  \/ pc[t] \in {"load", "libLoad", "install", "open"}
  \/ pc[t] \in {"weak", "libWeak"} /\ (weak # "empty" \/ weakBy = Nobody)
  \/ pc[t] = "lib" /\ (lib = "set" \/ libBy = Nobody)
  \/ pc[t] = "log" /\ (log # "new" \/ logBy = Nobody)

(* The call a step belongs to. *)
CallKind(step) ==
  CASE step = "idle" -> "nothing"
    [] step \in {"lib", "libWeak", "libLoad"} -> "library"
    [] OTHER -> "build"

Next == \E t \in Threads : Call(t) \/ Step(t)

Spec == Init /\ [][Next]_vars

(* A thread that can go on does. *)
FairSpec == Spec /\ \A t \in Threads : WF_vars(Step(t))

-----------------------------------------------------------------------------
(* Who holds a cell is the thread that is filling it, and only that; a cell *)
(* is filled from what the other one holds (sys.rs:52-53, 61-62).           *)
CellInv ==
  /\ BuildTypeOK
  /\ \A t \in Threads :
       /\ (weakBy = t) <=> pc[t] \in {"load", "libLoad"}
       /\ (libBy = t) <=> pc[t] \in {"libWeak", "libLoad"}
       /\ (logBy = t) <=> pc[t] = "install"
       /\ pc[t] \in {"log", "install", "open"} => weak \in {"ok", "partial"}
       /\ pc[t] = "open" => log = "done"
  /\ weakBy # Nobody => weak = "empty"
  /\ libBy # Nobody => lib = "empty"
  /\ logBy # Nobody => log = "new"
  /\ loads = IF weak = "empty" THEN 0 ELSE 1
  /\ hooks = IF log = "done" THEN 1 ELSE 0
  /\ log = "done" => weak = "ok"
  /\ log = "poisoned" => weak = "partial"
  /\ lib = "set" => weak \in {"ok", "partial"}

(* However many threads ask first, the shared library is loaded once, a     *)
(* failure included (sys.rs:34-35).                                         *)
LoadedOnce == loads <= 1

(* Whoever opens a client does so with the log functions installed, and     *)
(* they are installed once (client.rs:144-165).                             *)
HooksBeforeOpen ==
  /\ hooks <= 1
  /\ \A t \in Threads : pc[t] = "open" \/ answer[t] = "client" => hooks = 1

(* All calls, earlier or later, build on the same result of loading: never  *)
(* a client or library next to a failure to load.                           *)
SameAnswer ==
  \A t \in Threads :
    /\ answer[t] \in {"client", "library"} => weak \in {"ok", "partial"}
    /\ answer[t] = "panic" => weak \in {"partial", "error"}

(* A cached result never changes (sys.rs:34-35).                            *)
CacheFinal == [][weak # "empty" => weak' = weak]_vars

(* Seen from outside, loading is decided once and every call, of build() or *)
(* library(), answers accordingly, as LibraryOnce says (sys.rs:30-63).      *)
LO == INSTANCE LibraryOnce WITH
        value <- weak,
        asked <- [t \in Threads |-> CallKind(pc[t])]

ImplementsLibraryOnce == LO!Spec

(* As long as a call has not returned some thread can go on: nobody waits   *)
(* in a circle for the two cells and the Once, nor for a thread that left   *)
(* one of them occupied (sys.rs:52-62, client.rs:145).                      *)
NobodyStuck ==
  (\E t \in Threads : pc[t] # "idle") => \E u \in Threads : CanStep(u)

(* No caller waits for ever, whoever else panicked while filling a cell.    *)
EveryCallReturns == \A t \in Threads : pc[t] # "idle" ~> pc[t] = "idle"

=============================================================================
