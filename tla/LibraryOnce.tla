----------------------------- MODULE LibraryOnce -----------------------------
(***************************************************************************)
(* What threads are promised about the JACK library, however they race     *)
(* (src/src/sys.rs:30-63, ClientBuilder::build): what loading gave is      *)
(* decided once, and every call, before or after, comes to what that       *)
(* decision says.  No cells, no Once, nobody waits: those are ClientBuild's. *)
(***************************************************************************)
CONSTANT Threads

VARIABLES
  value,    \* "empty", or what loading the library gave, once and for all
  asked,    \* the call each thread is in
  answer    \* what the last finished call of each thread came to

vars == <<value, asked, answer>>

Loaded == {"ok", "partial", "error"}
CallKinds == {"build", "library"}

(* What a call comes to, given the library: one that lacks the log          *)
(* functions is good enough for library(), but build() panics; only a       *)
(* library that is complete lets the server decide (sys.rs:61-62,           *)
(* client.rs:143-184).                                                      *)
Outcomes ==
  [build   |-> [ok |-> {"client", "error"}, partial |-> {"panic"},   error |-> {"error"}],
   library |-> [ok |-> {"library"},         partial |-> {"library"}, error |-> {"panic"}]]

Init ==
  /\ value = "empty"
  /\ asked = [t \in Threads |-> "nothing"]
  /\ answer = [t \in Threads |-> "none"]

Ask(t) ==
  /\ asked[t] = "nothing"
  /\ \E k \in CallKinds : asked' = [asked EXCEPT ![t] = k]
  /\ answer' = [answer EXCEPT ![t] = "none"]
  /\ value' = value

(* The library is loaded on behalf of some call. *)
Decide ==
  /\ value = "empty"
  /\ value' \in Loaded
  /\ UNCHANGED <<asked, answer>>

(* A call returns; it may be the one that loaded the library. *)
Answer(t) ==
  /\ asked[t] # "nothing"
  /\ value' \in Loaded /\ value \in {"empty", value'}
  /\ \E a \in Outcomes[asked[t]][value'] : answer' = [answer EXCEPT ![t] = a]
  /\ asked' = [asked EXCEPT ![t] = "nothing"]

Next ==
  \/ \E t \in Threads : Ask(t) \/ Answer(t)
  \/ (\E t \in Threads : asked[t] # "nothing") /\ Decide

Spec == Init /\ [][Next]_vars

=============================================================================
