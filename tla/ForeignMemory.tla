----------------------------- MODULE ForeignMemory -----------------------------
(***************************************************************************)
(* Memory that crosses the C boundary outside of the process thread:       *)
(* strings, property descriptions and arrays of names the server allocates *)
(* and the crate must free once (JackStr, Uuid::from_raw in lib.rs,        *)
(* properties.rs, PortList in port.rs).  An address stands for one         *)
(* allocation, a description for the block and strings that                *)
(* jack_free_description releases together.  The values are Send: one      *)
(* thread may drop them while another makes a call.  One string is lent    *)
(* and not allocated for the caller: the server's name of the client.      *)
(***************************************************************************)
EXTENDS Naturals, FiniteSets

CONSTANTS
  Addrs,        \* addresses the server allocates from
  ClientName,   \* address of the client's name, which the server keeps
  MaxNames      \* longest list of names

Null == "null"
ASSUME AddrsAssumption ==
  Null \notin Addrs /\ ClientName \notin Addrs /\ MaxNames \in Nat

VARIABLES
  live,         \* allocations of the server not freed yet
  call,         \* call in progress: see Calls
  strs,         \* what the JackStr values of the call point to
  array, names, \* PortList of the call: its array, and how many names it has
  at,           \* element of the array to_vec reads next
  descs,        \* PropertyDescription values alive
  lists,        \* PropertyDescriptionList values alive
  dropping,     \* list being dropped, with the elements still to free
  leaked,       \* allocations no value owns any more
  wrong         \* what was freed though no allocation of the caller's was there

callVars == <<call, strs, array, names, at>>
valueVars == <<descs, lists, dropping>>
vars == <<live, callVars, valueVars, leaked, wrong>>

Calls == {"idle", "strings", "uuid", "names", "crashed"}

List == [array : Addrs, elems : SUBSET Addrs]
NoList == [array |-> Null, elems |-> {}]

MemTypeOK ==
  /\ live \subseteq Addrs
  /\ call \in Calls
  /\ strs \subseteq Addrs \cup {ClientName}
  /\ array \in Addrs \cup {Null} /\ names \in 0..MaxNames /\ at \in 0..MaxNames
  /\ descs \subseteq Addrs
  /\ lists \subseteq List
  /\ dropping \in List \cup {NoList}
  /\ leaked \subseteq Addrs
  /\ wrong \subseteq Addrs \cup {ClientName}

Init ==
  /\ live = {} /\ call = "idle" /\ strs = {}
  /\ array = Null /\ names = 0 /\ at = 0
  /\ descs = {} /\ lists = {} /\ dropping = NoList
  /\ leaked = {} /\ wrong = {}

Fresh == Addrs \ live

(* jack_free, jack_free_description.  What the allocator makes of an        *)
(* address it did not hand out is undefined; here it goes on unharmed.      *)
Free(a) ==
  /\ live' = live \ {a}
  /\ wrong' = wrong \cup ({a} \ live)

-----------------------------------------------------------------------------
(* property() gets a value and perhaps a type, client_name_by_uuid() a name *)
(* or null; each is copied and freed by the drop of its JackStr.  A call    *)
(* that fails has allocated nothing and ends at once.                       *)
StringsCall(S) ==
  /\ call = "idle" /\ S \subseteq Fresh /\ Cardinality(S) \in 1..2
  /\ live' = live \cup S
  /\ strs' = S
  /\ call' = "strings"
  /\ UNCHANGED <<array, names, at, valueVars, leaked, wrong>>

(* name() puts the string it was lent into a JackStr as well. *)
NameCall ==
  /\ call = "idle"
  /\ strs' = {ClientName}
  /\ call' = "strings"
  /\ UNCHANGED <<live, array, names, at, valueVars, leaked, wrong>>

StringsDropFirst(a) ==          \* fault: the type is not freed
  /\ call = "strings" /\ a \in strs
  /\ Free(a)
  /\ strs' = {} /\ call' = "idle"
  /\ UNCHANGED <<array, names, at, valueVars, leaked>>

StringsDrop(a) ==
  /\ call = "strings" /\ a \in strs
  /\ Free(a)
  /\ strs' = strs \ {a}
  /\ call' = IF strs' = {} THEN "idle" ELSE "strings"
  /\ UNCHANGED <<array, names, at, valueVars, leaked>>

(* uuid(), uuid_for_client_name(): the string is parsed before it is freed. *)
UuidCall(a) ==
  /\ call = "idle" /\ a \in Fresh
  /\ live' = live \cup {a}
  /\ strs' = {a}
  /\ call' = "uuid"
  /\ UNCHANGED <<array, names, at, valueVars, leaked, wrong>>

UuidParsed ==
  /\ call = "uuid"
  /\ \E a \in strs : Free(a)
  /\ strs' = {} /\ call' = "idle"
  /\ UNCHANGED <<array, names, at, valueVars, leaked>>

(* unwrap() panics on a string that is no uuid, 0 included. *)
UuidPanics ==
  /\ call = "uuid"
  /\ leaked' = leaked \cup strs
  /\ strs' = {} /\ call' = "idle"
  /\ UNCHANGED <<live, array, names, at, valueVars, wrong>>

-----------------------------------------------------------------------------
(* ports(), connections(), port_get_all_connections(): null or an array of  *)
(* n names closed by a null.                                                *)
NamesCall(a, n) ==
  /\ call = "idle" /\ a \in Fresh
  /\ live' = live \cup {a}
  /\ array' = a /\ names' = n /\ at' = 0
  /\ call' = "names"
  /\ UNCHANGED <<strs, valueVars, leaked, wrong>>

(* to_vec() reads on as long as the pointer INTO the array is not null,     *)
(* which it never is.                                                       *)
ReadName ==
  /\ call = "names" /\ at < names
  /\ at' = at + 1
  /\ UNCHANGED <<live, call, strs, array, names, valueVars, leaked, wrong>>

(* Element `names', the null that ends the list, is read as a name too, and *)
(* the process ends at CStr::from_ptr(null).  Only the null list, which     *)
(* owns nothing and has no step here, gets as far as its drop.              *)
ReadNull ==
  /\ call = "names" /\ at = names
  /\ call' = "crashed"
  /\ UNCHANGED <<live, strs, array, names, at, valueVars, leaked, wrong>>

-----------------------------------------------------------------------------
(* properties() and all_properties(), which look at what the server wrote   *)
(* only after it reported success.                                          *)
PropertiesCall(a) ==
  /\ call = "idle" /\ a \in Fresh
  /\ live' = live \cup {a}
  /\ descs' = descs \cup {a}
  /\ UNCHANGED <<callVars, lists, dropping, leaked, wrong>>

DescDrop(a) ==
  /\ a \in descs
  /\ Free(a)
  /\ descs' = descs \ {a}
  /\ UNCHANGED <<callVars, lists, dropping, leaked>>

AllPropertiesCall(a, E) ==
  /\ call = "idle" /\ {a} \cup E \subseteq Fresh /\ a \notin E
  /\ live' = live \cup {a} \cup E
  /\ lists' = lists \cup {[array |-> a, elems |-> E]}
  /\ UNCHANGED <<callVars, descs, dropping, leaked, wrong>>

(* The list: every description, then the array that holds them. *)
ListDrop(l) ==
  /\ dropping = NoList /\ l \in lists
  /\ lists' = lists \ {l}
  /\ dropping' = l
  /\ UNCHANGED <<live, callVars, descs, leaked, wrong>>

ListDropElem(a) ==
  /\ a \in dropping.elems
  /\ Free(a)
  /\ dropping' = [dropping EXCEPT !.elems = @ \ {a}]
  /\ UNCHANGED <<callVars, descs, lists, leaked>>

ListDropArray ==
  /\ dropping # NoList /\ dropping.elems = {}
  /\ Free(dropping.array)
  /\ dropping' = NoList
  /\ UNCHANGED <<callVars, descs, lists, leaked>>

Step ==
  \/ \E S \in SUBSET Addrs : StringsCall(S)
  \/ \E a \in Addrs : UuidCall(a)
  \/ NameCall
  \/ \E a \in strs : StringsDrop(a)
  \/ UuidParsed \/ UuidPanics
  \/ \E a \in Addrs, n \in 0..MaxNames : NamesCall(a, n)
  \/ ReadName \/ ReadNull
  \/ \E a \in Addrs : PropertiesCall(a) \/ DescDrop(a) \/ ListDropElem(a)
  \/ \E a \in Addrs, E \in SUBSET Addrs : AllPropertiesCall(a, E)
  \/ \E l \in lists : ListDrop(l)
  \/ ListDropArray

(* A crash ends every thread. *)
Next == call # "crashed" /\ Step

Spec == Init /\ [][Next]_vars

-----------------------------------------------------------------------------
ArrayOf(l) == IF l.array = Null THEN {} ELSE {l.array}
Parts(l) == ArrayOf(l) \cup l.elems
Held == (strs \ {ClientName}) \cup (IF array = Null THEN {} ELSE {array})
InLists == UNION {Parts(l) : l \in lists}

(* Every allocation of the server has exactly one owner among the values of *)
(* the crate, until it is freed; only a panic in Uuid::from_raw loses one   *)
(* (lib.rs:159-171, 216-234; properties.rs:101-107, 139-151).               *)
OneOwnerEach ==
  /\ MemTypeOK
  /\ live = Held \cup descs \cup InLists \cup Parts(dropping) \cup leaked
  /\ Held \cap (descs \cup InLists \cup Parts(dropping) \cup leaked) = {}
  /\ descs \cap (InLists \cup Parts(dropping) \cup leaked) = {}
  /\ Parts(dropping) \cap (InLists \cup leaked) = {}
  /\ InLists \cap leaked = {}
  /\ \A l \in lists : l.array \notin l.elems
  /\ \A l, m \in lists : l # m => Parts(l) \cap Parts(m) = {}
  /\ dropping # NoList => dropping.array \notin dropping.elems

(* Nothing is freed twice, or freed that was not allocated for the caller,  *)
(* in whatever order values are dropped while a call is in progress, except *)
(* the name of the client, which name() frees (client.rs:610-614).          *)
OnlyNameIsWrong == wrong \subseteq {ClientName}

(* When every value is gone nothing is left but what panics leaked.         *)
NothingLeft ==
  call = "idle" /\ descs = {} /\ lists = {} /\ dropping = NoList => live = leaked

=============================================================================
