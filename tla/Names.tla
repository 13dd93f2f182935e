-------------------------------- MODULE Names --------------------------------
(***************************************************************************)
(* The name cache and the rounds of lookups that fill it                   *)
(* (internal/server/names.go).  Two goroutines run resolveNames: the names *)
(* loop and the end of a subnet scan; both test the cache, wait for one of *)
(* their Cap slots, ask, and store the answer, each under nameMu alone.    *)
(* The puck has one interface on the LAN, so the kernel lists an address   *)
(* once and a round has no address twice.                                  *)
(***************************************************************************)
EXTENDS Integers, FiniteSets

CONSTANTS
    Host,        \* the addresses that are asked for a name
    NoHost,      \* none of them
    Cap,         \* maxConcurrent
    LookupTime,  \* the longest a lookup takes
    TTL          \* nameTTL

ASSUME NoHostAssumption == NoHost \notin Host
ASSUME NamesAssumption ==
    IsFiniteSet(Host) /\ Cap \in Nat \ {0} /\ LookupTime \in Nat /\ TTL \in Nat \ {0}

VARIABLES
    cache,    \* nameCache: the age of each entry; TTL if too old or absent
    todo,     \* the addresses a round has not yet considered
    held,     \* the one that needs a name and waits for a slot
    asking,   \* the lookups in flight, with the time they have taken
    asked     \* history: time since the caller began to ask for the address

namesVars == <<cache, todo, held, asking, asked>>

Caller == {"loop", "scan"}

Busy(c) == todo[c] # {} \/ held[c] # NoHost \/ asking[c] # {}

needsName(h) == cache[h] >= TTL

NamesInit ==
    /\ cache = [h \in Host |-> TTL]
    /\ todo = [c \in Caller |-> {}]
    /\ held = [c \in Caller |-> NoHost]
    /\ asking = [c \in Caller |-> {}]
    /\ asked = [c \in Caller |-> [h \in Host |-> TTL]]

\* resolveNames(ips): its loop over ips, ...
resolveNames(c, ips) ==
    /\ ~Busy(c)
    /\ todo' = [todo EXCEPT ![c] = ips]
    /\ UNCHANGED <<cache, held, asking, asked>>

Consider(c, h) ==
    /\ h \in todo[c] /\ held[c] = NoHost
    /\ todo' = [todo EXCEPT ![c] = @ \ {h}]
    /\ held' = IF needsName(h) THEN [held EXCEPT ![c] = h] ELSE held
    /\ UNCHANGED <<cache, asking, asked>>

\* ... which takes a slot of sem before it starts the goroutine, ...
SlotFree(c) == held[c] # NoHost /\ Cardinality(asking[c]) < Cap
Ask(c) ==
    /\ SlotFree(c)
    /\ asking' = [asking EXCEPT ![c] = @ \cup {<<held[c], 0>>}]
    /\ asked' = [asked EXCEPT ![c][held[c]] = 0]
    /\ held' = [held EXCEPT ![c] = NoHost]
    /\ UNCHANGED <<cache, todo>>

\* Mutant: setName of the names that were found.
StoreFound(h, found) == IF found THEN [cache EXCEPT ![h] = 0] ELSE cache

\* setName
Store(h, found) == [cache EXCEPT ![h] = 0]

\* ... and that goroutine, which stores the answer whatever it is.
Answered(c, q) ==
    /\ q \in asking[c]
    /\ asking' = [asking EXCEPT ![c] = @ \ {q}]
    /\ \E found \in BOOLEAN : cache' = Store(q[1], found)
    /\ UNCHANGED <<todo, held, asked>>

Resolving(c) ==
    \/ \E h \in todo[c] : Consider(c, h)
    \/ Ask(c)
    \/ \E q \in asking[c] : Answered(c, q)
NamesMoves == \E c \in Caller : Resolving(c)

Older(n) == IF n < TTL THEN n + 1 ELSE n

\* A tick passes once no round can go on and no lookup is overdue.
NamesTick ==
    /\ \A c \in Caller : /\ ~SlotFree(c)
                         /\ todo[c] = {} \/ held[c] # NoHost
                         /\ \A q \in asking[c] : q[2] < LookupTime
    /\ cache' = [h \in Host |-> Older(cache[h])]
    /\ asking' = [c \in Caller |-> {<<q[1], q[2] + 1>> : q \in asking[c]}]
    /\ asked' = [c \in Caller |-> [h \in Host |-> Older(asked[c][h])]]
    /\ UNCHANGED <<todo, held>>

=============================================================================
