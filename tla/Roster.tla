------------------------------- MODULE Roster -------------------------------
(***************************************************************************)
(* The tracked devices as configuration: the tables devices and probes     *)
(* (internal/store/store.go), the requests that edit them                  *)
(* (internal/server/api.go), and the name resolutions that run beside them *)
(* (internal/server/scan.go, internal/naming).                             *)
(*                                                                         *)
(* One action is one critical section of store.mu.  The MAC is the key;    *)
(* vendor, link, notes and the time stamps are left out, and so are the    *)
(* presence scalars and the copy in memory (module Presence).              *)
(***************************************************************************)
EXTENDS Integers, FiniteSets

CONSTANTS
    Dev,        \* MACs
    Addr,       \* IP addresses
    Typed,      \* names that users type
    Answer,     \* names that rDNS or NetBIOS answer
    Empty,      \* the empty string, as an address, a name or a name source
    Port,       \* ports of TCP probes
    Client,     \* concurrent requests that edit the roster
    Resolution, \* concurrent name resolutions
    MaxFaults   \* bound on crashes and failed store calls

ASSUME NamesAssumption ==
    /\ Empty \notin Addr \cup Typed \cup Answer \cup {"manual", "resolved"}
    /\ Addr \cap (Typed \cup Answer) = {} /\ Typed \cap Answer = {}
ASSUME FaultsAssumption == MaxFaults \in Nat

VARIABLES
    devices,    \* table devices
    probes,     \* table probes
    req,        \* where each track request stands
    resolve,    \* where each resolution stands
    faults,     \* crashes and failed store calls so far
    orphans,    \* history: probes asked for while their device had no row
    overtaken   \* history: resolutions that could not read the row they name, or
                \* read it before its name was last marked as the user's

auxVars == <<faults, orphans, overtaken>>
vars == <<devices, probes, req, resolve, faults, orphans, overtaken>>

-----------------------------------------------------------------------------
IP == Addr \cup {Empty}
Name == Addr \cup Typed \cup Answer \cup {Empty}
Source == {Empty, "manual", "resolved"}
Row == [ip : IP, name : Name, source : Source]

Resting == [pc |-> "idle"]
Fault == faults < MaxFaults /\ faults' = faults + 1

ProbesOf(m) == {p \in probes : p[1] = m}

\* The resolutions of m that are between their read and their write.
Holding(m) == {r \in Resolution : resolve[r].pc = "write" /\ resolve[r].mac = m}

-----------------------------------------------------------------------------
\* Store calls.

\* Store.Add: a row that is there gets the address, and the name if it has none.
AddRow(m, ip, name) ==
    LET given == IF name = Empty THEN ip ELSE name
    IN  devices' = [k \in DOMAIN devices \cup {m} |->
                      IF k # m THEN devices[k]
                      ELSE IF m \notin DOMAIN devices
                        THEN [ip |-> ip, name |-> given, source |-> Empty]
                      ELSE [devices[m] EXCEPT !.ip = ip,
                              !.name = IF @ = Empty THEN given ELSE @]]

\* Store.Patch, given the row as patched; a MAC without a row matches none.
PatchRow(m, row) ==
    devices' = [k \in DOMAIN devices |-> IF k = m THEN row ELSE devices[k]]

-----------------------------------------------------------------------------
\* Resolutions.

Start(r, m, ip) == resolve' = [resolve EXCEPT ![r] = [pc |-> "ask", mac |-> m, ip |-> ip]]

\* POST /api/devices/{mac}/resolve: Get for the address; an unknown MAC is a 404.
handleResolve(r, m) ==
    /\ resolve[r] = Resting
    /\ m \in DOMAIN devices
    /\ Start(r, m, devices[m].ip)
    /\ UNCHANGED <<devices, probes, req, auxVars>>

\* Resolve: rDNS, then NetBIOS; no address, no question; either may stay silent.
Resolved(ip) == IF ip = Empty THEN {Empty} ELSE Answer \cup {Empty}

\* Mutant: the row is not asked where its name comes from.
MayNameAlways(m) == TRUE

\* applyResolve's condition on the row it has just read.
MayName(m) == m \in DOMAIN devices => devices[m].source # "manual"

\* Mutant: an empty answer is written like any other.
AnsweredBlank(r, name, may) ==
    resolve' = [resolve EXCEPT ![r] =
                  IF may THEN [pc |-> "write", mac |-> @.mac, name |-> name]
                  ELSE Resting]

\* Without a name only the vendor is written.
Answered(r, name, may) ==
    resolve' = [resolve EXCEPT ![r] =
                  IF name # Empty /\ may
                    THEN [pc |-> "write", mac |-> @.mac, name |-> name]
                    ELSE Resting]

ResolveRead(r) ==
    /\ resolve[r].pc = "ask"
    /\ \E name \in Resolved(resolve[r].ip) : Answered(r, name, MayName(resolve[r].mac))
    /\ overtaken' = overtaken \ {r}
    /\ UNCHANGED <<devices, probes, req, faults, orphans>>

\* The error of Get is dropped: the row counts as absent, whose name may be written.
ResolveReadFails(r) ==
    /\ resolve[r].pc = "ask" /\ Fault
    /\ \E name \in Resolved(resolve[r].ip) : Answered(r, name, TRUE)
    /\ overtaken' = overtaken \cup {r}
    /\ UNCHANGED <<devices, probes, req, orphans>>

ResolveWrite(r) ==
    /\ resolve[r].pc = "write"
    /\ LET m == resolve[r].mac
       IN  PatchRow(m, [devices[m] EXCEPT !.name = resolve[r].name, !.source = "resolved"])
    /\ resolve' = [resolve EXCEPT ![r] = Resting]
    /\ UNCHANGED <<probes, req, auxVars>>

ResolveWriteFails(r) ==
    /\ resolve[r].pc = "write" /\ Fault
    /\ resolve' = [resolve EXCEPT ![r] = Resting]
    /\ UNCHANGED <<devices, probes, req, orphans, overtaken>>

-----------------------------------------------------------------------------
\* POST /api/devices.  A name typed by hand is marked by a second store call, and
\* a device with an address is resolved in the background when both are done.

Respond(c, m, ip) ==
    /\ req' = [req EXCEPT ![c] = Resting]
    /\ IF ip = Empty THEN UNCHANGED resolve
       ELSE \E r \in Resolution : resolve[r] = Resting /\ Start(r, m, ip)

Track(c, m, ip, name, manual) ==
    /\ req[c] = Resting
    /\ AddRow(m, ip, name)
    /\ IF manual /\ name # Empty
         THEN /\ req' = [req EXCEPT ![c] = [pc |-> "mark", mac |-> m, ip |-> ip]]
              /\ UNCHANGED resolve
         ELSE Respond(c, m, ip)
    /\ UNCHANGED <<probes, auxVars>>

MarkManual(c) ==
    /\ req[c].pc = "mark"
    /\ PatchRow(req[c].mac, [devices[req[c].mac] EXCEPT !.source = "manual"])
    /\ Respond(c, req[c].mac, req[c].ip)
    /\ overtaken' = overtaken \cup Holding(req[c].mac)
    /\ UNCHANGED <<probes, faults, orphans>>

\* Its error is dropped.
MarkManualFails(c) ==
    /\ req[c].pc = "mark" /\ Fault
    /\ Respond(c, req[c].mac, req[c].ip)
    /\ UNCHANGED <<devices, probes, orphans, overtaken>>

-----------------------------------------------------------------------------
\* PATCH /api/devices/{mac}, one store call: a name comes with its source.

\* Mutant: the name is patched without its source.
RenameOnly(m, name) == PatchRow(m, [devices[m] EXCEPT !.name = name])

Rename(m, name) == PatchRow(m, [devices[m] EXCEPT !.name = name, !.source = "manual"])

PatchName(m, name) ==
    /\ Rename(m, name)
    /\ overtaken' = overtaken \cup Holding(m)
    /\ UNCHANGED <<probes, req, resolve, faults, orphans>>

\* A PATCH of the address alone, or a Flush that carries an ARP move.
PatchIP(m, ip) ==
    /\ PatchRow(m, [devices[m] EXCEPT !.ip = ip])
    /\ UNCHANGED <<probes, req, resolve, auxVars>>

\* DELETE /api/devices/{mac}: the probes, the history, the row.
Untrack(m) ==
    /\ devices' = [k \in DOMAIN devices \ {m} |-> devices[k]]
    /\ probes' = probes \ ProbesOf(m)
    /\ orphans' = orphans \ ProbesOf(m)
    /\ UNCHANGED <<req, resolve, faults, overtaken>>

\* Mutant: the row goes first.
UntrackRowFirst(m) ==
    /\ Fault
    /\ devices' = [k \in DOMAIN devices \ {m} |-> devices[k]]
    /\ UNCHANGED <<probes, req, resolve, orphans, overtaken>>

\* The three statements share no transaction: one fails and the others stay out.
UntrackStops(m) ==
    /\ Fault
    /\ probes' = probes \ ProbesOf(m)
    /\ orphans' = orphans \ ProbesOf(m)
    /\ UNCHANGED <<devices, req, resolve, overtaken>>

\* POST and DELETE /api/devices/{mac}/probes: nobody asks for the row.
AddProbe(m, p) ==
    /\ probes' = probes \cup {<<m, p>>}
    /\ orphans' = IF m \in DOMAIN devices THEN orphans ELSE orphans \cup {<<m, p>>}
    /\ UNCHANGED <<devices, req, resolve, faults, overtaken>>

DeleteProbe(m, p) ==
    /\ probes' = probes \ {<<m, p>>}
    /\ orphans' = orphans \ {<<m, p>>}
    /\ UNCHANGED <<devices, req, resolve, faults, overtaken>>

Crash ==
    /\ Fault
    /\ req' = [c \in Client |-> Resting]
    /\ resolve' = [r \in Resolution |-> Resting]
    /\ overtaken' = {}
    /\ UNCHANGED <<devices, probes, orphans>>

-----------------------------------------------------------------------------
Init ==
    /\ devices = [m \in {} |-> Resting]
    /\ probes = {} /\ orphans = {}
    /\ req = [c \in Client |-> Resting]
    /\ resolve = [r \in Resolution |-> Resting]
    /\ overtaken = {}
    /\ faults = 0

Resolver(r) ==
    \/ \E m \in Dev : handleResolve(r, m)
    \/ ResolveRead(r) \/ ResolveReadFails(r) \/ ResolveWrite(r) \/ ResolveWriteFails(r)

Tracker(c) ==
    \/ \E m \in Dev, ip \in IP, name \in Name \ Addr, manual \in BOOLEAN :
         Track(c, m, ip, name, manual)
    \/ MarkManual(c) \/ MarkManualFails(c)

Editor(m) ==
    \/ \E name \in Typed \cup {Empty} : PatchName(m, name)
    \/ \E ip \in IP : PatchIP(m, ip)
    \/ Untrack(m) \/ UntrackStops(m)
    \/ \E p \in Port : AddProbe(m, p) \/ DeleteProbe(m, p)

Next ==
    \/ \E r \in Resolution : Resolver(r)
    \/ \E c \in Client : Tracker(c)
    \/ \E m \in Dev : Editor(m)
    \/ Crash

Spec == Init /\ [][Next]_vars

-----------------------------------------------------------------------------
\* Every table and every goroutine holds what it can hold, and a resolution
\* about to write has a name that a resolver gave (applyResolve).
TypeOK ==
    /\ DOMAIN devices \subseteq Dev /\ \A m \in DOMAIN devices : devices[m] \in Row
    /\ probes \subseteq Dev \X Port
    /\ req \in [Client -> {Resting} \cup [pc : {"mark"}, mac : Dev, ip : IP]]
    /\ resolve \in [Resolution -> {Resting} \cup [pc : {"ask"}, mac : Dev, ip : IP]
                                  \cup [pc : {"write"}, mac : Dev, name : Answer]]
    /\ faults \in 0 .. MaxFaults

\* A row that counts as resolved carries a resolver's name: whatever requests and
\* resolutions meet on it, and whichever of their calls fail, no typed name and no
\* address is left under that mark (applyResolve, handlePatchDevice, Store.Add).
\* The other marks promise less: a name typed while tracking can miss its mark, and
\* the mark can land on a name that a resolver gave (MarkManual, MarkManualFails).
ResolvedMarkIsEarned ==
    \A m \in DOMAIN devices :
        devices[m].source = "resolved" => devices[m].name \in Answer

\* A name that counts as the user's is replaced by his next PATCH alone, and not
\* by tracking the device again; only a resolution that could not read the row or
\* read it before the mark overwrites it (Store.Add, applyResolve).
ManualNameStands ==
    [][\A m \in DOMAIN devices \cap DOMAIN devices' :
          /\ devices[m].source = "manual" /\ devices[m].name # Empty
          /\ devices'[m].name # devices[m].name
          => \/ \E name \in Name : Rename(m, name)
             \/ \E r \in overtaken : resolve[r].pc = "write" /\ resolve[r].mac = m]_vars

\* A probe without a device is one that was asked for when there was none:
\* untracking takes every probe with it even when it stops half way, for the
\* row goes last (Store.Delete, Store.AddProbe).
OrphansWereAskedFor == \A p \in probes : p[1] \in DOMAIN devices \/ p \in orphans

\* A resolution that is about to write over a name the user has marked read the
\* row before the mark, or not at all: what makes ManualNameStands inductive.
MarkInv ==
    \A r \in Resolution :
        /\ resolve[r].pc = "write"
        /\ resolve[r].mac \in DOMAIN devices
        /\ devices[resolve[r].mac].source = "manual"
        => r \in overtaken

\* What scan.go:139 says of applyResolve: it writes without clobbering a manual name.
ResolveKeepsManualName ==
    [][\A r \in Resolution :
          ResolveWrite(r) =>
            \A m \in DOMAIN devices :
                devices[m].source = "manual" => devices'[m] = devices[m]]_vars
=============================================================================
