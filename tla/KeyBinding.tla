----------------------------- MODULE KeyBinding -----------------------------
(***************************************************************************)
(* What the API does with the requests of one API key before it stores     *)
(* their data: authentication and first-use binding of the machine         *)
(* (internal/service/auth.go), binding of the server name                  *)
(* (internal/api/handlers/authz.go) and the server row of the key          *)
(* (internal/store/pve.go and its PBS and Windows twins), with the         *)
(* administrators who edit, unbind, toggle and delete the key meanwhile.   *)
(*                                                                         *)
(* Every statement or transaction of a handler is a step of its own;       *)
(* handlers of other requests and administrators interleave in between.    *)
(***************************************************************************)
CONSTANTS
    Machines,       \* values of X-Machine-ID
    Names,          \* host names
    Requests,       \* handlers that may be in progress at the same time
    ServerIds       \* ids of the server table, never reused (AUTOINCREMENT)

None == "none"
\* The three tables work alike, but only windows_servers.api_key_id is a foreign key.
ServerTypes == {"proxmox", "windows"}

ASSUME BindingAssumption == None \notin Machines \cup Names \cup ServerIds

VARIABLES
    serverType,     \* the kind of server the key is used by
    keyExists, keyActive, keyMachine, keyName,    \* the row of api_keys
    owner,          \* per server id: who the row belongs to, if there is one
    legacy,         \* name and machine_id of the row that predates api_key_id
    req,            \* the requests in progress
    admin,          \* step of DeleteAPIKeyPost, with the name it read
    \* History.  A request is accepted at the statement whose result decides it.
    trusted,        \* machines accepted since the key was last unbound
    named           \* names accepted since the key's name was last cleared or edited

keyVars == <<keyExists, keyActive, keyMachine, keyName>>
history == <<trusted, named>>
vars == <<serverType, legacy, keyVars, owner, req, admin, history>>

Steps == {"idle", "bindMachine", "rereadMachine", "admitted", "bindName",
          "rereadName", "select", "legacy", "adopt", "insert"}

\* A server id has no row yet, a row without key from before rows had one, the
\* row of the key, a row whose key was deleted, or a deleted row.
Owners == {"unused", "legacy", "key", "orphan", "deleted"}
Live(s) == owner[s] \in {"legacy", "key", "orphan"}

Idle == [pc |-> "idle", machine |-> None, name |-> None, seenName |-> None, target |-> None]
RequestStates ==
    {Idle} \cup [pc : Steps \ {"idle"}, machine : Machines, name : Names,
                seenName : Names \cup {None}, target : ServerIds \cup {None}]

TypeOK ==
    /\ serverType \in ServerTypes
    /\ keyExists \in BOOLEAN /\ keyActive \in BOOLEAN
    /\ keyMachine \in Machines \cup {None} /\ keyName \in Names \cup {None}
    /\ owner \in [ServerIds -> Owners]
    /\ legacy \in [name : Names, machine : Machines]
    /\ req \in [Requests -> RequestStates]
    /\ admin \in [step : {"idle", "wipe", "drop"}, name : Names \cup {None}]
    /\ trusted \in SUBSET Machines
    /\ named \in SUBSET Names

\* CreateAPIKeyPost: a key is created active, with a host name and no machine.
\* The server table may hold a row from before rows had an api_key_id.
Init ==
    /\ serverType \in ServerTypes
    /\ keyExists = TRUE /\ keyActive = TRUE /\ keyMachine = None /\ keyName \in Names
    /\ \E old \in {{}} \cup {{s} : s \in ServerIds} :
          owner = [s \in ServerIds |-> IF s \in old THEN "legacy" ELSE "unused"]
    /\ legacy \in [name : Names, machine : Machines]
    /\ req = [r \in Requests |-> Idle]
    /\ admin = [step |-> "idle", name |-> None]
    /\ trusted = {} /\ named = {}

-----------------------------------------------------------------------------
(***************************************************************************)
(* Steps of a request.  At(r, p) says which step it is in; Move takes it   *)
(* to another; a refused or answered request leaves its slot.              *)
(***************************************************************************)
At(r, p) == req[r].pc = p
Move(r, p, seen, s) ==
    req' = [req EXCEPT ![r] = [pc |-> p, machine |-> req[r].machine, name |-> req[r].name,
                               seenName |-> seen, target |-> s]]
GoTo(r, p) == Move(r, p, req[r].seenName, req[r].target)
Admit(r) == Move(r, "select", None, None)
End(r) == req' = [req EXCEPT ![r] = Idle]

\* A request arrives and ValidateServerKey reads the key; the name it holds
\* stays with the request.  A key that is gone, inactive or bound to another
\* machine, like a request without a machine id, is refused on the spot.
Lookup(r) ==
    /\ At(r, "idle")
    /\ keyExists /\ keyActive
    /\ \E m \in Machines, n \in Names :
          /\ keyMachine \in {None, m}
          /\ req' = [req EXCEPT ![r] =
                       [pc |-> IF keyMachine = m THEN "admitted" ELSE "bindMachine",
                        machine |-> m, name |-> n, seenName |-> keyName, target |-> None]]
          /\ trusted' = IF keyMachine = m THEN trusted \cup {m} ELSE trusted
          /\ named' = IF keyName = n THEN named \cup {n} ELSE named
    /\ UNCHANGED <<serverType, legacy, keyVars, owner, admin>>

\* Mutant: the update has no condition on the stored value.
BindMachineAlways(r) ==
    /\ At(r, "bindMachine")
    /\ keyMachine' = req[r].machine
    /\ trusted' = trusted \cup {req[r].machine}
    /\ GoTo(r, "admitted")
    /\ UNCHANGED <<serverType, legacy, keyExists, keyActive, keyName, owner, admin, named>>

\* The update applies to a key that is still unbound; otherwise its row is read again.
BindAPIKeyMachineID(r) ==
    /\ At(r, "bindMachine")
    /\ IF keyExists /\ keyMachine = None
       THEN /\ keyMachine' = req[r].machine
            /\ trusted' = trusted \cup {req[r].machine}
            /\ GoTo(r, "admitted")
       ELSE /\ GoTo(r, "rereadMachine")
            /\ UNCHANGED <<keyMachine, trusted>>
    /\ UNCHANGED <<serverType, legacy, keyExists, keyActive, keyName, owner, admin, named>>

\* A lost race: whether the key is active is not asked again.
RereadMachine(r) ==
    /\ At(r, "rereadMachine")
    /\ IF keyExists /\ keyMachine = req[r].machine
       THEN GoTo(r, "admitted") /\ trusted' = trusted \cup {req[r].machine}
       ELSE End(r) /\ UNCHANGED trusted
    /\ UNCHANGED <<serverType, legacy, keyVars, owner, admin, named>>

\* requireKeyServer compares with the name read by Lookup.
CheckName(r) ==
    /\ At(r, "admitted")
    /\ CASE req[r].seenName = None -> GoTo(r, "bindName")
         [] req[r].seenName = req[r].name -> Admit(r)
         [] OTHER -> End(r)
    /\ UNCHANGED <<serverType, legacy, keyVars, owner, admin, history>>

BindAPIKeyServerName(r) ==
    /\ At(r, "bindName")
    /\ IF keyExists /\ keyName = None
       THEN /\ keyName' = req[r].name
            /\ named' = named \cup {req[r].name}
            /\ Admit(r)
       ELSE /\ GoTo(r, "rereadName")
            /\ UNCHANGED <<keyName, named>>
    /\ UNCHANGED <<serverType, legacy, keyExists, keyActive, keyMachine, owner, admin, trusted>>

RereadName(r) ==
    /\ At(r, "rereadName")
    /\ IF keyExists /\ keyName = req[r].name
       THEN Admit(r) /\ named' = named \cup {req[r].name}
       ELSE End(r) /\ UNCHANGED named
    /\ UNCHANGED <<serverType, legacy, keyVars, owner, admin, trusted>>

-----------------------------------------------------------------------------
(***************************************************************************)
(* The server row: Upsert...ServerForAPIKey for reports and heartbeats,    *)
(* ResolvePVEServerForAPIKey for configuration requests.  The columns that *)
(* they refresh on a row that exists are not modelled.                     *)
(***************************************************************************)
SelectServer(r) ==
    /\ At(r, "select")
    /\ IF \E s \in ServerIds : owner[s] = "key" THEN End(r) ELSE GoTo(r, "legacy")
    /\ UNCHANGED <<serverType, legacy, keyVars, owner, admin, history>>

IsLegacyOf(s, q) == owner[s] = "legacy" /\ legacy = [name |-> q.name, machine |-> q.machine]

SelectLegacy(r) ==
    /\ At(r, "legacy")
    /\ \/ \E s \in ServerIds :
             /\ IsLegacyOf(s, req[r])
             /\ Move(r, "adopt", None, s)
       \/ /\ \A s \in ServerIds : ~IsLegacyOf(s, req[r])
          /\ GoTo(r, "insert")
    /\ UNCHANGED <<serverType, legacy, keyVars, owner, admin, history>>

\* Mutant: no foreign key to api_keys.
NoForeignKey(s) == \A t \in ServerIds \ {s} : owner[t] # "key"

\* Server s may get the key as its api_key_id: the column is unique, and in
\* windows_servers it refers to an existing key.
MayOwn(s) ==
    /\ \A t \in ServerIds \ {s} : owner[t] # "key"
    /\ serverType = "windows" => keyExists

\* The update fails if the row may not be the key's, and applies to no row if it
\* is gone; either way the server table stays as it is.
AdoptLegacy(r) ==
    /\ At(r, "adopt")
    /\ LET s == req[r].target
       IN  owner' = IF Live(s) /\ MayOwn(s) THEN [owner EXCEPT ![s] = "key"] ELSE owner
    /\ End(r)
    /\ UNCHANGED <<serverType, legacy, keyVars, admin, history>>

InsertServer(r) ==
    /\ At(r, "insert")
    /\ \E s \in ServerIds :
          /\ owner[s] = "unused"
          /\ owner' = IF MayOwn(s) THEN [owner EXCEPT ![s] = "key"] ELSE owner
    /\ End(r)
    /\ UNCHANGED <<serverType, legacy, keyVars, admin, history>>

\* A statement fails, the request is refused by the rate limit or as malformed, or
\* the client hangs up: after authentication all statements use its context.
RequestFails(r) ==
    /\ req[r].pc # "idle"
    /\ End(r)
    /\ UNCHANGED <<serverType, legacy, keyVars, owner, admin, history>>

-----------------------------------------------------------------------------
(***************************************************************************)
(* Administrators.                                                         *)
(***************************************************************************)
ToggleAPIKey ==
    /\ keyExists
    /\ keyActive' = ~keyActive
    /\ UNCHANGED <<serverType, legacy, keyExists, keyMachine, keyName, owner, req, admin, history>>

UnbindAPIKeyServer ==
    /\ keyExists
    /\ keyMachine' = None /\ keyName' = None
    /\ trusted' = {} /\ named' = {}
    /\ UNCHANGED <<serverType, legacy, keyExists, keyActive, owner, req, admin>>

UpdateAPIKey ==
    /\ keyExists
    /\ keyName' \in Names
    /\ named' = {}
    /\ UNCHANGED <<serverType, legacy, keyExists, keyActive, keyMachine, owner, req, admin, trusted>>

\* DeleteAPIKeyPost reads the key, deletes the data of its server if the key
\* has a name, and deletes the key.
DeleteAPIKeyPost ==
    /\ keyExists /\ admin.step = "idle"
    /\ admin' = [step |-> IF keyName = None THEN "drop" ELSE "wipe", name |-> keyName]
    /\ UNCHANGED <<serverType, legacy, keyVars, owner, req, history>>

DeleteServers(gone) ==
    owner' = [s \in ServerIds |-> IF s \in gone THEN "deleted" ELSE owner[s]]

HardDeleteServerDataForAPIKey ==
    /\ admin.step = "wipe"
    /\ DeleteServers({s \in ServerIds : \/ owner[s] = "key"
                                        \/ owner[s] = "legacy" /\ legacy.name = admin.name})
    /\ admin' = [step |-> "drop", name |-> None]
    /\ UNCHANGED <<serverType, legacy, keyVars, req, trusted, named>>

DropKey ==
    /\ keyExists' = FALSE /\ keyMachine' = None /\ keyName' = None
    /\ trusted' = {} /\ named' = {}
    /\ UNCHANGED keyActive

\* ON DELETE SET NULL in windows_servers.
DeleteAPIKey ==
    /\ admin.step = "drop"
    /\ DropKey
    /\ owner' = [s \in ServerIds |-> IF serverType = "windows" /\ owner[s] = "key" THEN "orphan" ELSE owner[s]]
    /\ admin' = [step |-> "idle", name |-> None]
    /\ UNCHANGED <<serverType, legacy, req>>

\* A failing statement ends DeleteAPIKeyPost early.
DeleteFails ==
    /\ admin.step # "idle"
    /\ admin' = [step |-> "idle", name |-> None]
    /\ UNCHANGED <<serverType, legacy, keyVars, owner, req, history>>

ResetAllData ==
    /\ DropKey
    /\ DeleteServers({s \in ServerIds : Live(s)})
    /\ UNCHANGED <<serverType, legacy, req, admin>>

-----------------------------------------------------------------------------
Authenticate(r) ==
    \/ Lookup(r) \/ BindAPIKeyMachineID(r) \/ RereadMachine(r)
    \/ CheckName(r) \/ BindAPIKeyServerName(r) \/ RereadName(r)

ServerRow(r) ==
    \/ SelectServer(r) \/ SelectLegacy(r) \/ AdoptLegacy(r)
    \/ InsertServer(r) \/ RequestFails(r)

Administrator ==
    \/ ToggleAPIKey \/ UnbindAPIKeyServer \/ UpdateAPIKey
    \/ DeleteAPIKeyPost \/ HardDeleteServerDataForAPIKey \/ DeleteAPIKey \/ DeleteFails
    \/ ResetAllData

Next ==
    \/ \E r \in Requests : Authenticate(r) \/ ServerRow(r)
    \/ Administrator

Spec == Init /\ [][Next]_vars

-----------------------------------------------------------------------------
(***************************************************************************)
(* Properties.                                                             *)
(***************************************************************************)

\* Between two unbinds all requests let through come from one machine, the one
\* the key is bound to, however many raced to be the first to use it.
OneMachinePerBinding == trusted \subseteq {keyMachine}

\* The same for the server name between two edits of the key: requests that read
\* the key while it had no name and race to name it do not both succeed.
OneNamePerBinding == named \subseteq {keyName}

\* A key serves one machine and one name between two resets, whatever requests
\* race for its first use (internal/service/auth.go:42, api/handlers/authz.go:23).
ExclusiveBinding == OneMachinePerBinding /\ OneNamePerBinding

\* Requests that race to create the server of a key leave one row.
OneServerPerKey ==
    \A s, t \in ServerIds : owner[s] = "key" /\ owner[t] = "key" => s = t

\* A Windows server never refers to a key that was deleted, though requests
\* admitted before the deletion go on after it.
NoDanglingOwner ==
    serverType = "windows" => \A s \in ServerIds : owner[s] = "key" => keyExists

\* A key has one server row, and a deleted key none that refers to it
\* (internal/store/pve.go:60, internal/web/handlers/apikeys.go:164).
ExclusiveOwnership == OneServerPerKey /\ NoDanglingOwner
=============================================================================
