-------------------------- MODULE KeyBinding_proofs --------------------------
(***************************************************************************)
(* KeyBinding for any number of concurrent requests, machines, names and   *)
(* server rows.                                                            *)
(***************************************************************************)
EXTENDS KeyBinding, TLAPS

\* A request in progress has a machine and a name.
LEMMA BusyType ==
    ASSUME TypeOK, NEW r \in Requests, ~At(r, "idle")
    PROVE  /\ req[r].machine \in Machines /\ req[r].name \in Names
           /\ req[r].seenName \in Names \cup {None} /\ req[r].target \in ServerIds \cup {None}
<1>1. req[r] \in RequestStates /\ req[r] # Idle
  BY DEF TypeOK, At, Idle
<1> QED
  BY <1>1 DEF RequestStates

\* Ending a request, or moving it to another step, keeps the slots well typed.
LEMMA EndType == ASSUME TypeOK, NEW r \in Requests, End(r) PROVE req' \in [Requests -> RequestStates]
  BY DEF TypeOK, End, RequestStates

LEMMA MoveType ==
    ASSUME TypeOK, NEW r \in Requests, ~At(r, "idle"), NEW p \in Steps \ {"idle"},
           NEW seen \in Names \cup {None}, NEW s \in ServerIds \cup {None}, Move(r, p, seen, s)
    PROVE  req' \in [Requests -> RequestStates]
<1>1. [pc |-> p, machine |-> req[r].machine, name |-> req[r].name, seenName |-> seen, target |-> s]
         \in RequestStates
  BY BusyType DEF RequestStates
<1> QED
  BY <1>1 DEF TypeOK, Move

LEMMA GoToType ==
    ASSUME TypeOK, NEW r \in Requests, ~At(r, "idle"), NEW p \in Steps \ {"idle"}, GoTo(r, p)
    PROVE  req' \in [Requests -> RequestStates]
  BY BusyType, MoveType DEF GoTo

LEMMA AdmitType ==
    ASSUME TypeOK, NEW r \in Requests, ~At(r, "idle"), Admit(r)
    PROVE  req' \in [Requests -> RequestStates]
  BY MoveType DEF Admit, Steps

LEMMA TypeInit == ASSUME Init PROVE TypeOK
  BY DEF Init, TypeOK, Owners, RequestStates

LEMMA TypeNext == ASSUME TypeOK, [Next]_vars PROVE TypeOK'
<1>1. ASSUME NEW r \in Requests, Lookup(r) PROVE TypeOK'
  <2>1. PICK m \in Machines, n \in Names :
          /\ req' = [req EXCEPT ![r] =
                       [pc |-> IF keyMachine = m THEN "admitted" ELSE "bindMachine",
                        machine |-> m, name |-> n, seenName |-> keyName, target |-> None]]
          /\ trusted' = IF keyMachine = m THEN trusted \cup {m} ELSE trusted
          /\ named' = IF keyName = n THEN named \cup {n} ELSE named
    BY <1>1 DEF Lookup
  <2>2. [pc |-> IF keyMachine = m THEN "admitted" ELSE "bindMachine",
         machine |-> m, name |-> n, seenName |-> keyName, target |-> None] \in RequestStates
    BY DEF RequestStates, Steps, TypeOK
  <2>3. req' \in [Requests -> RequestStates]
    BY <2>1, <2>2 DEF TypeOK
  <2> QED
    BY <1>1, <2>1, <2>3 DEF Lookup, TypeOK, keyVars
<1>2. ASSUME NEW r \in Requests, BindAPIKeyMachineID(r) PROVE TypeOK'
  <2>1. ~At(r, "idle")
    BY <1>2 DEF BindAPIKeyMachineID, At
  <2>2. req' \in [Requests -> RequestStates]
    BY <1>2, <2>1, GoToType DEF BindAPIKeyMachineID, Steps
  <2> QED
    BY <1>2, <2>1, <2>2, BusyType DEF BindAPIKeyMachineID, TypeOK
<1>3. ASSUME NEW r \in Requests, RereadMachine(r) PROVE TypeOK'
  <2>1. ~At(r, "idle")
    BY <1>3 DEF RereadMachine, At
  <2>2. req' \in [Requests -> RequestStates]
    BY <1>3, <2>1, GoToType, EndType DEF RereadMachine, Steps
  <2> QED
    BY <1>3, <2>1, <2>2, BusyType DEF RereadMachine, TypeOK, keyVars
<1>4. ASSUME NEW r \in Requests, CheckName(r) PROVE TypeOK'
  <2>1. ~At(r, "idle")
    BY <1>4 DEF CheckName, At
  <2>2. GoTo(r, "bindName") \/ Admit(r) \/ End(r)
    BY <1>4 DEF CheckName
  <2>3. req' \in [Requests -> RequestStates]
    BY <2>1, <2>2, GoToType, AdmitType, EndType DEF Steps
  <2> QED
    BY <1>4, <2>3 DEF CheckName, TypeOK, keyVars, history
<1>5. ASSUME NEW r \in Requests, BindAPIKeyServerName(r) PROVE TypeOK'
  <2>1. ~At(r, "idle")
    BY <1>5 DEF BindAPIKeyServerName, At
  <2>2. req' \in [Requests -> RequestStates]
    BY <1>5, <2>1, GoToType, AdmitType DEF BindAPIKeyServerName, Steps
  <2> QED
    BY <1>5, <2>1, <2>2, BusyType DEF BindAPIKeyServerName, TypeOK
<1>6. ASSUME NEW r \in Requests, RereadName(r) PROVE TypeOK'
  <2>1. ~At(r, "idle")
    BY <1>6 DEF RereadName, At
  <2>2. req' \in [Requests -> RequestStates]
    BY <1>6, <2>1, AdmitType, EndType DEF RereadName
  <2> QED
    BY <1>6, <2>1, <2>2, BusyType DEF RereadName, TypeOK, keyVars
<1>7. ASSUME NEW r \in Requests, SelectServer(r) PROVE TypeOK'
  <2>1. ~At(r, "idle")
    BY <1>7 DEF SelectServer, At
  <2>2. req' \in [Requests -> RequestStates]
    BY <1>7, <2>1, GoToType, EndType DEF SelectServer, Steps
  <2> QED
    BY <1>7, <2>2 DEF SelectServer, TypeOK, keyVars, history
<1>8. ASSUME NEW r \in Requests, SelectLegacy(r) PROVE TypeOK'
  <2>1. ~At(r, "idle")
    BY <1>8 DEF SelectLegacy, At
  <2>2. req' \in [Requests -> RequestStates]
    BY <1>8, <2>1, GoToType, MoveType DEF SelectLegacy, Steps
  <2> QED
    BY <1>8, <2>2 DEF SelectLegacy, TypeOK, keyVars, history
<1>9. ASSUME NEW r \in Requests, AdoptLegacy(r) \/ InsertServer(r) PROVE TypeOK'
  <2>1. req' \in [Requests -> RequestStates]
    BY <1>9, EndType DEF AdoptLegacy, InsertServer
  <2>2. owner' \in [ServerIds -> Owners]
    BY <1>9 DEF AdoptLegacy, InsertServer, TypeOK, Owners
  <2> QED
    BY <1>9, <2>1, <2>2 DEF AdoptLegacy, InsertServer, TypeOK, keyVars, history
<1>10. ASSUME NEW r \in Requests, RequestFails(r) PROVE TypeOK'
  BY <1>10, EndType DEF RequestFails, TypeOK, keyVars, history
<1>11. ASSUME Administrator PROVE TypeOK'
  <2>1. CASE ToggleAPIKey
    BY <2>1 DEF ToggleAPIKey, TypeOK, history
  <2>2. CASE UnbindAPIKeyServer
    BY <2>2 DEF UnbindAPIKeyServer, TypeOK
  <2>3. CASE UpdateAPIKey
    BY <2>3 DEF UpdateAPIKey, TypeOK
  <2>4. CASE DeleteAPIKeyPost
    BY <2>4 DEF DeleteAPIKeyPost, TypeOK, keyVars, history
  <2>5. CASE HardDeleteServerDataForAPIKey
    BY <2>5 DEF HardDeleteServerDataForAPIKey, DeleteServers, TypeOK, keyVars, Owners
  <2>6. CASE DeleteAPIKey
    BY <2>6 DEF DeleteAPIKey, DropKey, TypeOK, Owners
  <2>7. CASE DeleteFails
    BY <2>7 DEF DeleteFails, TypeOK, keyVars, history
  <2>8. CASE ResetAllData
    BY <2>8 DEF ResetAllData, DropKey, DeleteServers, TypeOK, Owners
  <2> QED
    BY <1>11, <2>1, <2>2, <2>3, <2>4, <2>5, <2>6, <2>7, <2>8 DEF Administrator
<1>12. CASE UNCHANGED vars
  BY <1>12 DEF vars, TypeOK, keyVars, history
<1> QED
  BY <1>1, <1>2, <1>3, <1>4, <1>5, <1>6, <1>7, <1>8, <1>9, <1>10, <1>11, <1>12
  DEF Next, Authenticate, ServerRow

\* Every reachable state of the API's authentication is well typed.
THEOREM BindingTypeCorrect == Spec => []TypeOK
<1>1. Init => TypeOK
  BY TypeInit
<1>2. TypeOK /\ [Next]_vars => TypeOK'
  BY TypeNext
<1> QED
  BY <1>1, <1>2, PTL DEF Spec

-----------------------------------------------------------------------------
(***************************************************************************)
(* The binding.  A machine or name is accepted only where it is read from, *)
(* or written to, the key; and a request writes only an empty column.      *)
(***************************************************************************)

LEMMA BindingNext == ASSUME TypeOK, ExclusiveBinding, [Next]_vars PROVE ExclusiveBinding'
<1> USE DEF ExclusiveBinding, OneMachinePerBinding, OneNamePerBinding
<1>1. ASSUME NEW r \in Requests, Authenticate(r) PROVE ExclusiveBinding'
  <2>1. CASE Lookup(r)
    BY <2>1 DEF Lookup, keyVars
  <2>2. CASE BindAPIKeyMachineID(r)
    <3>1. keyMachine = None => trusted = {}
      BY BindingAssumption DEF TypeOK
    <3> QED
      BY <2>2, <3>1 DEF BindAPIKeyMachineID
  <2>3. CASE RereadMachine(r)
    BY <2>3 DEF RereadMachine, keyVars
  <2>4. CASE CheckName(r)
    BY <2>4 DEF CheckName, keyVars, history
  <2>5. CASE BindAPIKeyServerName(r)
    <3>1. keyName = None => named = {}
      BY BindingAssumption DEF TypeOK
    <3> QED
      BY <2>5, <3>1 DEF BindAPIKeyServerName
  <2>6. CASE RereadName(r)
    BY <2>6 DEF RereadName, keyVars
  <2> QED
    BY <1>1, <2>1, <2>2, <2>3, <2>4, <2>5, <2>6 DEF Authenticate
<1>2. ASSUME NEW r \in Requests, ServerRow(r) PROVE ExclusiveBinding'
  BY <1>2 DEF ServerRow, SelectServer, SelectLegacy, AdoptLegacy, InsertServer, RequestFails,
              keyVars, history
<1>3. ASSUME Administrator PROVE ExclusiveBinding'
  <2>1. CASE UnbindAPIKeyServer \/ UpdateAPIKey
    BY <2>1 DEF UnbindAPIKeyServer, UpdateAPIKey
  <2>2. CASE DeleteAPIKey \/ ResetAllData
    BY <2>2 DEF DeleteAPIKey, ResetAllData, DropKey
  <2>3. CASE ToggleAPIKey \/ DeleteAPIKeyPost \/ HardDeleteServerDataForAPIKey \/ DeleteFails
    BY <2>3 DEF ToggleAPIKey, DeleteAPIKeyPost, HardDeleteServerDataForAPIKey, DeleteFails,
                keyVars, history
  <2> QED
    BY <1>3, <2>1, <2>2, <2>3 DEF Administrator
<1>4. CASE UNCHANGED vars
  BY <1>4 DEF vars, keyVars, history
<1> QED
  BY <1>1, <1>2, <1>3, <1>4 DEF Next

\* However many requests race for an unbound key, ValidateServerKey lets through
\* one machine and requireKeyServer one name per binding.
THEOREM BindingIsExclusive == Spec => []ExclusiveBinding
<1>1. Init => ExclusiveBinding
  BY DEF Init, ExclusiveBinding, OneMachinePerBinding, OneNamePerBinding
<1>2. TypeOK /\ ExclusiveBinding /\ [Next]_vars => ExclusiveBinding'
  BY BindingNext
<1> QED
  BY <1>1, <1>2, BindingTypeCorrect, PTL DEF Spec

-----------------------------------------------------------------------------
(***************************************************************************)
(* The server rows.                                                        *)
(***************************************************************************)

LEMMA OwnershipNext == ASSUME TypeOK, ExclusiveOwnership, [Next]_vars PROVE ExclusiveOwnership'
<1>1. ASSUME NEW r \in Requests, AdoptLegacy(r) \/ InsertServer(r) PROVE ExclusiveOwnership'
  <2>1. \/ owner' = owner
        \/ \E s \in ServerIds : MayOwn(s) /\ owner' = [owner EXCEPT ![s] = "key"]
    <3>1. CASE InsertServer(r)
      BY <3>1 DEF InsertServer
    <3>2. CASE AdoptLegacy(r) /\ req[r].target \in ServerIds
      BY <3>2 DEF AdoptLegacy
    <3>3. CASE AdoptLegacy(r) /\ req[r].target \notin ServerIds
      <4>1. [owner EXCEPT ![req[r].target] = "key"] = owner
        BY <3>3 DEF TypeOK
      <4> QED
        BY <3>3, <4>1 DEF AdoptLegacy
    <3> QED
      BY <1>1, <3>1, <3>2, <3>3
  <2>2. UNCHANGED <<serverType, keyExists>>
    BY <1>1 DEF AdoptLegacy, InsertServer, keyVars
  <2>3. CASE owner' = owner
    BY <2>2, <2>3 DEF ExclusiveOwnership, OneServerPerKey, NoDanglingOwner
  <2>4. ASSUME NEW s \in ServerIds, MayOwn(s), owner' = [owner EXCEPT ![s] = "key"] PROVE ExclusiveOwnership'
    <3>1. OneServerPerKey'
      BY <2>4 DEF ExclusiveOwnership, OneServerPerKey, MayOwn, TypeOK
    <3>2. NoDanglingOwner'
      BY <2>2, <2>4 DEF ExclusiveOwnership, NoDanglingOwner, MayOwn, TypeOK
    <3> QED
      BY <3>1, <3>2 DEF ExclusiveOwnership
  <2> QED
    BY <2>1, <2>3, <2>4
<1>2. ASSUME NEW r \in Requests,
             Authenticate(r) \/ SelectServer(r) \/ SelectLegacy(r) \/ RequestFails(r)
      PROVE  ExclusiveOwnership'
  <2>1. UNCHANGED <<serverType, keyExists, owner>>
    BY <1>2 DEF Authenticate, Lookup, BindAPIKeyMachineID, RereadMachine, CheckName,
                BindAPIKeyServerName, RereadName, SelectServer, SelectLegacy, RequestFails, keyVars
  <2> QED
    BY <2>1 DEF ExclusiveOwnership, OneServerPerKey, NoDanglingOwner
<1>3. ASSUME Administrator PROVE ExclusiveOwnership'
  <2>1. CASE HardDeleteServerDataForAPIKey
    BY <2>1 DEF HardDeleteServerDataForAPIKey, DeleteServers, keyVars, TypeOK,
                ExclusiveOwnership, OneServerPerKey, NoDanglingOwner
  <2>2. CASE ResetAllData
    BY <2>2 DEF ResetAllData, DeleteServers, Live, TypeOK,
                ExclusiveOwnership, OneServerPerKey, NoDanglingOwner
  <2>3. CASE DeleteAPIKey
    BY <2>3 DEF DeleteAPIKey, TypeOK, ExclusiveOwnership, OneServerPerKey, NoDanglingOwner
  <2>4. CASE ToggleAPIKey \/ UnbindAPIKeyServer \/ UpdateAPIKey \/ DeleteAPIKeyPost \/ DeleteFails
    <3>1. UNCHANGED <<serverType, keyExists, owner>>
      BY <2>4 DEF ToggleAPIKey, UnbindAPIKeyServer, UpdateAPIKey, DeleteAPIKeyPost, DeleteFails, keyVars
    <3> QED
      BY <3>1 DEF ExclusiveOwnership, OneServerPerKey, NoDanglingOwner
  <2> QED
    BY <1>3, <2>1, <2>2, <2>3, <2>4 DEF Administrator
<1>4. CASE UNCHANGED vars
  BY <1>4 DEF vars, keyVars, ExclusiveOwnership, OneServerPerKey, NoDanglingOwner
<1> QED
  BY <1>1, <1>2, <1>3, <1>4 DEF Next, ServerRow

\* The unique index and the foreign key of api_key_id are enough: requests that
\* race to create or adopt the server of a key, also while it is being deleted,
\* leave one row, and no Windows row refers to a deleted key.
THEOREM OwnershipIsExclusive == Spec => []ExclusiveOwnership
<1>1. Init => ExclusiveOwnership
  BY DEF Init, ExclusiveOwnership, OneServerPerKey, NoDanglingOwner
<1>2. TypeOK /\ ExclusiveOwnership /\ [Next]_vars => ExclusiveOwnership'
  BY OwnershipNext
<1> QED
  BY <1>1, <1>2, BindingTypeCorrect, PTL DEF Spec
=============================================================================
