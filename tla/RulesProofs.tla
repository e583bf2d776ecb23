---------------------------- MODULE RulesProofs ----------------------------
(***************************************************************************)
(* Theorems about the modules of the suite MCRules, for every value of     *)
(* their constants.  The modules share no state, so each invariant is of   *)
(* the form "if this behaviour is of that part, then ...", and a step of   *)
(* another part leaves it true.                                            *)
(***************************************************************************)
EXTENDS MCRules, FiniteSetTheorems, WellFoundedInduction, TLAPS

(* Induction over the natural numbers, stated for sets.                    *)
LEMMA NatSetInduction ==
  ASSUME NEW S, S \subseteq Nat, 0 \in S, \A n \in S : n + 1 \in S
  PROVE  S = Nat
<1> DEFINE Lt == {p \in Nat \X Nat : p[1] < p[2]}
           B == Nat \ S
<1>1. Lt = OpToRel(<, Nat)
  BY DEF OpToRel
<1>2. IsWellFoundedOn(Lt, Nat)
  BY <1>1, NatLessThanWellFounded
<1>3. SUFFICES ASSUME B # {} PROVE FALSE
  OBVIOUS
<1>4. B \subseteq Nat OBVIOUS
<1> HIDE DEF Lt, B
<1>5. PICK x \in B : \A y \in B : ~(<<y, x>> \in Lt)
  BY <1>2, <1>3, <1>4, WFMin
<1>6. x \in Nat /\ x # 0 /\ x \notin S
  BY DEF B
<1>7. x - 1 \in Nat /\ x - 1 \notin S
  BY <1>6
<1>8. x - 1 \in B /\ <<x - 1, x>> \in Lt
  BY <1>6, <1>7 DEF B, Lt
<1>9. QED BY <1>5, <1>8

(* The part is chosen once.                                                *)
LEMMA PartStays == [Next]_vars => part' = part
<1> USE DEF Next, vars, ModelsSteps, InventorySteps, EndpointsSteps, LoginsSteps, QuotaSteps, WorkspacesSteps
<1>1. QED OBVIOUS

------------------------------------------------------------------------------
(* EndpointReload.                                                         *)

file == x1
rules == x2
manifest == x4
socket == x6
registry == x7
clients == x8
written == x9

EndpointVars == <<x1, x2, x3, x4, x5, x6, x7, x8, x9, x10, x11, x12>>

Socks == [at : {"none", "open", "destroyed"}, user : Endpoints!Someone, path : Path \cup {Endpoints!NoSocket.path}]

TablesTyped ==
  /\ written \subseteq Tables /\ rules \in written
  /\ file \in written \cup {Missing, Broken}
  /\ manifest \subseteq Plugin
  /\ socket \in [Socket -> Socks]

(* A WebSocket of a sub-user that is open is in both tables, so that       *)
(* whoever tightens a rule or a permission finds it there.                 *)
SubuserOpen(s) == Endpoints!Open(s) /\ socket[s].user # Owner
Remembered == \A s \in Socket : SubuserOpen(s) => s \in registry \cap clients
LetIn ==
  \A s \in Socket : SubuserOpen(s) =>
    /\ Endpoints!MayUse(socket[s].user, socket[s].path, "ws")
    /\ Endpoints!Listed(socket[s].path, "ws") \/ socket[s].path \in Plugin

EndpointInv == TablesTyped /\ Remembered /\ LetIn

(* What an upgrade and a request of a sub-user were judged by is what the  *)
(* table says today.                                                       *)
LEMMA UpgradedMayUse ==
  ASSUME NEW u, NEW p, Endpoints!Upgraded(u, p), manifest \subseteq Plugin
  PROVE  /\ Endpoints!MayUse(u, p, "ws")
         /\ Endpoints!Listed(p, "ws") \/ p \in Plugin
         /\ u # Owner => Endpoints!Registered(u, p)
<1> USE DEF Endpoints!Upgraded, Endpoints!PathClass, Endpoints!SshPassed, Endpoints!PluginPassed, manifest
<1>1. ~Endpoints!Named(p, "owner")
  OBVIOUS
<1>2. \A r \in rules : r.path = p => r.capability # "owner"
  BY <1>1 DEF Endpoints!Named, rules
<1>3. Endpoints!PathClass(p, "ws") = "ssh" => Endpoints!Listed(p, "ws") /\ u \in x5
  OBVIOUS
<1>4. Endpoints!MayUse(u, p, "ws")
  BY <1>2, <1>3 DEF Endpoints!MayUse, rules
<1>5. Endpoints!Listed(p, "ws") \/ p \in Plugin
  BY <1>3
<1>6. u # Owner => Endpoints!Registered(u, p)
  BY DEF Endpoints!Registered
<1>7. QED BY <1>4, <1>5, <1>6

LEMMA RequestedMayUse ==
  ASSUME NEW u, NEW p \in Path \ Terminal, Endpoints!Requested(u, p)
  PROVE  Endpoints!MayUse(u, p, "http")
<1> USE DEF Endpoints!Requested, Endpoints!PathClass
<1>1. \A r \in rules : r.path = p => r.capability # "owner"
  BY DEF Endpoints!Named, rules
<1>2. Endpoints!Named(p, "ssh") => u \in x5 /\ Endpoints!Listed(p, "http")
  OBVIOUS
<1>3. QED BY <1>1, <1>2 DEF Endpoints!MayUse, rules

LEMMA DestroyedSockets ==
  ASSUME NEW S, socket \in [Socket -> Socks], socket' = Endpoints!Destroyed(S)
  PROVE  /\ socket' \in [Socket -> Socks]
         /\ \A s \in Socket : s \in S => socket'[s].at = "destroyed"
         /\ \A s \in Socket : s \notin S => socket'[s] = socket[s]
<1>1. \A s \in Socket : s \in S => socket'[s] = [socket[s] EXCEPT !.at = "destroyed"]
  BY DEF Endpoints!Destroyed, socket
<1>2. \A s \in Socket : s \notin S => socket'[s] = socket[s]
  BY DEF Endpoints!Destroyed, socket
<1>3. \A r \in Socks : [r EXCEPT !.at = "destroyed"] \in Socks /\ [r EXCEPT !.at = "destroyed"].at = "destroyed"
  BY DEF Socks
<1>4. socket' = [s \in Socket |-> socket'[s]]
  BY DEF Endpoints!Destroyed, socket
<1>5. \A s \in Socket : socket[s] \in Socks
  OBVIOUS
<1>6. \A s \in Socket : s \in S => socket'[s].at = "destroyed"
  BY <1>1, <1>3, <1>5
<1>7. ASSUME NEW s \in Socket PROVE socket'[s] \in Socks
  <2>1. CASE s \in S
    BY <1>1, <1>3, <1>5, <2>1
  <2>2. CASE s \notin S
    BY <1>2, <1>5, <2>2
  <2>3. QED BY <2>1, <2>2
<1>8. socket' \in [Socket -> Socks]
  BY <1>4, <1>7
<1>9. QED BY <1>2, <1>6, <1>8

LEMMA EndpointInit ==
  ASSUME Endpoints!Init PROVE EndpointInv
<1> USE DEF Endpoints!Init, file, rules, manifest, socket, registry, clients, written
<1>1. Endpoints!NoSocket \in Socks
  BY DEF Endpoints!NoSocket, Socks, Endpoints!Someone
<1>2. TablesTyped
  BY <1>1 DEF TablesTyped
<1>3. \A s \in Socket : ~SubuserOpen(s)
  BY DEF SubuserOpen, Endpoints!Open, Endpoints!NoSocket
<1>4. QED BY <1>2, <1>3 DEF EndpointInv, Remembered, LetIn

LEMMA EndpointStep ==
  ASSUME EndpointInv, [Endpoints!Next]_EndpointVars
  PROVE  EndpointInv'
<1> USE DEF EndpointInv, file, rules, manifest, socket, registry, clients, written
<1> DEFINE Judged(s) == /\ Endpoints!MayUse(socket[s].user, socket[s].path, "ws")
                        /\ Endpoints!Listed(socket[s].path, "ws") \/ socket[s].path \in Plugin
<1>1. CASE UNCHANGED EndpointVars
  BY <1>1 DEF EndpointVars, TablesTyped, Remembered, LetIn, SubuserOpen, Endpoints!Open, Endpoints!MayUse,
     Endpoints!Listed, Endpoints!Named
<1>2. CASE Endpoints!Ticks
  <2> USE <1>2 DEF Endpoints!Ticks, Endpoints!Read
  <2>1. CASE x1 = Broken \/ x1 = x2
    <3>1. UNCHANGED <<x1, x2, x4, x5, x6, x7, x8, x9>>
      BY <2>1 DEF Endpoints!rights
    <3>2. QED BY <3>1 DEF TablesTyped, Remembered, LetIn, SubuserOpen, Endpoints!Open, Endpoints!MayUse,
                 Endpoints!Listed, Endpoints!Named
  <2>2. CASE ~(x1 = Broken \/ x1 = x2)
    <3>1. /\ x2' = x1 /\ x1 \in x9
          /\ socket' = Endpoints!Destroyed({s \in registry : Endpoints!Open(s)})
          /\ UNCHANGED <<x1, x4, x8, x9>>
      BY <2>2 DEF TablesTyped, Endpoints!ClosesRegistered, Endpoints!rights
    <3>2. /\ socket' \in [Socket -> Socks]
          /\ \A s \in Socket : s \in registry /\ Endpoints!Open(s) => socket'[s].at = "destroyed"
          /\ \A s \in Socket : ~(s \in registry /\ Endpoints!Open(s)) => socket'[s] = socket[s]
      <4>1. socket \in [Socket -> Socks]
        BY DEF TablesTyped
      <4> DEFINE S == {s \in registry : Endpoints!Open(s)}
      <4>2. socket' = Endpoints!Destroyed(S)
        BY <3>1
      <4> HIDE DEF S
      <4>3. /\ socket' \in [Socket -> Socks]
            /\ \A s \in Socket : s \in S => socket'[s].at = "destroyed"
            /\ \A s \in Socket : s \notin S => socket'[s] = socket[s]
        BY <4>1, <4>2, DestroyedSockets
      <4>4. \A s : s \in S <=> s \in registry /\ Endpoints!Open(s)
        BY DEF S
      <4>5. QED BY <4>3, <4>4
    <3>3. \A s \in Socket : ~SubuserOpen(s)'
      BY <3>2 DEF Remembered, SubuserOpen, Endpoints!Open
    <3>4. TablesTyped'
      BY <3>1, <3>2 DEF TablesTyped
    <3>5. QED BY <3>3, <3>4 DEF Remembered, LetIn
  <2>3. QED BY <2>1, <2>2
<1>3. ASSUME NEW c \in Tables \cup {Missing, Broken}, Endpoints!Edits(c) PROVE EndpointInv'
  <2>1. /\ x1' = c /\ x9' = x9 \cup ({c} \cap Tables)
        /\ UNCHANGED <<x2, x4, x5, x6, x7, x8>>
    BY <1>3 DEF Endpoints!Edits, Endpoints!rights, Endpoints!sockets
  <2>2. TablesTyped'
    BY <2>1 DEF TablesTyped
  <2>3. QED BY <2>1, <2>2 DEF Remembered, LetIn, SubuserOpen, Endpoints!Open, Endpoints!MayUse,
               Endpoints!Listed, Endpoints!Named
<1>4. ASSUME NEW m \in SUBSET Plugin, Endpoints!Mounts(m) PROVE EndpointInv'
  <2>1. x4' = m /\ UNCHANGED <<x1, x2, x5, x6, x7, x8, x9>>
    BY <1>4 DEF Endpoints!Mounts, Endpoints!reload, Endpoints!sockets
  <2>2. TablesTyped'
    BY <2>1 DEF TablesTyped
  <2>3. QED BY <2>1, <2>2 DEF Remembered, LetIn, SubuserOpen, Endpoints!Open, Endpoints!MayUse,
               Endpoints!Listed, Endpoints!Named
<1>5. ASSUME NEW u \in SubUser, Endpoints!Saves(u) PROVE EndpointInv'
  <2> DEFINE mine == {s \in clients : socket[s].user = u}
  <2>1. /\ x5' \in {x5 \cup {u}, x5 \ {u}}
        /\ socket' = Endpoints!Destroyed({s \in mine : Endpoints!Open(s)})
        /\ clients' = clients \ mine
        /\ UNCHANGED <<x1, x2, x4, x7, x9>>
    BY <1>5 DEF Endpoints!Saves, Endpoints!reload
  <2>2. /\ socket' \in [Socket -> Socks]
        /\ \A s \in Socket : s \in mine /\ Endpoints!Open(s) => socket'[s].at = "destroyed"
        /\ \A s \in Socket : ~(s \in mine /\ Endpoints!Open(s)) => socket'[s] = socket[s]
    <3>1. socket \in [Socket -> Socks]
      BY DEF TablesTyped
    <3> DEFINE S == {s \in mine : Endpoints!Open(s)}
    <3>2. socket' = Endpoints!Destroyed(S)
      BY <2>1
    <3> HIDE DEF S
    <3>3. /\ socket' \in [Socket -> Socks]
          /\ \A s \in Socket : s \in S => socket'[s].at = "destroyed"
          /\ \A s \in Socket : s \notin S => socket'[s] = socket[s]
      BY <3>1, <3>2, DestroyedSockets
    <3>4. \A s : s \in S <=> s \in mine /\ Endpoints!Open(s)
      BY DEF S
    <3> HIDE DEF mine
    <3>5. QED BY <3>3, <3>4
  <2>3. ASSUME NEW s \in Socket, SubuserOpen(s)'
        PROVE  SubuserOpen(s) /\ s \notin mine /\ socket'[s] = socket[s]
    BY <2>2, <2>3 DEF SubuserOpen, Endpoints!Open, Remembered
  <2>4. ASSUME NEW s \in Socket, SubuserOpen(s)'
        PROVE  socket[s].user # u
    BY <2>3, <2>4 DEF Remembered
  <2>5. TablesTyped'
    BY <2>1, <2>2 DEF TablesTyped
  <2>6. Remembered'
    BY <2>1, <2>3 DEF Remembered
  <2>7. ASSUME NEW s \in Socket, SubuserOpen(s)'
        PROVE  Judged(s)'
    <3>1. Judged(s) /\ socket'[s] = socket[s] /\ socket[s].user # u
      BY <2>3, <2>4, <2>7 DEF LetIn
    <3>2. QED BY <2>1, <3>1 DEF Endpoints!MayUse, Endpoints!Listed, Endpoints!Named
  <2>8. LetIn'
    BY <2>7 DEF LetIn
  <2>9. QED BY <2>5, <2>6, <2>8
<1>6. ASSUME NEW s \in Socket, Endpoints!Ends(s) \/ Endpoints!Cleanup(s) PROVE EndpointInv'
  <2>1. /\ socket' \in [Socket -> Socks]
        /\ socket'[s].at # "open"
        /\ \A z \in Socket \ {s} : socket'[z] = socket[z]
    <3>1. CASE Endpoints!Ends(s)
      <4>1. socket \in [Socket -> Socks] /\ socket' = Endpoints!Destroyed({s})
        BY <3>1 DEF TablesTyped, Endpoints!Ends
      <4>2. QED BY <4>1, DestroyedSockets
    <3>2. CASE Endpoints!Cleanup(s)
      <4>1. Endpoints!NoSocket \in Socks /\ Endpoints!NoSocket.at # "open"
        BY DEF Endpoints!NoSocket, Socks, Endpoints!Someone
      <4>2. socket' = [socket EXCEPT ![s] = Endpoints!NoSocket]
        BY <3>2 DEF Endpoints!Cleanup
      <4>3. QED BY <4>1, <4>2 DEF TablesTyped
    <3>3. QED BY <1>6, <3>1, <3>2
  <2>2. /\ registry \ {s} \subseteq registry' /\ clients \ {s} \subseteq clients'
        /\ UNCHANGED <<x1, x2, x4, x5, x9>>
    BY <1>6 DEF Endpoints!Ends, Endpoints!Cleanup, Endpoints!reload, Endpoints!rights
  <2>3. TablesTyped'
    BY <2>1, <2>2 DEF TablesTyped
  <2>4. \A z \in Socket : SubuserOpen(z)' => SubuserOpen(z) /\ z # s /\ socket'[z] = socket[z]
    BY <2>1 DEF SubuserOpen, Endpoints!Open
  <2>5. Remembered'
    BY <2>2, <2>4 DEF Remembered
  <2>6. LetIn'
    BY <2>2, <2>4 DEF LetIn, Endpoints!MayUse, Endpoints!Listed, Endpoints!Named
  <2>7. QED BY <2>3, <2>5, <2>6
<1>7. ASSUME NEW s \in Socket, NEW u \in Endpoints!Someone, NEW p \in Path, Endpoints!Upgrades(s, u, p)
      PROVE  EndpointInv'
  <2> DEFINE new == [at |-> "open", user |-> u, path |-> p]
  <2>1. /\ socket' = [socket EXCEPT ![s] = new]
        /\ registry' = IF Endpoints!Registered(u, p) THEN registry \cup {s} ELSE registry
        /\ clients' = clients \cup {s}
        /\ UNCHANGED <<x1, x2, x4, x5, x9>>
        /\ u # Owner => Endpoints!Upgraded(u, p)
    BY <1>7 DEF Endpoints!Upgrades, Endpoints!reload, Endpoints!rights
  <2>2. new \in Socks /\ new.user = u /\ new.path = p
    BY DEF Socks
  <2>3. /\ socket' \in [Socket -> Socks] /\ socket'[s] = new
        /\ \A z \in Socket \ {s} : socket'[z] = socket[z]
    BY <2>1, <2>2 DEF TablesTyped
  <2>4. u # Owner => /\ Endpoints!Registered(u, p)
                     /\ Endpoints!MayUse(u, p, "ws")
                     /\ Endpoints!Listed(p, "ws") \/ p \in Plugin
    BY <2>1, UpgradedMayUse DEF TablesTyped
  <2> HIDE DEF new
  <2>5. TablesTyped'
    BY <2>1, <2>3 DEF TablesTyped
  <2>6. ASSUME NEW z \in Socket, SubuserOpen(z)'
        PROVE  (z # s /\ SubuserOpen(z) /\ socket'[z] = socket[z]) \/ (z = s /\ u # Owner)
    BY <2>2, <2>3, <2>6 DEF SubuserOpen, Endpoints!Open
  <2>7. Remembered'
    BY <2>1, <2>4, <2>6 DEF Remembered
  <2>8. ASSUME NEW z \in Socket, SubuserOpen(z)' PROVE Judged(z)'
    <3>1. CASE z # s /\ SubuserOpen(z) /\ socket'[z] = socket[z]
      BY <2>1, <3>1 DEF LetIn, Endpoints!MayUse, Endpoints!Listed, Endpoints!Named
    <3>2. CASE z = s /\ u # Owner
      <4>1. socket'[z].user = u /\ socket'[z].path = p
        BY <2>2, <2>3, <3>2
      <4>2. QED BY <2>1, <2>4, <3>2, <4>1 DEF Endpoints!MayUse, Endpoints!Listed, Endpoints!Named
    <3>3. QED BY <2>6, <2>8, <3>1, <3>2
  <2>9. LetIn'
    BY <2>8 DEF LetIn
  <2>10. QED BY <2>5, <2>7, <2>9
<1>8. QED BY <1>1, <1>2, <1>3, <1>4, <1>5, <1>6, <1>7 DEF Endpoints!Next

(* Whatever was edited, saved and loaded meanwhile, an open WebSocket of a *)
(* sub-user is one that the rules of today let in, and a request is judged *)
(* by the same table (gateway.ts:4464).                                    *)
THEOREM RulesOfToday == Spec => []TodaysRules
<1> DEFINE Inv == part = "endpoints" => EndpointInv
<1>1. Init => Inv
  BY EndpointInit DEF Init
<1>2. Inv /\ [Next]_vars => Inv'
  <2>1. SUFFICES ASSUME EndpointInv, [Next]_vars, part = "endpoints" PROVE EndpointInv'
    BY PartStays
  <2>2. [Endpoints!Next]_EndpointVars
    BY <2>1 DEF Next, vars, EndpointVars, ModelsSteps, InventorySteps, EndpointsSteps, LoginsSteps, QuotaSteps,
       WorkspacesSteps
  <2>3. QED BY <2>1, <2>2, EndpointStep
<1>3. Inv => TodaysRules
  <2>1. SUFFICES ASSUME EndpointInv PROVE Endpoints!TodaysRules
    BY DEF TodaysRules
  <2>2. \A s \in Socket : Endpoints!Open(s) /\ socket[s].user # Owner =>
          /\ Endpoints!MayUse(socket[s].user, socket[s].path, "ws")
          /\ Endpoints!Listed(socket[s].path, "ws") \/ socket[s].path \in Plugin
    BY <2>1 DEF EndpointInv, LetIn, SubuserOpen
  <2>3. rules \in written
    BY <2>1 DEF EndpointInv, TablesTyped
  <2>4. QED BY <2>2, <2>3, RequestedMayUse DEF Endpoints!TodaysRules, socket, rules, written
<1> HIDE DEF Inv
<1>4. QED BY <1>1, <1>2, <1>3, PTL DEF Spec

------------------------------------------------------------------------------
(* SessionInventory.                                                       *)

folders == x2
listed == x3
archived == x4
live == x5
log == x6
scan == x7
save == x13
steady == x14
placed == x15
worth == x16
lasting == x17

InventoryVars == <<x1, x2, x3, x4, x5, x6, x7, x8, x9, x10, x11, x12, x13, x14, x15, x16, x17, x18, x19>>
InventoryNext == Inventory!HostSteps \/ Inventory!ScanSteps \/ Inventory!LoaderSteps \/ Inventory!SaveSteps

HostTyped ==
  /\ folders \subseteq Folder /\ listed \subseteq Listable /\ live \subseteq Listable /\ archived \subseteq Listable
  /\ log \in [Listable -> {"gone", "blank", "used", "titled"}]

InUse(s) == log[s] \in {"used", "titled"}
Coming(left) == {left[i] : i \in 1..Len(left)}
Judging == scan.pending \cup scan.reading \cup scan.events

Scan ==
  [at : {"idle", "status", "batch", "each", "surface"}, left : Seq(Folder),
   archived : SUBSET Listable, slots : SUBSET Listable, pending : SUBSET Listable, titles : SUBSET Listable,
   hidden : SUBSET Listable, reading : SUBSET Listable, events : SUBSET Listable]

(* What each stage leaves to the next.                                     *)
Stages ==
  /\ scan \in Scan
  /\ scan.at = "status" => scan.reading = {} /\ scan.events = {} /\ scan.titles = {} /\ scan.hidden = {}
  /\ scan.at \in {"batch", "each"} =>
       scan.reading \subseteq scan.pending /\ scan.hidden \subseteq scan.pending /\ scan.events = {}
  /\ scan.at \in {"batch", "each", "surface"} => scan.left = <<>>

(* What was to be shown all the time is there or in a folder still to      *)
(* come, is not hidden, and if its log is still to be read, it is in use.  *)
Steadily ==
  \A s \in steady :
    /\ s \in Inventory!Now
    /\ s \notin scan.archived \cup scan.hidden
    /\ s \in scan.slots \/ Home[s] \in Coming(scan.left)
    /\ s \in Judging => InUse(s)

(* What is there was placed at some time, and is worth showing, hidden, or *)
(* still to be judged.                                                     *)
Gathered ==
  /\ Inventory!Placed \subseteq placed /\ Inventory!Worth \subseteq worth
  /\ scan.slots \subseteq placed
  /\ scan.titles \subseteq worth
  /\ \A s \in scan.slots : s \in worth \/ s \in Judging \/ (scan.at = "surface" /\ s \in scan.hidden)

Saving ==
  [at : {"idle", "status", "over"}, left : Seq(Folder), seen : SUBSET Listable, then : SUBSET Listable,
   assignable : SUBSET Listable, retained : SUBSET Listable]

(* What was listed all the time a save's list is gathered is seen, or in a *)
(* folder still to come.                                                   *)
Saved ==
  /\ save \in Saving
  /\ save.at = "status" => /\ lasting \subseteq Inventory!Placed
                           /\ \A s \in lasting : s \in save.seen \/ Home[s] \in Coming(save.left)
  /\ Inventory!AssignableOrRetained

InventoryInv ==
  /\ HostTyped /\ Stages
  /\ scan.at # "idle" => Steadily /\ Gathered
  /\ Saved

LEMMA ComingFolders ==
  /\ Coming(<<>>) = {}
  /\ \A q \in Seq(Folder) : q # <<>> => /\ Head(q) \in Folder /\ Tail(q) \in Seq(Folder)
                                        /\ Coming(q) = {Head(q)} \cup Coming(Tail(q))
  /\ Order \in Seq(Folder) /\ Coming(Order) = Folder
<1>1. Coming(<<>>) = {}
  BY DEF Coming
<1>2. ASSUME NEW q \in Seq(Folder), q # <<>>
      PROVE  /\ Head(q) \in Folder /\ Tail(q) \in Seq(Folder)
             /\ Coming(q) = {Head(q)} \cup Coming(Tail(q))
  <2>1. /\ Head(q) = q[1] /\ Head(q) \in Folder /\ Tail(q) \in Seq(Folder)
        /\ Len(q) \in Nat /\ Len(q) > 0 /\ Len(Tail(q)) = Len(q) - 1
        /\ \A i \in 1..Len(q) - 1 : Tail(q)[i] = q[i + 1]
    BY <1>2
  <2>2. ASSUME NEW f \in Coming(q) PROVE f \in {Head(q)} \cup Coming(Tail(q))
    <3>1. PICK i \in 1..Len(q) : f = q[i]
      BY <2>2 DEF Coming
    <3>2. CASE i = 1
      BY <2>1, <3>1, <3>2
    <3>3. CASE i # 1
      <4>1. i - 1 \in 1..Len(Tail(q)) /\ f = Tail(q)[i - 1]
        BY <2>1, <3>1, <3>3
      <4>2. QED BY <4>1 DEF Coming
    <3>4. QED BY <3>2, <3>3
  <2>3. ASSUME NEW f \in {Head(q)} \cup Coming(Tail(q)) PROVE f \in Coming(q)
    <3>1. CASE f = Head(q)
      <4>1. 1 \in 1..Len(q) /\ f = q[1]
        BY <2>1, <3>1
      <4>2. QED BY <4>1 DEF Coming
    <3>2. CASE f \in Coming(Tail(q))
      <4>1. PICK i \in 1..Len(Tail(q)) : f = Tail(q)[i]
        BY <3>2 DEF Coming
      <4>2. i + 1 \in 1..Len(q) /\ f = q[i + 1]
        BY <2>1, <4>1
      <4>3. QED BY <4>2 DEF Coming
    <3>3. QED BY <2>3, <3>1, <3>2
  <2>4. QED BY <2>1, <2>2, <2>3
<1>3. Order \in Seq(Folder) /\ Coming(Order) = Folder
  <2>1. Order \in Seq(Folder) /\ Folder = {Order[i] : i \in DOMAIN Order}
    BY FoldersInOrder DEF Inventory!OrderAssumption, Inventory!Range
  <2>2. DOMAIN Order = 1..Len(Order)
    BY <2>1
  <2>3. QED BY <2>1, <2>2 DEF Coming
<1>4. QED BY <1>1, <1>2, <1>3

(* A change in the host: what is in use stays in use as long as it is to   *)
(* be shown, for a log begins anew only with a session that was not there. *)
Changed ==
  /\ HostTyped'
  /\ \A s \in listed : InUse(s) /\ s \in Inventory!Now' => InUse(s)'
  /\ steady' = steady \cap Inventory!Now' /\ placed' = placed \cup Inventory!Placed'
  /\ worth' = worth \cup Inventory!Worth' /\ lasting' = lasting \cap Inventory!Placed'
  /\ scan' = scan /\ save' = save

LEMMA HostChanges ==
  ASSUME HostTyped, Inventory!HostSteps
  PROVE  Changed \/ UNCHANGED <<x2, x3, x4, x5, x6, x7, x13, x14, x15, x16, x17>>
<1> USE DEF folders, listed, archived, live, log, scan, save, steady, placed, worth, lasting
<1> USE DEF Inventory!Settled, Inventory!loader
<1>1. ASSUME NEW s \in Listable, Inventory!Archive(s) PROVE Changed
  BY <1>1 DEF Inventory!Archive, Changed, HostTyped, InUse
<1>2. ASSUME NEW s \in Listable, Inventory!Create(s) PROVE Changed
  BY <1>2 DEF Inventory!Create, Changed, HostTyped, InUse
<1>3. ASSUME NEW s \in Listable, Inventory!Works(s) PROVE Changed
  BY <1>3 DEF Inventory!Works, Changed, HostTyped, InUse
<1>4. ASSUME NEW s \in Listable, Inventory!Loads(s) PROVE Changed
  BY <1>4 DEF Inventory!Loads, Changed, HostTyped, InUse
<1>5. ASSUME NEW s \in Listable, Inventory!Delete(s) PROVE Changed
  <2>1. /\ s \notin x5 /\ x5' = x5 /\ x6' = [x6 EXCEPT ![s] = "gone"]
        /\ UNCHANGED <<x1, x2, x3, x4>> /\ Inventory!Settled
    BY <1>5 DEF Inventory!Delete
  <2>2. \A z \in listed : InUse(z) /\ z \in Inventory!Now' => InUse(z)'
    BY <2>1 DEF HostTyped, InUse, Inventory!Now, Inventory!Worth
  <2>3. QED BY <2>1, <2>2 DEF Changed, HostTyped
<1>6. ASSUME NEW f \in Folder, Inventory!FolderMoves(f) PROVE Changed
  BY <1>6 DEF Inventory!FolderMoves, Changed, HostTyped, InUse
<1>7. CASE Inventory!RegistryComes
  BY <1>7 DEF Inventory!RegistryComes, Inventory!ghosts
<1>8. QED BY <1>1, <1>2, <1>3, <1>4, <1>5, <1>6, <1>7 DEF Inventory!HostSteps

LEMMA ChangedKeeps ==
  ASSUME InventoryInv, Changed
  PROVE  InventoryInv'
<1> USE DEF InventoryInv, Changed
<1>1. Stages'
  BY DEF Stages, scan
<1>2. ASSUME scan.at # "idle" PROVE Steadily'
  <2>1. SUFFICES ASSUME NEW s \in steady'
                 PROVE  /\ s \in Inventory!Now'
                        /\ s \notin scan.archived \cup scan.hidden
                        /\ s \in scan.slots \/ Home[s] \in Coming(scan.left)
                        /\ s \in Judging => InUse(s)'
    BY DEF Steadily, Judging, scan
  <2>2. s \in steady /\ s \in Inventory!Now'
    BY <2>1
  <2>3. /\ s \in Inventory!Now
        /\ s \notin scan.archived \cup scan.hidden
        /\ s \in scan.slots \/ Home[s] \in Coming(scan.left)
        /\ s \in Judging => InUse(s)
    BY <1>2, <2>2 DEF Steadily
  <2>4. s \in listed
    BY <2>3 DEF Inventory!Now, Inventory!Placed, listed
  <2>5. QED BY <2>2, <2>3, <2>4
<1>3. ASSUME scan.at # "idle" PROVE Gathered'
  <2>1. Gathered /\ placed \subseteq placed' /\ worth \subseteq worth'
    BY <1>3
  <2>2. QED BY <2>1 DEF Gathered, Judging, scan
<1>4. Saved'
  <2>1. lasting' \subseteq lasting /\ lasting' \subseteq Inventory!Placed'
    OBVIOUS
  <2>2. x13' = x13 /\ x17' = x17 \cap Inventory!Placed'
    BY DEF save, lasting
  <2>3. Inventory!AssignableOrRetained'
    BY <2>2 DEF Saved, Inventory!AssignableOrRetained
  <2>4. QED BY <2>1, <2>2, <2>3 DEF Saved, save
<1>5. QED BY <1>1, <1>2, <1>3, <1>4 DEF scan

(* A gathering begins, or the one under way is joined.                     *)
LEMMA BegunKeeps ==
  ASSUME HostTyped, Stages, scan.at # "idle" => Steadily /\ Gathered, Inventory!Begun, UNCHANGED Inventory!host
  PROVE  Stages' /\ Steadily' /\ Gathered'
<1> USE DEF Inventory!host
<1>1. CASE scan.at = "idle"
  <2>1. /\ scan' = [Inventory!Idle EXCEPT !.at = "status", !.left = Order, !.archived = archived]
        /\ steady' = Inventory!Now /\ placed' = Inventory!Placed /\ worth' = Inventory!Worth
    BY <1>1 DEF Inventory!Begun, scan, archived, steady, placed, worth
  <2>2. /\ scan' = [at |-> "status", left |-> Order, archived |-> archived, slots |-> {}, pending |-> {}, titles |-> {},
                    hidden |-> {}, reading |-> {}, events |-> {}]
    BY <2>1 DEF Inventory!Idle
  <2>3. /\ scan'.at = "status" /\ scan'.left = Order /\ scan'.archived = archived /\ scan'.slots = {}
        /\ scan'.pending = {} /\ scan'.titles = {} /\ scan'.hidden = {} /\ scan'.reading = {} /\ scan'.events = {}
    BY <2>2
  <2>10. Stages'
    BY <2>2, ComingFolders DEF Stages, Scan, HostTyped
  <2>4. /\ Inventory!Now' = Inventory!Now /\ Inventory!Placed' = Inventory!Placed
        /\ Inventory!Worth' = Inventory!Worth
    BY DEF Inventory!Now, Inventory!Placed, Inventory!Worth
  <2>5. \A s \in Inventory!Now : s \notin archived /\ Home[s] \in Folder
    BY DEF Inventory!Now, Inventory!Placed, HostTyped, folders, archived
  <2>6. Judging' = {}
    BY <2>3 DEF Judging
  <2>7. Steadily'
    BY <2>1, <2>3, <2>4, <2>5, <2>6, ComingFolders DEF Steadily
  <2>8. Gathered'
    BY <2>1, <2>3, <2>4 DEF Gathered
  <2>9. QED BY <2>7, <2>8, <2>10
<1>2. CASE scan.at # "idle"
  <2>1. UNCHANGED <<x2, x3, x4, x5, x6, x7, x14, x15, x16>>
    BY <1>2 DEF Inventory!Begun, scan
  <2>2. QED BY <1>2, <2>1 DEF Stages, Steadily, Gathered, Judging, InUse, scan, steady, placed, worth, log,
               Inventory!Now, Inventory!Placed, Inventory!Worth, Scan
<1>3. QED BY <1>1, <1>2

(* The steps of a gathering.                                               *)
ScanUnchanged == UNCHANGED <<x2, x3, x4, x5, x6, x13, x14, x15, x16, x17>>
Onwards == ScanUnchanged /\ Stages' /\ (scan'.at # "idle" => Steadily' /\ Gathered')

(* A step after the folders decides only what is hidden and what is still  *)
(* to be judged.                                                           *)
LEMMA JudgedFurther ==
  ASSUME Steadily, Gathered, ScanUnchanged, Stages',
         scan'.slots = scan.slots, scan'.archived = scan.archived, scan'.left = scan.left,
         \A s \in steady : s \notin scan'.hidden /\ (s \in Judging' => InUse(s)),
         scan'.titles \subseteq worth,
         \A s \in scan.slots : s \in worth \/ s \in Judging' \/ (scan'.at = "surface" /\ s \in scan'.hidden)
  PROVE  Onwards
<1>1. /\ Inventory!Now' = Inventory!Now /\ Inventory!Placed' = Inventory!Placed
      /\ Inventory!Worth' = Inventory!Worth /\ (\A s : InUse(s)' = InUse(s))
      /\ steady' = steady /\ placed' = placed /\ worth' = worth
  BY DEF ScanUnchanged, Inventory!Now, Inventory!Placed, Inventory!Worth, InUse, log, steady, placed, worth
<1>2. Steadily'
  BY <1>1 DEF Steadily
<1>3. Gathered'
  BY <1>1 DEF Gathered
<1>4. QED BY <1>2, <1>3 DEF Onwards

LEMMA InUseIsWorth ==
  ASSUME HostTyped, Steadily, Gathered
  PROVE  /\ \A s \in Listable : InUse(s) => s \in worth
         /\ \A s \in steady : s \in Judging => log[s] \notin {"gone", "blank"}
<1>1. \A s \in Listable : InUse(s) => s \in Inventory!Worth
  BY DEF InUse, log, Inventory!Worth
<1>2. QED BY <1>1 DEF Steadily, Gathered, InUse

LEMMA FolderKeeps ==
  ASSUME HostTyped, Stages, Steadily, Gathered, Inventory!StatusRead
  PROVE  Onwards
<1> DEFINE f == Head(scan.left)
           taken == {s \in listed \ scan.archived : Home[s] = f}
<1>1. /\ scan.at = "status" /\ scan.left # <<>> /\ ScanUnchanged
      /\ IF f \in folders
           THEN scan' = [scan EXCEPT !.left = Tail(@), !.slots = @ \cup taken, !.pending = @ \cup (taken \ live)]
           ELSE scan' = [scan EXCEPT !.left = Tail(@)]
  BY DEF Inventory!StatusRead, Inventory!TakesFolder, Inventory!Scans, Inventory!ghosts, Inventory!host, scan,
     folders, listed, live, ScanUnchanged
<1>2. scan \in Scan /\ taken \subseteq Listable /\ f \in Folder
      /\ Tail(scan.left) \in Seq(Folder) /\ Coming(scan.left) = {f} \cup Coming(Tail(scan.left))
  BY <1>1, ComingFolders DEF Stages, HostTyped, Scan
<1>3. /\ Inventory!Now' = Inventory!Now /\ Inventory!Placed' = Inventory!Placed
      /\ Inventory!Worth' = Inventory!Worth /\ (\A s : InUse(s)' = InUse(s))
      /\ steady' = steady /\ placed' = placed /\ worth' = worth
  BY <1>1 DEF ScanUnchanged, Inventory!Now, Inventory!Placed, Inventory!Worth, InUse, log, steady, placed, worth
<1> HIDE DEF f, taken
<1>4. /\ scan'.at = "status" /\ scan'.left = Tail(scan.left) /\ scan'.archived = scan.archived
      /\ scan'.titles = scan.titles /\ scan'.hidden = scan.hidden /\ scan'.reading = scan.reading
      /\ scan'.events = scan.events /\ scan' \in Scan
      /\ f \in folders => /\ scan'.slots = scan.slots \cup taken
                          /\ scan'.pending = scan.pending \cup (taken \ live)
      /\ f \notin folders => scan'.slots = scan.slots /\ scan'.pending = scan.pending
  <2>1. CASE f \in folders
    <3> DEFINE q == Tail(scan.left)
               S == scan.slots \cup taken
               P == scan.pending \cup (taken \ live)
    <3>1. scan' = [scan EXCEPT !.left = q, !.slots = S, !.pending = P]
      BY <1>1, <2>1
    <3>2. q \in Seq(Folder) /\ S \in SUBSET Listable /\ P \in SUBSET Listable
      BY <1>2 DEF Scan
    <3> HIDE DEF q, S, P
    <3>3. /\ scan' \in Scan /\ scan'.left = q /\ scan'.slots = S /\ scan'.pending = P
          /\ scan'.at = scan.at /\ scan'.archived = scan.archived
          /\ scan'.titles = scan.titles /\ scan'.hidden = scan.hidden
          /\ scan'.reading = scan.reading /\ scan'.events = scan.events
      BY <1>2, <3>1, <3>2 DEF Scan
    <3>4. QED BY <1>1, <2>1, <3>3 DEF q, S, P
  <2>2. CASE f \notin folders
    BY <1>1, <1>2, <2>2 DEF Scan
  <2>3. QED BY <2>1, <2>2
<1>5. Stages'
  BY <1>1, <1>4 DEF Stages
<1>6. \A s : s \in Inventory!Now => s \in listed /\ Home[s] \in folders /\ (s \in live \/ InUse(s))
  BY DEF Inventory!Now, Inventory!Placed, Inventory!Worth, listed, folders, live, log, InUse
<1>7. \A s \in steady : s \in scan'.slots \/ Home[s] \in Coming(scan'.left)
  BY <1>2, <1>4, <1>6 DEF Steadily, taken
<1>8. \A s \in Judging' : s \in Judging \/ s \notin live
  BY <1>4 DEF Judging
<1>9. Steadily'
  BY <1>3, <1>4, <1>6, <1>7, <1>8 DEF Steadily
<1>10. f \in folders => taken \subseteq Inventory!Placed
  BY DEF taken, Inventory!Placed, listed, folders
<1>11. live \subseteq Inventory!Worth
  BY DEF Inventory!Worth, live
<1>12. \A s \in scan'.slots : s \in worth \/ s \in Judging'
  <2>1. \A s \in scan.slots : s \in worth \/ s \in Judging'
    BY <1>1, <1>4 DEF Gathered, Judging
  <2>2. f \in folders => \A s \in taken : s \in worth \/ s \in Judging'
    BY <1>4, <1>11 DEF Gathered, Judging
  <2>3. QED BY <1>4, <2>1, <2>2
<1>13. Gathered'
  BY <1>3, <1>4, <1>10, <1>12 DEF Gathered
<1>14. QED BY <1>1, <1>5, <1>9, <1>13 DEF Onwards

LEMMA StatusesKeep ==
  ASSUME HostTyped, Stages, Steadily, Gathered, Inventory!StatusesRead
  PROVE  Onwards
<1>1. /\ scan.at = "status" /\ scan.left = <<>> /\ ScanUnchanged
      /\ scan' = [scan EXCEPT !.at = "batch", !.reading = scan.pending]
  BY DEF Inventory!StatusesRead, Inventory!Scans, Inventory!ghosts, Inventory!host, scan, ScanUnchanged
<1>2. scan \in Scan
  BY DEF Stages
<1>3. /\ scan' \in Scan /\ scan'.at = "batch" /\ scan'.reading = scan.pending
      /\ scan'.left = scan.left /\ scan'.archived = scan.archived /\ scan'.slots = scan.slots
      /\ scan'.pending = scan.pending /\ scan'.titles = scan.titles /\ scan'.hidden = scan.hidden
      /\ scan'.events = scan.events
  BY <1>1, <1>2 DEF Scan
<1>4. Stages'
  BY <1>1, <1>3 DEF Stages
<1>5. Judging' = Judging
  BY <1>1, <1>3 DEF Stages, Judging
<1>6. QED BY <1>1, <1>3, <1>4, <1>5, JudgedFurther DEF Steadily, Gathered

LEMMA TitleKeeps ==
  ASSUME HostTyped, Stages, Steadily, Gathered, Inventory!TitleRead
  PROVE  Onwards
<1>1. /\ scan.at \in {"batch", "each"} /\ ScanUnchanged
      /\ \E s \in scan.reading : scan' = Inventory!TitleOf(s)
  BY DEF Inventory!TitleRead, Inventory!Scans, Inventory!ghosts, Inventory!host, scan, ScanUnchanged
<1>2. PICK s \in scan.reading : scan' = Inventory!TitleOf(s)
  BY <1>1
<1>3. scan \in Scan /\ s \in Listable /\ s \in scan.pending
  BY <1>1 DEF Stages, Scan
<1> DEFINE R == scan.reading \ {s}
           T == IF log[s] = "titled" THEN scan.titles \cup {s} ELSE scan.titles
           H == IF log[s] = "gone" THEN scan.hidden \cup {s} ELSE scan.hidden
<1>4. scan' = [scan EXCEPT !.reading = R, !.titles = T, !.hidden = H]
  BY <1>2 DEF Inventory!TitleOf, scan, log
<1>5. R \in SUBSET Listable /\ T \in SUBSET Listable /\ H \in SUBSET Listable
  BY <1>3 DEF Scan
<1>6. /\ R \subseteq scan.reading
      /\ \A z \in T : z \in scan.titles \/ (z = s /\ InUse(s))
      /\ \A z \in H : z \in scan.hidden \/ (z = s /\ log[s] = "gone")
      /\ H \subseteq scan.hidden \cup {s}
  BY DEF InUse
<1> HIDE DEF R, T, H
<1>7. /\ scan' \in Scan /\ scan'.reading = R /\ scan'.titles = T /\ scan'.hidden = H /\ scan'.at = scan.at
      /\ scan'.left = scan.left /\ scan'.archived = scan.archived /\ scan'.slots = scan.slots
      /\ scan'.pending = scan.pending /\ scan'.events = scan.events
  BY <1>3, <1>4, <1>5 DEF Scan
<1>8. Stages'
  BY <1>1, <1>3, <1>6, <1>7 DEF Stages
<1>9. Judging' = Judging
  BY <1>1, <1>6, <1>7 DEF Stages, Judging
<1>10. s \in Judging
  BY <1>3 DEF Judging
<1>11. \A z \in steady : z \notin scan'.hidden /\ (z \in Judging' => InUse(z))
  BY <1>6, <1>7, <1>9, <1>10, InUseIsWorth DEF Steadily
<1>12. scan'.titles \subseteq worth
  BY <1>3, <1>6, <1>7, InUseIsWorth DEF Gathered
<1>13. QED BY <1>1, <1>7, <1>8, <1>9, <1>11, <1>12, JudgedFurther DEF Gathered

LEMMA BatchKeeps ==
  ASSUME HostTyped, Stages, Steadily, Gathered, Inventory!BatchEnds
  PROVE  Onwards
<1>1. /\ scan.at = "batch" /\ ScanUnchanged
      /\ \/ scan' = [scan EXCEPT !.at = "each"]
         \/ scan' = [scan EXCEPT !.at = "each", !.reading = scan.pending, !.titles = {}, !.hidden = {}]
  BY DEF Inventory!BatchEnds, Inventory!Scans, Inventory!ghosts, Inventory!host, scan, ScanUnchanged
<1>2. scan \in Scan
  BY DEF Stages
<1>3. /\ scan' \in Scan /\ scan'.at = "each" /\ scan'.reading \subseteq scan.pending
      /\ scan'.left = scan.left /\ scan'.archived = scan.archived /\ scan'.slots = scan.slots
      /\ scan'.pending = scan.pending /\ scan'.titles \subseteq scan.titles /\ scan'.hidden \subseteq scan.hidden
      /\ scan'.events = scan.events
  <2>1. CASE scan' = [scan EXCEPT !.at = "each"]
    BY <1>1, <1>2, <2>1 DEF Scan, Stages
  <2>2. CASE scan' = [scan EXCEPT !.at = "each", !.reading = scan.pending, !.titles = {}, !.hidden = {}]
    BY <1>2, <2>2 DEF Scan
  <2>3. QED BY <1>1, <2>1, <2>2
<1>4. Stages'
  BY <1>1, <1>3 DEF Stages
<1>5. Judging' = Judging
  BY <1>1, <1>3 DEF Stages, Judging
<1>6. QED BY <1>1, <1>3, <1>4, <1>5, JudgedFurther DEF Steadily, Gathered

LEMMA TitlesKeep ==
  ASSUME HostTyped, Stages, Steadily, Gathered, Inventory!TitlesRead
  PROVE  Onwards
<1> DEFINE P == scan.pending \ (scan.titles \cup scan.hidden)
<1>1. /\ scan.at = "each" /\ scan.reading = {} /\ ScanUnchanged
      /\ scan' = [scan EXCEPT !.at = "surface", !.pending = P]
  BY DEF Inventory!TitlesRead, Inventory!Untitled, Inventory!Scans, Inventory!ghosts, Inventory!host, scan,
     ScanUnchanged
<1>2. scan \in Scan
  BY DEF Stages
<1>3. P \in SUBSET Listable
  BY <1>2 DEF Scan
<1>4. /\ P \subseteq scan.pending
      /\ \A s \in scan.pending : s \in P \/ s \in scan.titles \/ s \in scan.hidden
  OBVIOUS
<1> HIDE DEF P
<1>5. /\ scan' \in Scan /\ scan'.at = "surface" /\ scan'.pending = P
      /\ scan'.left = scan.left /\ scan'.archived = scan.archived /\ scan'.slots = scan.slots
      /\ scan'.reading = scan.reading /\ scan'.titles = scan.titles /\ scan'.hidden = scan.hidden
      /\ scan'.events = scan.events
  BY <1>1, <1>2, <1>3 DEF Scan
<1>6. Stages'
  BY <1>1, <1>5 DEF Stages
<1>7. Judging' = P /\ Judging = scan.pending
  BY <1>1, <1>5 DEF Stages, Judging
<1>8. \A s \in steady : s \notin scan'.hidden /\ (s \in Judging' => InUse(s))
  BY <1>4, <1>5, <1>7 DEF Steadily
<1>9. \A s \in scan.slots : s \in worth \/ s \in Judging' \/ (scan'.at = "surface" /\ s \in scan'.hidden)
  BY <1>1, <1>4, <1>5, <1>7 DEF Gathered
<1>10. scan'.titles \subseteq worth
  BY <1>5 DEF Gathered
<1>11. QED BY <1>1, <1>5, <1>6, <1>8, <1>9, <1>10, JudgedFurther

LEMMA WorkerKeeps ==
  ASSUME HostTyped, Stages, Steadily, Gathered, NEW s \in Listable, Inventory!WorkerTakes(s)
  PROVE  Onwards
<1> DEFINE P == scan.pending \ {s}
           R == scan.reading \cup {s}
<1>1. /\ scan.at = "surface" /\ s \in scan.pending /\ ScanUnchanged
      /\ scan' = [scan EXCEPT !.pending = P, !.reading = R]
  BY DEF Inventory!WorkerTakes, Inventory!Scans, Inventory!ghosts, Inventory!host, scan, ScanUnchanged
<1>2. scan \in Scan
  BY DEF Stages
<1>3. P \in SUBSET Listable /\ R \in SUBSET Listable
  BY <1>2 DEF Scan
<1>4. P \cup R = scan.pending \cup scan.reading
  BY <1>1
<1> HIDE DEF P, R
<1>5. /\ scan' \in Scan /\ scan'.at = scan.at /\ scan'.pending = P /\ scan'.reading = R
      /\ scan'.left = scan.left /\ scan'.archived = scan.archived /\ scan'.slots = scan.slots
      /\ scan'.titles = scan.titles /\ scan'.hidden = scan.hidden /\ scan'.events = scan.events
  BY <1>1, <1>2, <1>3 DEF Scan
<1>6. Stages'
  BY <1>1, <1>5 DEF Stages
<1>7. Judging' = Judging
  BY <1>4, <1>5 DEF Judging
<1>8. QED BY <1>1, <1>5, <1>6, <1>7, JudgedFurther DEF Steadily, Gathered

LEMMA SurfaceKeeps ==
  ASSUME HostTyped, Stages, Steadily, Gathered, NEW s \in Listable, Inventory!SurfaceRead(s) \/ Inventory!EventsRead(s)
  PROVE  Onwards
<1>1. scan.at = "surface" /\ ScanUnchanged /\ scan \in Scan /\ s \in Judging
  BY DEF Inventory!SurfaceRead, Inventory!EventsRead, Inventory!Scans, Inventory!ghosts, Inventory!host, scan,
     ScanUnchanged, Stages, Judging
<1>2. PICK R \in SUBSET Listable, H \in SUBSET Listable, E \in SUBSET Listable :
        /\ scan' = [scan EXCEPT !.reading = R, !.hidden = H, !.events = E]
        /\ R \cup E \subseteq scan.reading \cup scan.events
        /\ scan.reading \cup scan.events \subseteq R \cup E \cup {s}
        /\ scan.hidden \subseteq H
        /\ H \subseteq scan.hidden \cup {s}
        /\ s \in H \ scan.hidden => log[s] \in {"gone", "blank"}
        /\ s \in R \cup E \cup H \/ InUse(s)
  <2>1. log[s] \in {"gone", "blank", "used", "titled"}
    BY DEF HostTyped
  <2>2. /\ scan.reading \in SUBSET Listable /\ scan.hidden \in SUBSET Listable /\ scan.events \in SUBSET Listable
    BY <1>1 DEF Scan
  <2>3. CASE Inventory!SurfaceRead(s)
    <3> DEFINE R == scan.reading \ {s}
               H == IF log[s] = "gone" THEN scan.hidden \cup {s} ELSE scan.hidden
               E == IF log[s] = "blank" THEN scan.events \cup {s} ELSE scan.events
    <3>1. scan' = [scan EXCEPT !.reading = R, !.hidden = H, !.events = E] /\ s \in scan.reading
      BY <2>3 DEF Inventory!SurfaceRead, scan, log
    <3>2. R \in SUBSET Listable /\ H \in SUBSET Listable /\ E \in SUBSET Listable
      BY <2>2
    <3>3. /\ R \cup E \subseteq scan.reading \cup scan.events
          /\ scan.reading \cup scan.events \subseteq R \cup E \cup {s}
          /\ scan.hidden \subseteq H
          /\ H \subseteq scan.hidden \cup {s}
          /\ s \in H \ scan.hidden => log[s] \in {"gone", "blank"}
          /\ s \in R \cup E \cup H \/ InUse(s)
      BY <2>1, <3>1 DEF InUse
    <3> HIDE DEF R, H, E
    <3>4. QED BY <3>1, <3>2, <3>3
  <2>4. CASE Inventory!EventsRead(s)
    <3> DEFINE R == scan.reading
               H == IF log[s] \in {"gone", "blank"} THEN scan.hidden \cup {s} ELSE scan.hidden
               E == scan.events \ {s}
    <3>1. scan' = [scan EXCEPT !.events = E, !.hidden = H] /\ s \in scan.events
      BY <2>4 DEF Inventory!EventsRead, scan, log
    <3>2. R \in SUBSET Listable /\ H \in SUBSET Listable /\ E \in SUBSET Listable
      BY <2>2
    <3>3. /\ R \cup E \subseteq scan.reading \cup scan.events
          /\ scan.reading \cup scan.events \subseteq R \cup E \cup {s}
          /\ scan.hidden \subseteq H
          /\ H \subseteq scan.hidden \cup {s}
          /\ s \in H \ scan.hidden => log[s] \in {"gone", "blank"}
          /\ s \in R \cup E \cup H \/ InUse(s)
      BY <2>1, <3>1 DEF InUse
    <3>4. R = scan.reading
      OBVIOUS
    <3> HIDE DEF R, H, E
    <3>5. scan' = [scan EXCEPT !.reading = R, !.hidden = H, !.events = E]
      BY <1>1, <3>1, <3>4 DEF Scan
    <3>6. QED BY <3>2, <3>3, <3>5
  <2>5. QED BY <2>3, <2>4
<1>3. /\ scan' \in Scan /\ scan'.at = scan.at /\ scan'.reading = R /\ scan'.hidden = H /\ scan'.events = E
      /\ scan'.left = scan.left /\ scan'.archived = scan.archived /\ scan'.slots = scan.slots
      /\ scan'.titles = scan.titles /\ scan'.pending = scan.pending
  BY <1>1, <1>2 DEF Scan
<1>4. Stages'
  BY <1>1, <1>3 DEF Stages
<1>5. Judging' \subseteq Judging /\ Judging \subseteq Judging' \cup {s}
  BY <1>2, <1>3 DEF Judging
<1>6. s \in steady => log[s] \notin {"gone", "blank"}
  BY <1>1, InUseIsWorth
<1>7. \A z \in steady : z \notin scan'.hidden /\ (z \in Judging' => InUse(z))
  BY <1>2, <1>3, <1>5, <1>6 DEF Steadily
<1>8. s \in worth \/ s \in Judging' \/ s \in scan'.hidden
  BY <1>2, <1>3, InUseIsWorth DEF Judging
<1>9. \A z \in scan.slots : z \in worth \/ z \in Judging' \/ (scan'.at = "surface" /\ z \in scan'.hidden)
  BY <1>1, <1>2, <1>3, <1>5, <1>8 DEF Gathered
<1>10. scan'.titles \subseteq worth
  BY <1>3 DEF Gathered
<1>11. QED BY <1>1, <1>3, <1>4, <1>7, <1>9, <1>10, JudgedFurther

LEMMA IdleScan == Inventory!Idle \in Scan /\ Inventory!Idle.at = "idle"
  BY DEF Inventory!Idle, Scan

LEMMA ScanKeeps ==
  ASSUME HostTyped, Stages, scan.at # "idle" => Steadily /\ Gathered, Inventory!ScanSteps
  PROVE  Onwards
<1>1. CASE Inventory!ScanEnds \/ Inventory!ScanFails
  <2>1. scan' = Inventory!Idle /\ ScanUnchanged
    BY <1>1 DEF Inventory!ScanEnds, Inventory!ScanFails, Inventory!ghosts, Inventory!host, scan, ScanUnchanged
  <2>2. Stages'
    BY <2>1, IdleScan DEF Stages
  <2>3. QED BY <2>1, <2>2, IdleScan DEF Onwards
<1>2. CASE ~(Inventory!ScanEnds \/ Inventory!ScanFails)
  <2>1. Inventory!ScanSteps => scan.at # "idle"
    BY <1>2 DEF Inventory!ScanSteps, Inventory!StatusRead, Inventory!StatusesRead, Inventory!TitleRead,
       Inventory!BatchEnds, Inventory!TitlesRead, Inventory!WorkerTakes, Inventory!SurfaceRead,
       Inventory!EventsRead, scan
  <2>2. QED BY <1>2, <2>1, FolderKeeps, StatusesKeep, TitleKeeps, BatchKeeps, TitlesKeep, WorkerKeeps, SurfaceKeeps
            DEF Inventory!ScanSteps
<1>3. QED BY <1>1, <1>2

LEMMA LoaderKeeps ==
  ASSUME InventoryInv, Inventory!LoaderSteps
  PROVE  InventoryInv'
<1>1. /\ UNCHANGED Inventory!host /\ UNCHANGED <<x13, x17>>
      /\ Inventory!Begun \/ UNCHANGED <<x7, x14, x15, x16>>
  BY DEF Inventory!LoaderSteps, Inventory!LoadCached, Inventory!Load, Inventory!CallerReturns, Inventory!Ages,
     Inventory!Prewarm, Inventory!PrewarmCancelled, Inventory!Refresh, Inventory!ghosts, Inventory!host
<1>2. UNCHANGED <<x2, x3, x4, x5, x6>>
  BY <1>1 DEF Inventory!host
<1>3. /\ HostTyped' /\ Inventory!Now' = Inventory!Now /\ Inventory!Placed' = Inventory!Placed
      /\ Inventory!Worth' = Inventory!Worth /\ (\A s : InUse(s)' = InUse(s))
  BY <1>2 DEF InventoryInv, HostTyped, folders, listed, archived, live, log, Inventory!Now, Inventory!Placed,
     Inventory!Worth, InUse
<1>4. Saved'
  BY <1>1, <1>3 DEF InventoryInv, Saved, save, lasting, Inventory!AssignableOrRetained
<1>5. CASE Inventory!Begun
  BY <1>1, <1>3, <1>4, <1>5, BegunKeeps DEF InventoryInv
<1>6. CASE UNCHANGED <<x7, x14, x15, x16>>
  <2>1. scan' = scan /\ Judging' = Judging /\ steady' = steady /\ placed' = placed /\ worth' = worth
    BY <1>6 DEF scan, Judging, steady, placed, worth
  <2>2. Stages' /\ (scan'.at # "idle" => Steadily' /\ Gathered')
    BY <1>3, <2>1 DEF InventoryInv, Stages, Steadily, Gathered
  <2>3. QED BY <1>3, <1>4, <2>2 DEF InventoryInv
<1>7. QED BY <1>1, <1>5, <1>6

LEMMA SaveKeeps ==
  ASSUME InventoryInv, Inventory!SaveSteps
  PROVE  InventoryInv'
<1> USE DEF Inventory!host, Inventory!loader, Inventory!ghosts
<1>1. UNCHANGED <<x2, x3, x4, x5, x6, x7, x14, x15, x16>>
  BY DEF Inventory!SaveSteps, Inventory!SaveBegins, Inventory!SaveStatusRead, Inventory!SaveRead,
     Inventory!SaveFetched
<1>2. /\ HostTyped' /\ Inventory!Now' = Inventory!Now /\ Inventory!Placed' = Inventory!Placed
      /\ Inventory!Worth' = Inventory!Worth /\ (\A s : InUse(s)' = InUse(s))
      /\ scan' = scan /\ Judging' = Judging /\ steady' = steady /\ placed' = placed /\ worth' = worth
  BY <1>1 DEF InventoryInv, HostTyped, folders, listed, archived, live, log, Inventory!Now, Inventory!Placed,
     Inventory!Worth, InUse, scan, Judging, steady, placed, worth
<1>3. Stages' /\ (scan'.at # "idle" => Steadily' /\ Gathered')
  BY <1>2 DEF InventoryInv, Stages, Steadily, Gathered
<1>4. save \in Saving /\ Saved /\ HostTyped
  BY DEF InventoryInv, Saved
<1>5. \A s \in Inventory!Placed : s \in listed /\ Home[s] \in folders /\ Home[s] \in Folder
  BY <1>4 DEF Inventory!Placed, listed, folders, HostTyped
<1>6. Saved'
  <2>1. CASE Inventory!SaveBegins
    <3>1. save' = [Inventory!Unsaved EXCEPT !.at = "status", !.left = Order, !.then = archived]
          /\ lasting' = Inventory!Placed
      BY <2>1 DEF Inventory!SaveBegins, save, archived, lasting
    <3>2. save' = [at |-> "status", left |-> Order, seen |-> {}, then |-> archived, assignable |-> {}, retained |-> {}]
      BY <3>1 DEF Inventory!Unsaved
    <3>3. save' \in Saving /\ save'.at = "status" /\ save'.left = Order
      BY <1>4, <3>2, ComingFolders DEF Saving, HostTyped
    <3>4. Inventory!AssignableOrRetained'
      BY <3>3 DEF Inventory!AssignableOrRetained, save
    <3>5. QED BY <1>2, <1>5, <3>1, <3>3, <3>4, ComingFolders DEF Saved
  <2>2. CASE Inventory!SaveStatusRead
    <3> DEFINE f == Head(save.left)
               S == IF f \in folders THEN save.seen \cup {s \in listed : Home[s] = f} ELSE save.seen
               q == Tail(save.left)
    <3>1. save.at = "status" /\ save.left # <<>> /\ save' = [save EXCEPT !.left = q, !.seen = S] /\ lasting' = lasting
      BY <2>2 DEF Inventory!SaveStatusRead, save, folders, listed, lasting
    <3>2. q \in Seq(Folder) /\ S \in SUBSET Listable /\ Coming(save.left) = {f} \cup Coming(q)
      BY <1>4, <3>1, ComingFolders DEF Saving, HostTyped
    <3>3. \A s \in lasting : s \in S \/ Home[s] \in Coming(q)
      BY <1>4, <1>5, <3>1, <3>2 DEF Saved
    <3> HIDE DEF S, q, f
    <3>4. save' \in Saving /\ save'.at = "status" /\ save'.left = q /\ save'.seen = S
      BY <1>4, <3>1, <3>2 DEF Saving
    <3>5. Inventory!AssignableOrRetained'
      BY <3>4 DEF Inventory!AssignableOrRetained, save
    <3>6. QED BY <1>2, <1>4, <3>1, <3>3, <3>4, <3>5 DEF Saved
  <2>3. CASE Inventory!SaveRead
    <3> DEFINE A == save.seen \ archived
    <3>1. /\ save.at = "status" /\ save.left = <<>> /\ lasting' = lasting
          /\ save' = [save EXCEPT !.at = "over", !.assignable = A, !.retained = archived]
      BY <2>3 DEF Inventory!SaveRead, Inventory!Split, save, archived, lasting
    <3>2. A \in SUBSET Listable /\ archived \in SUBSET Listable
      BY <1>4 DEF Saving, HostTyped
    <3>3. A \cap archived = {} /\ lasting \subseteq A \cup archived
      BY <1>4, <3>1, ComingFolders DEF Saved
    <3> HIDE DEF A
    <3>4. save' \in Saving /\ save'.at = "over" /\ save'.assignable = A /\ save'.retained = archived
      BY <1>4, <3>1, <3>2 DEF Saving
    <3>5. Inventory!AssignableOrRetained'
      BY <3>1, <3>3, <3>4 DEF Inventory!AssignableOrRetained, save, lasting
    <3>6. QED BY <3>4, <3>5 DEF Saved
  <2>4. CASE Inventory!SaveFetched
    <3>1. save' = Inventory!Unsaved
      BY <2>4 DEF Inventory!SaveFetched, save
    <3>2. save' \in Saving /\ save'.at = "idle"
      BY <3>1, ComingFolders DEF Inventory!Unsaved, Saving
    <3>3. Inventory!AssignableOrRetained'
      BY <3>2 DEF Inventory!AssignableOrRetained, save
    <3>4. QED BY <3>2, <3>3 DEF Saved
  <2>5. QED BY <2>1, <2>2, <2>3, <2>4 DEF Inventory!SaveSteps
<1>7. QED BY <1>2, <1>3, <1>6 DEF InventoryInv

LEMMA InventoryInit ==
  ASSUME Inventory!Init PROVE InventoryInv
<1>1. HostTyped
  BY DEF Inventory!Init, HostTyped, folders, listed, archived, live, log
<1>2. scan = Inventory!Idle /\ Stages
  BY IdleScan DEF Inventory!Init, Stages, scan
<1>3. save \in Saving /\ save.at = "idle"
  BY DEF Inventory!Init, Inventory!Unsaved, Saving, save
<1>4. Saved
  BY <1>3 DEF Saved, Inventory!AssignableOrRetained, save
<1>5. QED BY <1>1, <1>2, <1>4, IdleScan DEF InventoryInv

(* A list has what was to be shown all the time it was gathered, and a     *)
(* save loses no grant of a session listed meanwhile (plugin.ts:1092, 1221)*)
THEOREM InventoryHolds == Spec => []InventoryWhole
<1> DEFINE Inv == part \in {"shown", "saved"} => InventoryInv
<1>1. Init => Inv
  BY InventoryInit DEF Init
<1>2. Inv /\ [Next]_vars => Inv'
  <2>1. SUFFICES ASSUME InventoryInv, [Next]_vars, part \in {"shown", "saved"} PROVE InventoryInv'
    BY PartStays
  <2>2. InventoryNext \/ UNCHANGED InventoryVars
    BY <2>1 DEF Next, vars, InventoryVars, InventoryNext, ModelsSteps, InventorySteps, EndpointsSteps, LoginsSteps,
       QuotaSteps, WorkspacesSteps
  <2>3. CASE UNCHANGED InventoryVars
    BY <2>1, <2>3 DEF InventoryVars, InventoryInv, HostTyped, Stages, Steadily, Gathered, Saved, Judging, InUse,
       Inventory!AssignableOrRetained, Inventory!Now, Inventory!Placed, Inventory!Worth, folders, listed, archived,
       live, log, scan, save, steady, placed, worth, lasting
  <2>4. CASE Inventory!HostSteps
    <3>1. CASE Changed
      BY <2>1, <3>1, ChangedKeeps
    <3>2. CASE UNCHANGED <<x2, x3, x4, x5, x6, x7, x13, x14, x15, x16, x17>>
      BY <2>1, <3>2 DEF InventoryInv, HostTyped, Stages, Steadily, Gathered, Saved, Judging, InUse,
         Inventory!AssignableOrRetained, Inventory!Now, Inventory!Placed, Inventory!Worth, folders, listed, archived,
         live, log, scan, save, steady, placed, worth, lasting
    <3>3. QED BY <2>1, <2>4, <3>1, <3>2, HostChanges DEF InventoryInv
  <2>5. CASE Inventory!ScanSteps
    <3>1. Onwards
      BY <2>1, <2>5, ScanKeeps DEF InventoryInv
    <3>2. HostTyped' /\ Saved'
      BY <2>1, <3>1 DEF Onwards, ScanUnchanged, InventoryInv, HostTyped, Saved, Inventory!AssignableOrRetained,
         Inventory!Placed, folders, listed, archived, live, log, save, lasting
    <3>3. QED BY <3>1, <3>2 DEF Onwards, InventoryInv
  <2>6. QED BY <2>1, <2>2, <2>3, <2>4, <2>5, LoaderKeeps, SaveKeeps DEF InventoryNext
<1>3. Inv => InventoryWhole
  <2>1. SUFFICES ASSUME InventoryInv PROVE Inventory!GathersWhatLasted /\ Inventory!AssignableOrRetained
    BY DEF InventoryWhole
  <2>2. ASSUME scan.at = "surface", Judging = {}
        PROVE  steady \subseteq scan.slots \ scan.hidden /\ scan.slots \ scan.hidden \subseteq placed \cap worth
    BY <2>1, <2>2, ComingFolders DEF InventoryInv, Stages, Steadily, Gathered
  <2>3. Inventory!GathersWhatLasted
    BY <2>2 DEF Inventory!GathersWhatLasted, scan, Judging, steady, placed, worth
  <2>4. QED BY <2>1, <2>3 DEF InventoryInv, Saved
<1> HIDE DEF Inv
<1>4. QED BY <1>1, <1>2, <1>3, PTL DEF Spec

------------------------------------------------------------------------------
(* UsageQuota.                                                             *)

(* The sum over a finite set of tabs, and what one tab adds to it.         *)
Picked(s) == CHOOSE x \in s : TRUE
Sums(it, f) == it = [s \in SUBSET Tab |-> IF s = {} THEN 0 ELSE f[Picked(s)] + it[s \ {Picked(s)}]]
Small(n) == {s \in SUBSET Tab : Cardinality(s) <= n}

LEMMA TabsFinite == IsFiniteSet(Tab) /\ Cap \in Nat /\ Touch \in Nat /\ Passing \subseteq Nat
  BY TabsAreFinite DEF Quota!QuotaAssumption, Quota!IsFiniteSet, IsFiniteSet

LEMMA Picking ==
  ASSUME NEW s \in SUBSET Tab
  PROVE  /\ IsFiniteSet(s) /\ Cardinality(s) \in Nat /\ (Cardinality(s) = 0 <=> s = {})
         /\ s # {} => /\ Picked(s) \in s /\ Picked(s) \in Tab /\ s \ {Picked(s)} \in SUBSET Tab
                      /\ Cardinality(s \ {Picked(s)}) = Cardinality(s) - 1
<1>1. IsFiniteSet(s)
  BY TabsFinite, FS_Subset
<1>2. Cardinality(s) \in Nat /\ (Cardinality(s) = 0 <=> s = {})
  BY <1>1, FS_CardinalityType, FS_EmptySet
<1>3. s # {} => Picked(s) \in s
  BY DEF Picked
<1>4. ASSUME s # {} PROVE Cardinality(s \ {Picked(s)}) = Cardinality(s) - 1
  BY <1>1, <1>3, <1>4, FS_RemoveElement
<1>5. QED BY <1>1, <1>2, <1>3, <1>4

LEMMA SubsetInduction ==
  ASSUME NEW G, G \subseteq SUBSET Tab, {} \in G,
         \A s \in SUBSET Tab : s # {} /\ s \ {Picked(s)} \in G => s \in G
  PROVE  G = SUBSET Tab
<1> DEFINE N == {n \in Nat : \A s \in SUBSET Tab : Cardinality(s) = n => s \in G}
<1>1. 0 \in N
  BY Picking
<1>2. ASSUME NEW n \in N PROVE n + 1 \in N
  <2>1. n \in Nat /\ n + 1 \in Nat /\ n + 1 # 0
    OBVIOUS
  <2>2. ASSUME NEW s \in SUBSET Tab, Cardinality(s) = n + 1 PROVE s \in G
    <3>1. s # {} /\ s \ {Picked(s)} \in SUBSET Tab /\ Cardinality(s \ {Picked(s)}) = n
      <4>1. /\ Cardinality(s) = 0 <=> s = {}
            /\ s # {} => s \ {Picked(s)} \in SUBSET Tab /\ Cardinality(s \ {Picked(s)}) = Cardinality(s) - 1
        BY <2>2, Picking, Zenon
      <4>2. QED BY <2>1, <2>2, <4>1
    <3>2. s \ {Picked(s)} \in G
      BY <3>1
    <3>3. QED BY <3>1, <3>2
  <2>3. QED BY <2>1, <2>2
<1>3. N = Nat
  <2> HIDE DEF N
  <2>1. N \subseteq Nat BY DEF N
  <2>2. QED BY <1>1, <1>2, <2>1, NatSetInduction
<1>4. ASSUME NEW s \in SUBSET Tab PROVE s \in G
  <2>1. Cardinality(s) \in N
    BY <1>3, Picking
  <2>2. QED BY <2>1
<1>5. QED BY <1>4

LEMMA SumsExist ==
  ASSUME NEW f \in [Tab -> Int]
  PROVE  \E it \in [SUBSET Tab -> Int] : Sums(it, f)
<1> DEFINE Solves(it, n) == it = [s \in Small(n) |-> IF s = {} THEN 0 ELSE f[Picked(s)] + it[s \ {Picked(s)}]]
           S == {n \in Nat : \E it \in [Small(n) -> Int] : Solves(it, n)}
<1>1. 0 \in S
  <2>1. ASSUME NEW s \in Small(0) PROVE s = {}
    <3>1. s \in SUBSET Tab /\ Cardinality(s) <= 0
      BY DEF Small
    <3>2. Cardinality(s) \in Nat /\ (Cardinality(s) = 0 <=> s = {})
      BY <3>1, Picking, Zenon
    <3>3. QED BY <3>1, <3>2
  <2> DEFINE it == [s \in Small(0) |-> 0]
  <2>2. it \in [Small(0) -> Int]
    OBVIOUS
  <2>3. Solves(it, 0)
    BY <2>1
  <2>4. QED BY <2>2, <2>3
<1>2. ASSUME NEW n \in S PROVE n + 1 \in S
  <2>1. PICK it \in [Small(n) -> Int] : Solves(it, n)
    OBVIOUS
  <2> DEFINE more == [s \in Small(n + 1) |-> IF s = {} THEN 0 ELSE f[Picked(s)] + it[s \ {Picked(s)}]]
  <2>2. n \in Nat /\ n + 1 \in Nat
    OBVIOUS
  <2>3. ASSUME NEW s \in Small(n + 1), s # {}
        PROVE  s \ {Picked(s)} \in Small(n) /\ f[Picked(s)] \in Int /\ s \in SUBSET Tab
    BY <2>2, <2>3, Picking DEF Small
  <2>4. more \in [Small(n + 1) -> Int]
    BY <2>3
  <2>5. ASSUME NEW r \in Small(n) PROVE more[r] = it[r]
    <3>1. r \in Small(n + 1)
      <4>1. r \in SUBSET Tab /\ Cardinality(r) <= n
        BY DEF Small
      <4>2. Cardinality(r) \in Nat
        BY <4>1, Picking, Zenon
      <4>3. Cardinality(r) <= n + 1
        BY <2>2, <4>1, <4>2
      <4>4. QED BY <4>1, <4>3 DEF Small
    <3>2. it[r] = IF r = {} THEN 0 ELSE f[Picked(r)] + it[r \ {Picked(r)}]
      BY <2>1
    <3>3. QED BY <3>1, <3>2
  <2>6. \A s \in Small(n + 1) : more[s] = IF s = {} THEN 0 ELSE f[Picked(s)] + more[s \ {Picked(s)}]
    BY <2>3, <2>5
  <2>7. more = [s \in Small(n + 1) |-> more[s]]
    OBVIOUS
  <2> HIDE DEF more
  <2>8. Solves(more, n + 1)
    BY <2>6, <2>7
  <2>9. QED BY <2>2, <2>4, <2>8
<1>3. S = Nat
  <2> HIDE DEF S
  <2>1. S \subseteq Nat BY DEF S
  <2>2. QED BY <1>1, <1>2, <2>1, NatSetInduction
<1>4. Cardinality(Tab) \in Nat /\ Small(Cardinality(Tab)) = SUBSET Tab
  <2>1. Cardinality(Tab) \in Nat
    BY TabsFinite, FS_CardinalityType
  <2>2. \A s \in SUBSET Tab : Cardinality(s) <= Cardinality(Tab)
    BY TabsFinite, FS_Subset
  <2>3. QED BY <2>1, <2>2 DEF Small
<1>5. PICK it \in [Small(Cardinality(Tab)) -> Int] : Solves(it, Cardinality(Tab))
  BY <1>3, <1>4
<1>6. QED BY <1>4, <1>5 DEF Sums

LEMMA SumOfIs ==
  ASSUME NEW f \in [Tab -> Int]
  PROVE  \E it \in [SUBSET Tab -> Int] : Sums(it, f) /\ Quota!SumOf(f) = it[Tab]
<1>1. Quota!SumOf(f) = (CHOOSE it : Sums(it, f))[Tab]
  BY DEF Quota!SumOf, Quota!MapThenSumSet, Quota!MapThenFoldSet, Sums, Picked
<1>2. PICK some \in [SUBSET Tab -> Int] : Sums(some, f)
  BY SumsExist
<1>3. PICK it : it = CHOOSE i : Sums(i, f)
  OBVIOUS
<1>4. Sums(it, f)
  BY <1>2, <1>3
<1>5. \A s \in SUBSET Tab :
        /\ it[s] = IF s = {} THEN 0 ELSE f[Picked(s)] + it[s \ {Picked(s)}]
        /\ some[s] = IF s = {} THEN 0 ELSE f[Picked(s)] + some[s \ {Picked(s)}]
  BY <1>2, <1>4 DEF Sums
<1> DEFINE G == {s \in SUBSET Tab : it[s] = some[s]}
<1>6. {} \in G
  BY <1>5
<1>7. ASSUME NEW s \in SUBSET Tab, s # {}, s \ {Picked(s)} \in G PROVE s \in G
  <2>1. it[s \ {Picked(s)}] = some[s \ {Picked(s)}]
    BY <1>7
  <2>2. QED BY <1>5, <1>7, <2>1
<1>8. G = SUBSET Tab
  <2> HIDE DEF G
  <2>1. G \subseteq SUBSET Tab BY DEF G
  <2>2. QED BY <1>6, <1>7, <2>1, SubsetInduction
<1>9. it[Tab] = some[Tab]
  <2>1. Tab \in G BY <1>8
  <2>2. QED BY <2>1
<1>10. QED BY <1>1, <1>2, <1>3, <1>9

(* Changing what one tab adds changes the sum by as much.                  *)
LEMMA SumOfChanges ==
  ASSUME NEW f \in [Tab -> Int], NEW g \in [Tab -> Int], NEW t \in Tab,
         \A u \in Tab \ {t} : g[u] = f[u]
  PROVE  /\ Quota!SumOf(f) \in Int /\ Quota!SumOf(g) \in Int
         /\ Quota!SumOf(g) = Quota!SumOf(f) + g[t] - f[t]
<1>1. PICK i \in [SUBSET Tab -> Int] : Sums(i, f) /\ Quota!SumOf(f) = i[Tab]
  BY SumOfIs
<1>2. PICK j \in [SUBSET Tab -> Int] : Sums(j, g) /\ Quota!SumOf(g) = j[Tab]
  BY SumOfIs
<1>3. \A s \in SUBSET Tab :
        /\ i[s] = IF s = {} THEN 0 ELSE f[Picked(s)] + i[s \ {Picked(s)}]
        /\ j[s] = IF s = {} THEN 0 ELSE g[Picked(s)] + j[s \ {Picked(s)}]
  BY <1>1, <1>2 DEF Sums
<1> DEFINE G == {s \in SUBSET Tab : j[s] = i[s] + (IF t \in s THEN g[t] - f[t] ELSE 0)}
<1>4. {} \in G
  <2>1. {} \in SUBSET Tab /\ i[{}] = 0 /\ j[{}] = 0 /\ t \notin {}
    BY <1>3
  <2>2. QED BY <2>1
<1>5. ASSUME NEW s \in SUBSET Tab, s # {}, s \ {Picked(s)} \in G PROVE s \in G
  <2> DEFINE x == Picked(s)
             r == s \ {x}
  <2>1. x \in s /\ x \in Tab /\ r \in SUBSET Tab
    BY <1>5, Picking
  <2>2. j[r] = i[r] + (IF t \in r THEN g[t] - f[t] ELSE 0)
    BY <1>5
  <2>3. i[s] = f[x] + i[r] /\ j[s] = g[x] + j[r]
    BY <1>3, <1>5
  <2>4. i[r] \in Int /\ j[r] \in Int /\ i[s] \in Int /\ j[s] \in Int /\ f[x] \in Int /\ g[x] \in Int
        /\ f[t] \in Int /\ g[t] \in Int
    BY <2>1
  <2>5. t \in s <=> t \in r \/ t = x
    BY <2>1
  <2>6. t = x => t \notin r
    OBVIOUS
  <2>7. t # x => g[x] = f[x]
    BY <2>1
  <2> HIDE DEF x, r
  <2>8. j[s] = i[s] + (IF t \in s THEN g[t] - f[t] ELSE 0)
    BY <2>2, <2>3, <2>4, <2>5, <2>6, <2>7
  <2>9. QED BY <2>8
<1>6. G = SUBSET Tab
  <2> HIDE DEF G
  <2>1. G \subseteq SUBSET Tab BY DEF G
  <2>2. QED BY <1>4, <1>5, <2>1, SubsetInduction
<1>7. j[Tab] = i[Tab] + (g[t] - f[t])
  <2>1. Tab \in G BY <1>6
  <2>2. QED BY <2>1
<1>8. i[Tab] \in Int /\ j[Tab] \in Int /\ f[t] \in Int /\ g[t] \in Int
  OBVIOUS
<1>9. QED BY <1>1, <1>2, <1>7, <1>8

(* Where nobody adds anything the sum is nothing.                          *)
LEMMA SumOfNothing == Quota!SumOf([t \in Tab |-> 0]) = 0
<1> DEFINE f == [t \in Tab |-> 0]
<1>1. PICK i \in [SUBSET Tab -> Int] : Sums(i, f) /\ Quota!SumOf(f) = i[Tab]
  <2>1. f \in [Tab -> Int] OBVIOUS
  <2> HIDE DEF f
  <2>2. QED BY <2>1, SumOfIs
<1>2. \A s \in SUBSET Tab : i[s] = IF s = {} THEN 0 ELSE f[Picked(s)] + i[s \ {Picked(s)}]
  BY <1>1 DEF Sums
<1> DEFINE G == {s \in SUBSET Tab : i[s] = 0}
<1>3. {} \in G
  BY <1>2
<1>4. ASSUME NEW s \in SUBSET Tab, s # {}, s \ {Picked(s)} \in G PROVE s \in G
  <2>1. Picked(s) \in Tab /\ f[Picked(s)] = 0 /\ i[s \ {Picked(s)}] = 0
    BY <1>4, Picking
  <2>2. QED BY <1>2, <1>4, <2>1
<1>5. G = SUBSET Tab
  <2> HIDE DEF G
  <2>1. G \subseteq SUBSET Tab BY DEF G
  <2>2. QED BY <1>3, <1>4, <2>1, SubsetInduction
<1>6. QED
  <2>1. Tab \in G BY <1>5
  <2>2. QED BY <1>1, <2>1

now == x1
row == x2
touched == x3
total == x5
tab == x6
seen == x7
pending == x8
flight == x9
observed == x11
charged == x12
twice == x13
dropped == x14
writes == x16
forgot == x17

QuotaVars == <<x1, x2, x3, x4, x5, x6, x7, x8, x9, x10, x11, x12, x13, x14, x15, x16, x17>>

Rows == [is : BOOLEAN, first : Int, last : Int, active : Int, window : Int, tokens : Int]
Flights == [at : {"none", "sent", "ok", "bad"}, n : Nat, counted : BOOLEAN]

RowTyped == now \in Int /\ row \in Rows /\ touched \in Int /\ writes \in Nat /\ forgot \in Nat

(* The next write of the time is the span of the throttle away from the    *)
(* last, unless it was forgotten since.                                    *)
WritesApart ==
  /\ ~row.is => writes = 0 /\ forgot = 0
  /\ row.is => /\ row.first <= row.last
               /\ \/ writes = 0 \/ touched >= row.last + Touch
                  \/ Touch * (writes - forgot) <= row.last - row.first

TimeInv == RowTyped /\ WritesApart /\ Quota!TimeWasSpent

(* A report that was taken is counted, one that was not yet judged is not. *)
ReportsTyped ==
  /\ pending \in [Tab -> Nat] /\ flight \in [Tab -> Flights]
  /\ charged \in Int /\ dropped \in Int /\ observed \in Int /\ twice \in Int
  /\ \A t \in Tab : /\ flight[t].at = "none" => flight[t].n = 0
                    /\ flight[t].at \in {"none", "sent"} => ~flight[t].counted
                    /\ flight[t].at = "ok" => flight[t].counted

(* What a tab has seen is not more than its session has used.              *)
LooksTyped ==
  /\ total \in [Tab -> Nat] /\ seen \in [Tab -> Int]
  /\ \A t \in Tab : seen[t] <= total[t]

QuotaInv == TimeInv /\ LooksTyped /\ ReportsTyped /\ Quota!TokensAreCounted

LEMMA TimeStays ==
  ASSUME TimeInv, UNCHANGED <<now, row, touched, writes, forgot>>
  PROVE  TimeInv'
BY DEF TimeInv, RowTyped, WritesApart, Quota!TimeWasSpent, now, row, writes, forgot

(* The same, for the variables by their names here.                        *)
LEMMA Spent ==
  Quota!TimeWasSpent <=>
    (row.is => /\ 1000 * row.active <= (row.last - row.first) + 500 * writes
               /\ Touch * (writes - 1 - forgot) <= row.last - row.first
               /\ row.last <= now)
BY DEF Quota!TimeWasSpent, now, row, writes, forgot

LEMMA TouchTimes ==
  ASSUME NEW n \in Int
  PROVE  Touch * n \in Int /\ Touch * (n + 1) = Touch * n + Touch /\ (n <= 0 => Touch * n <= 0)
BY TabsFinite

LEMMA LooksStay ==
  ASSUME LooksTyped, UNCHANGED <<x5, x7>>
  PROVE  LooksTyped'
BY DEF LooksTyped, total, seen

LEMMA TokensStay ==
  ASSUME ReportsTyped, Quota!TokensAreCounted, UNCHANGED <<x8, x9, x11, x12, x13, x14>>
  PROVE  ReportsTyped' /\ Quota!TokensAreCounted'
<1>1. Quota!Uncounted' = Quota!Uncounted
  BY DEF Quota!Uncounted
<1>2. x8' = x8 OBVIOUS
<1>3. Quota!Waiting' = Quota!Waiting /\ Quota!Flying' = Quota!Flying
  BY <1>1, <1>2 DEF Quota!Waiting, Quota!Flying, Quota!SumOf, Quota!MapThenSumSet, Quota!MapThenFoldSet
<1>4. QED BY <1>3 DEF ReportsTyped, Quota!TokensAreCounted, pending, flight, charged, dropped, observed, twice

(* The sum is kept if what one tab gives up turns up elsewhere.            *)
Uncounted(f) == IF f.counted THEN 0 ELSE f.n

LEMMA Balance ==
  ASSUME ReportsTyped, ReportsTyped', Quota!TokensAreCounted, NEW t \in Tab,
         \A u \in Tab \ {t} : pending'[u] = pending[u] /\ flight'[u] = flight[u],
         (charged' - charged) + (pending'[t] - pending[t]) + (Uncounted(flight'[t]) - Uncounted(flight[t]))
           + (dropped' - dropped) = (observed' - observed) + (twice' - twice)
  PROVE  Quota!TokensAreCounted'
<1> DEFINE f == Quota!Uncounted
           g == [u \in Tab |-> Uncounted(flight'[u])]
<1>1. \A u \in Tab : Uncounted(flight[u]) \in Int /\ Uncounted(flight'[u]) \in Int
  BY DEF ReportsTyped, Flights, Uncounted
<1>2. f = [u \in Tab |-> Uncounted(flight[u])] /\ f' = g
  BY DEF Quota!Uncounted, Uncounted, flight
<1>3. f \in [Tab -> Int] /\ g \in [Tab -> Int] /\ f[t] = Uncounted(flight[t]) /\ g[t] = Uncounted(flight'[t])
      /\ \A u \in Tab \ {t} : g[u] = f[u]
  BY <1>1, <1>2
<1>4. pending \in [Tab -> Int] /\ pending' \in [Tab -> Int]
  BY DEF ReportsTyped
<1> HIDE DEF f, g
<1>5. /\ Quota!SumOf(f) \in Int /\ Quota!SumOf(g) = Quota!SumOf(f) + g[t] - f[t]
      /\ Quota!SumOf(pending) \in Int /\ Quota!SumOf(pending') = Quota!SumOf(pending) + pending'[t] - pending[t]
  BY <1>3, <1>4, SumOfChanges
<1>6. Quota!Waiting = Quota!SumOf(pending) /\ Quota!Waiting' = Quota!SumOf(pending')
  BY DEF Quota!Waiting, Quota!SumOf, Quota!MapThenSumSet, Quota!MapThenFoldSet, pending
<1>7. Quota!Flying = Quota!SumOf(f) /\ Quota!Flying' = Quota!SumOf(g)
  <2>1. Quota!Flying' = Quota!SumOf(f')
    BY DEF Quota!Flying, Quota!SumOf, Quota!MapThenSumSet, Quota!MapThenFoldSet, f
  <2>2. QED BY <1>2, <2>1 DEF Quota!Flying, f
<1>8. charged + Quota!SumOf(pending) + Quota!SumOf(f) + dropped = observed + twice
  BY <1>6, <1>7 DEF Quota!TokensAreCounted, charged, dropped, observed, twice
<1>9. charged' + Quota!SumOf(pending') + Quota!SumOf(g) + dropped' = observed' + twice'
  <2>1. /\ charged \in Int /\ dropped \in Int /\ observed \in Int /\ twice \in Int
        /\ charged' \in Int /\ dropped' \in Int /\ observed' \in Int /\ twice' \in Int
        /\ pending[t] \in Int /\ pending'[t] \in Int /\ f[t] \in Int /\ g[t] \in Int
    BY <1>3, <1>4 DEF ReportsTyped
  <2>2. (charged' - charged) + (pending'[t] - pending[t]) + (g[t] - f[t]) + (dropped' - dropped)
          = (observed' - observed) + (twice' - twice)
    BY <1>3
  <2>3. QED BY <1>5, <1>8, <2>1, <2>2
<1>10. QED BY <1>6, <1>7, <1>9 DEF Quota!TokensAreCounted, charged, dropped, observed, twice

(* One tab's report changes: the rest is as it was.                        *)
OnlyTab(t, p, f) ==
  /\ pending' = [pending EXCEPT ![t] = p] /\ flight' = [flight EXCEPT ![t] = f]

LEMMA OneTab ==
  ASSUME ReportsTyped, NEW t \in Tab, NEW p \in Nat, NEW f \in Flights, OnlyTab(t, p, f),
         f.at = "none" => f.n = 0, f.at \in {"none", "sent"} => ~f.counted, f.at = "ok" => f.counted,
         charged' \in Int, dropped' \in Int, observed' \in Int, twice' \in Int
  PROVE  /\ ReportsTyped' /\ pending'[t] = p /\ flight'[t] = f
         /\ \A u \in Tab \ {t} : pending'[u] = pending[u] /\ flight'[u] = flight[u]
<1>1. /\ pending' \in [Tab -> Nat] /\ flight' \in [Tab -> Flights] /\ pending'[t] = p /\ flight'[t] = f
      /\ \A u \in Tab \ {t} : pending'[u] = pending[u] /\ flight'[u] = flight[u]
  BY DEF ReportsTyped, OnlyTab
<1>2. ReportsTyped'
  BY <1>1 DEF ReportsTyped
<1>3. QED BY <1>1, <1>2

LEMMA FlightFacts ==
  ASSUME ReportsTyped, NEW t \in Tab
  PROVE  /\ pending[t] \in Nat /\ flight[t] \in Flights /\ flight[t].n \in Nat /\ flight[t].counted \in BOOLEAN
         /\ flight[t].at = "none" => flight[t].n = 0
         /\ flight[t].at \in {"none", "sent"} => ~flight[t].counted
         /\ flight[t].at = "ok" => flight[t].counted
         /\ charged \in Int /\ dropped \in Int /\ observed \in Int /\ twice \in Int
         /\ pending = [pending EXCEPT ![t] = pending[t]] /\ flight = [flight EXCEPT ![t] = flight[t]]
  BY DEF ReportsTyped, Flights

LEMMA NewFlights ==
  /\ Quota!NoFlight \in Flights /\ Quota!NoFlight.at = "none" /\ Quota!NoFlight.n = 0 /\ ~Quota!NoFlight.counted
  /\ \A n \in Nat : LET f == [at |-> "sent", n |-> n, counted |-> FALSE]
                    IN f \in Flights /\ f.at = "sent" /\ f.n = n /\ ~f.counted
  /\ \A f \in Flights, a \in {"ok", "bad"}, c \in BOOLEAN :
       LET g == [f EXCEPT !.at = a, !.counted = c]
       IN g \in Flights /\ g.at = a /\ g.n = f.n /\ g.counted = c
  /\ \A f \in Flights : LET g == [f EXCEPT !.at = "bad"]
                        IN g \in Flights /\ g.at = "bad" /\ g.n = f.n /\ g.counted = f.counted
BY DEF Quota!NoFlight, Flights

(* What the tabs do.                                                       *)
LEMMA TabSteps ==
  ASSUME QuotaInv, NEW t \in Tab,
         \/ Quota!Spends(t) \/ Quota!Observes(t) \/ Quota!Flush(t) \/ Quota!Answered(t) \/ Quota!Unmounts(t)
         \/ Quota!LastFlush(t) \/ Quota!LastEnds(t) \/ Quota!Mounts(t) \/ Quota!Lost(t)
  PROVE  QuotaInv'
<1> USE DEF QuotaInv
<1>1. TimeInv'
  <2>1. UNCHANGED <<now, row, touched, writes, forgot>>
    BY DEF Quota!Spends, Quota!Observes, Quota!Flush, Quota!Answered, Quota!Unmounts, Quota!LastFlush,
       Quota!LastEnds, Quota!Mounts, Quota!Lost, Quota!use, now, row, touched, writes, forgot
  <2>2. QED BY <2>1, TimeStays
<1>2. LooksTyped'
  <2>1. CASE Quota!Spends(t)
    BY <2>1 DEF Quota!Spends, LooksTyped, total, seen
  <2>2. CASE Quota!Observes(t)
    BY <2>2 DEF Quota!Observes, LooksTyped, total, seen
  <2>3. CASE Quota!Mounts(t)
    <3>1. total' = total /\ seen' = [seen EXCEPT ![t] = -1]
      BY <2>3 DEF Quota!Mounts, total, seen
    <3>2. QED BY <3>1 DEF LooksTyped
  <2>4. CASE ~(Quota!Spends(t) \/ Quota!Observes(t) \/ Quota!Mounts(t))
    <3>1. UNCHANGED <<x5, x7>>
      BY <2>4 DEF Quota!Flush, Quota!Answered, Quota!Unmounts, Quota!LastFlush, Quota!LastEnds, Quota!Lost
    <3>2. QED BY <3>1, LooksStay
  <2>5. QED BY <2>1, <2>2, <2>3, <2>4
<1> DEFINE Even == UNCHANGED <<charged, dropped, observed, twice>>
           p == pending[t]
           f == flight[t]
<1>3. ASSUME NEW q \in Nat, NEW g \in Flights, OnlyTab(t, q, g),
             g.at = "none" => g.n = 0, g.at \in {"none", "sent"} => ~g.counted, g.at = "ok" => g.counted,
             charged' \in Int, dropped' \in Int, observed' \in Int, twice' \in Int,
             (charged' - charged) + (q - p) + (Uncounted(g) - Uncounted(f)) + (dropped' - dropped)
               = (observed' - observed) + (twice' - twice)
      PROVE  ReportsTyped' /\ Quota!TokensAreCounted'
  BY <1>3, OneTab, Balance
<1>4. UNCHANGED <<x8, x9, x11, x12, x13, x14>> => ReportsTyped' /\ Quota!TokensAreCounted'
  BY TokensStay
<1>f. /\ p \in Nat /\ f \in Flights /\ f.n \in Nat /\ f.counted \in BOOLEAN
      /\ f.at = "none" => f.n = 0
      /\ f.at \in {"none", "sent"} => ~f.counted
      /\ f.at = "ok" => f.counted
      /\ charged \in Int /\ dropped \in Int /\ observed \in Int /\ twice \in Int
      /\ pending = [pending EXCEPT ![t] = p] /\ flight = [flight EXCEPT ![t] = f]
  BY FlightFacts
<1> DEFINE sent == [at |-> "sent", n |-> p, counted |-> FALSE]
<1>s. /\ sent \in Flights /\ sent.at = "sent" /\ ~sent.counted /\ Uncounted(sent) = p
      /\ Quota!NoFlight \in Flights /\ Quota!NoFlight.at = "none" /\ Quota!NoFlight.n = 0
      /\ ~Quota!NoFlight.counted /\ Uncounted(Quota!NoFlight) = 0
  BY <1>f, NewFlights DEF Uncounted
<1>n. f.at = "none" => Uncounted(f) = 0
  BY <1>f DEF Uncounted
<1> HIDE DEF p, f, sent, QuotaInv
<1>5. CASE Quota!Spends(t) \/ Quota!Mounts(t)
  <2>1. UNCHANGED <<x8, x9, x11, x12, x13, x14>>
    BY <1>5 DEF Quota!Spends, Quota!Mounts, Quota!ghosts
  <2>2. QED BY <1>1, <1>2, <1>4, <2>1 DEF QuotaInv
<1>6. CASE Quota!Observes(t)
  <2> DEFINE grown == IF seen[t] = -1 THEN 0 ELSE total[t] - seen[t]
  <2>1. grown \in Nat
    BY DEF QuotaInv, LooksTyped
  <2>2. /\ pending' = [pending EXCEPT ![t] = p + grown] /\ flight' = flight
        /\ observed' = observed + grown /\ UNCHANGED <<charged, dropped, twice>>
    BY <1>6 DEF Quota!Observes, pending, flight, observed, charged, dropped, twice, seen, total, p
  <2> HIDE DEF grown
  <2>3. OnlyTab(t, p + grown, f)
    BY <1>f, <2>2 DEF OnlyTab
  <2>4. Uncounted(f) \in Int /\ p + grown \in Nat
    BY <1>f, <2>1 DEF Uncounted
  <2>5. observed' \in Int /\ charged' \in Int /\ dropped' \in Int /\ twice' \in Int
    BY <1>f, <2>1, <2>2
  <2>6. (charged' - charged) + ((p + grown) - p) + (Uncounted(f) - Uncounted(f)) + (dropped' - dropped)
          = (observed' - observed) + (twice' - twice)
    BY <1>f, <2>1, <2>2, <2>4
  <2>7. ReportsTyped' /\ Quota!TokensAreCounted'
    BY <1>f, <2>3, <2>4, <2>5, <2>6, <1>3
  <2>8. QED BY <1>1, <1>2, <2>7 DEF QuotaInv
<1>7. CASE Quota!Flush(t) \/ Quota!Unmounts(t) \/ Quota!LastFlush(t)
  <2>1. /\ Even
        /\ \/ f.at = "none" /\ OnlyTab(t, 0, sent)
           \/ UNCHANGED <<x8, x9>>
           \/ p = 0 /\ OnlyTab(t, 0, f)
    <3>1. CASE Quota!Flush(t)
      BY <3>1 DEF Quota!Flush, Quota!Flies, OnlyTab, Quota!ghosts, pending, flight, charged, dropped, observed, twice,
         f, p, sent
    <3>2. CASE Quota!Unmounts(t)
      BY <3>2 DEF Quota!Unmounts, Quota!Flies, OnlyTab, Quota!ghosts, pending, flight, charged, dropped, observed,
         twice, f, p, sent
    <3>3. CASE Quota!LastFlush(t)
      <4>1. Even /\ pending' = [pending EXCEPT ![t] = 0] /\ f.at = "none"
            /\ IF p > 0 THEN flight' = [flight EXCEPT ![t] = sent] ELSE flight' = flight
        BY <3>3 DEF Quota!LastFlush, Quota!Flies, Quota!ghosts, pending, flight, charged, dropped, observed,
           twice, f, p, sent
      <4>2. p > 0 \/ p = 0
        BY <1>f
      <4>3. QED BY <1>f, <4>1, <4>2 DEF OnlyTab
    <3>4. QED BY <1>7, <3>1, <3>2, <3>3
  <2>2. charged' = charged /\ dropped' = dropped /\ observed' = observed /\ twice' = twice
    BY <2>1
  <2>3. CASE f.at = "none" /\ OnlyTab(t, 0, sent)
    <3>1. (charged' - charged) + (0 - p) + (Uncounted(sent) - Uncounted(f)) + (dropped' - dropped)
            = (observed' - observed) + (twice' - twice)
      BY <1>f, <1>s, <1>n, <2>2, <2>3
    <3>2. ReportsTyped' /\ Quota!TokensAreCounted'
      BY <1>f, <1>s, <2>2, <2>3, <3>1, <1>3
    <3>3. QED BY <1>1, <1>2, <3>2 DEF QuotaInv
  <2>4. CASE UNCHANGED <<x8, x9>>
    <3>1. UNCHANGED <<x8, x9, x11, x12, x13, x14>>
      BY <2>2, <2>4 DEF charged, dropped, observed, twice
    <3>2. QED BY <1>1, <1>2, <1>4, <3>1 DEF QuotaInv
  <2>5. CASE p = 0 /\ OnlyTab(t, 0, f)
    <3>1. Uncounted(f) \in Int
      BY <1>f DEF Uncounted
    <3>2. (charged' - charged) + (0 - p) + (Uncounted(f) - Uncounted(f)) + (dropped' - dropped)
            = (observed' - observed) + (twice' - twice)
      BY <1>f, <2>2, <2>5, <3>1
    <3>3. ReportsTyped' /\ Quota!TokensAreCounted'
      BY <1>f, <2>2, <2>5, <3>2, <1>3
    <3>4. QED BY <1>1, <1>2, <3>3 DEF QuotaInv
  <2>6. QED BY <2>1, <2>3, <2>4, <2>5
<1>8. CASE Quota!Answered(t)
  <2> DEFINE q == IF f.at = "ok" THEN p ELSE p + f.n
             again == IF f.at = "bad" /\ f.counted THEN f.n ELSE 0
  <2>1. /\ f.at \in {"ok", "bad"} /\ OnlyTab(t, q, Quota!NoFlight) /\ twice' = twice + again
        /\ UNCHANGED <<charged, dropped, observed>>
    BY <1>8 DEF Quota!Answered, Quota!Settled, OnlyTab, pending, flight, charged, dropped, observed, twice, f, p
  <2>2. q \in Nat /\ again \in Nat /\ (q - p) - Uncounted(f) = again
    BY <1>f, <2>1 DEF Uncounted
  <2>3. Uncounted(f) \in Int
    BY <1>f DEF Uncounted
  <2> HIDE DEF q, again
  <2>4. (charged' - charged) + (q - p) + (Uncounted(Quota!NoFlight) - Uncounted(f)) + (dropped' - dropped)
          = (observed' - observed) + (twice' - twice)
    BY <1>f, <1>s, <2>1, <2>2, <2>3
  <2>5. charged' \in Int /\ dropped' \in Int /\ observed' \in Int /\ twice' \in Int
    BY <1>f, <2>1, <2>2
  <2>6. ReportsTyped' /\ Quota!TokensAreCounted'
    BY <1>s, <2>1, <2>2, <2>4, <2>5, <1>3
  <2>7. QED BY <1>1, <1>2, <2>6 DEF QuotaInv
<1>9. CASE Quota!LastEnds(t)
  <2>1. /\ OnlyTab(t, p, Quota!NoFlight) /\ dropped' = dropped + Uncounted(f)
        /\ UNCHANGED <<charged, twice, observed>>
    <3>1. /\ flight' = [flight EXCEPT ![t] = Quota!NoFlight] /\ pending' = pending
          /\ dropped' = dropped + Uncounted(f) /\ UNCHANGED <<charged, twice, observed>>
      BY <1>9 DEF Quota!LastEnds, pending, flight, charged, dropped, observed, twice, f, Uncounted
    <3>2. QED BY <1>f, <3>1 DEF OnlyTab
  <2>2. Uncounted(f) \in Int
    BY <1>f DEF Uncounted
  <2>3. (charged' - charged) + (p - p) + (Uncounted(Quota!NoFlight) - Uncounted(f)) + (dropped' - dropped)
          = (observed' - observed) + (twice' - twice)
    BY <1>f, <1>s, <2>1, <2>2
  <2>4. charged' \in Int /\ dropped' \in Int /\ observed' \in Int /\ twice' \in Int
    BY <1>f, <2>1, <2>2
  <2>5. ReportsTyped' /\ Quota!TokensAreCounted'
    BY <1>f, <1>s, <2>1, <2>3, <2>4, <1>3
  <2>6. QED BY <1>1, <1>2, <2>5 DEF QuotaInv
<1>10. CASE Quota!Lost(t)
  <2> DEFINE g == [f EXCEPT !.at = "bad"]
  <2>1. g \in Flights /\ g.at = "bad" /\ g.n = f.n /\ g.counted = f.counted
    BY <1>f, NewFlights
  <2>2. /\ OnlyTab(t, p, g) /\ UNCHANGED <<charged, dropped, twice, observed>>
    <3>1. flight' = [flight EXCEPT ![t] = g] /\ pending' = pending /\ UNCHANGED <<charged, dropped, twice, observed>>
      BY <1>10 DEF Quota!Lost, pending, flight, charged, dropped, observed, twice, f
    <3>2. QED BY <1>f, <3>1 DEF OnlyTab
  <2> HIDE DEF g
  <2>3. Uncounted(g) = Uncounted(f) /\ Uncounted(f) \in Int
    BY <1>f, <2>1 DEF Uncounted
  <2>4. (charged' - charged) + (p - p) + (Uncounted(g) - Uncounted(f)) + (dropped' - dropped)
          = (observed' - observed) + (twice' - twice)
    BY <1>f, <2>2, <2>3
  <2>5. charged' \in Int /\ dropped' \in Int /\ observed' \in Int /\ twice' \in Int
    BY <1>f, <2>2
  <2>6. ReportsTyped' /\ Quota!TokensAreCounted'
    BY <1>f, <2>1, <2>2, <2>4, <2>5, <1>3
  <2>7. QED BY <1>1, <1>2, <2>6 DEF QuotaInv
<1>11. QED BY <1>5, <1>6, <1>7, <1>8, <1>9, <1>10

(* A write of the time adds at most what has passed since the last one and *)
(* half a second, and comes when the throttle lets it.                     *)
LEMMA WriteKeeps ==
  ASSUME TimeInv, row.is, now >= touched, now' = now, touched' = now + Touch,
         row' = Quota!Touched(row), writes' = writes + 1, forgot' = forgot
  PROVE  TimeInv'
<1> DEFINE span == Quota!Least(now - row.last, Cap)
           a == row.active + Quota!Rounded(span)
<1>1. /\ now \in Int /\ touched \in Int /\ writes \in Nat /\ forgot \in Nat /\ Cap \in Nat /\ Touch \in Nat
      /\ row \in Rows /\ row.active \in Int /\ row.last \in Int /\ row.first \in Int
  BY TabsFinite DEF TimeInv, RowTyped, Rows
<1>2. /\ row.first <= row.last /\ row.last <= now
      /\ 1000 * row.active <= (row.last - row.first) + 500 * writes
      /\ Touch * (writes - 1 - forgot) <= row.last - row.first
      /\ \/ writes = 0 \/ touched >= row.last + Touch
         \/ Touch * (writes - forgot) <= row.last - row.first
  BY Spent DEF TimeInv, WritesApart
<1>3. a \in Int /\ 1000 * a <= 1000 * row.active + (now - row.last) + 500
  <2>1. span \in Int /\ span <= now - row.last
    BY <1>1 DEF Quota!Least
  <2> HIDE DEF span
  <2>2. Quota!Rounded(span) \in Int /\ 1000 * Quota!Rounded(span) <= span + 500
    BY <2>1 DEF Quota!Rounded
  <2>3. QED BY <1>1, <2>1, <2>2
<1>4. row' = [row EXCEPT !.active = a, !.last = now]
  BY DEF Quota!Touched, now, row
<1> HIDE DEF a
<1>5. row' \in Rows /\ row'.is = row.is /\ row'.active = a /\ row'.last = now /\ row'.first = row.first
  <2>1. row \in Rows /\ a \in Int /\ now \in Int
    BY <1>1, <1>3
  <2> HIDE DEF row, now
  <2>2. QED BY ONLY <2>1, <1>4, Zenon DEF Rows
<1>6. 1000 * row'.active <= (now - row.first) + 500 * (writes + 1)
  BY <1>1, <1>2, <1>3, <1>5
<1>7. Touch * (writes - forgot) <= now - row.first
  <2>1. /\ Touch * (writes - forgot) \in Int /\ Touch * (writes - 1 - forgot) \in Int
        /\ Touch * (writes - forgot) = Touch * (writes - 1 - forgot) + Touch
        /\ writes = 0 => Touch * (writes - forgot) <= 0
    <3>1. writes - 1 - forgot \in Int /\ writes - forgot \in Int /\ (writes - 1 - forgot) + 1 = writes - forgot
      BY <1>1
    <3>2. QED BY <1>1, <3>1, TouchTimes
  <2>2. CASE touched >= row.last + Touch
    BY <1>1, <1>2, <2>1, <2>2
  <2>3. CASE writes = 0 \/ Touch * (writes - forgot) <= row.last - row.first
    BY <1>1, <1>2, <2>1, <2>3
  <2>4. QED BY <1>2, <2>2, <2>3
<1>8. RowTyped'
  BY <1>1, <1>5 DEF RowTyped
<1>9. WritesApart'
  BY <1>1, <1>2, <1>5 DEF WritesApart
<1>10. Quota!TimeWasSpent'
  <2>1. /\ 1000 * row'.active <= (row'.last - row'.first) + 500 * writes'
        /\ Touch * (writes' - 1 - forgot') <= row'.last - row'.first /\ row'.last <= now'
    <3>1. writes' - 1 - forgot' = writes - forgot
      BY <1>1
    <3>2. QED BY <1>1, <1>5, <1>6, <1>7, <3>1
  <2>2. QED BY <2>1 DEF Quota!TimeWasSpent, now, row, writes, forgot
<1>11. QED BY <1>8, <1>9, <1>10 DEF TimeInv

(* A row that begins, or goes.                                             *)
LEMMA BeginKeeps ==
  ASSUME TimeInv, now' = now, touched' \in Int, writes' = 0, forgot' = 0, row' \in Rows,
         row'.is => row'.first = now /\ row'.last = now /\ row'.active = 0
  PROVE  TimeInv'
<1>1. now \in Int /\ Touch \in Nat
  BY TabsFinite DEF TimeInv, RowTyped
<1>2. RowTyped' /\ WritesApart'
  BY <1>1 DEF RowTyped, WritesApart
<1>3. Quota!TimeWasSpent'
  <2>1. Touch * (0 - 1 - 0) <= 0
    BY <1>1
  <2>2. row'.is => /\ 1000 * row'.active <= (row'.last - row'.first) + 500 * writes'
                   /\ Touch * (writes' - 1 - forgot') <= row'.last - row'.first /\ row'.last <= now'
    BY <1>1, <2>1
  <2>3. QED BY <2>2 DEF Quota!TimeWasSpent, now, row, writes, forgot
<1>4. QED BY <1>2, <1>3 DEF TimeInv

(* A row of which only the tokens change.                                  *)
LEMMA SameTimes ==
  ASSUME TimeInv, UNCHANGED <<now, touched, writes, forgot>>, row' \in Rows, row.is, row'.is,
         row'.first = row.first, row'.last = row.last, row'.active = row.active
  PROVE  TimeInv'
BY DEF TimeInv, RowTyped, WritesApart, Quota!TimeWasSpent, now, row, writes, forgot

LEMMA ForgetsKeeps ==
  ASSUME TimeInv, now' = now, row' = row, touched' \in Int, writes' = writes,
         forgot' = forgot + (IF row.is THEN 1 ELSE 0)
  PROVE  TimeInv'
<1>1. /\ now \in Int /\ writes \in Nat /\ forgot \in Nat /\ Touch \in Nat
      /\ row \in Rows /\ row.active \in Int /\ row.last \in Int /\ row.first \in Int /\ row.is \in BOOLEAN
  BY TabsFinite DEF TimeInv, RowTyped, Rows
<1>2. CASE ~row.is
  <2>1. writes' = writes /\ forgot' = 0 /\ writes = 0 /\ ~row'.is
    BY <1>1, <1>2 DEF TimeInv, WritesApart
  <2>2. QED BY <1>1, <2>1, BeginKeeps
<1>3. CASE row.is
  <2>1. /\ row.first <= row.last /\ row.last <= now
        /\ 1000 * row.active <= (row.last - row.first) + 500 * writes
        /\ Touch * (writes - 1 - forgot) <= row.last - row.first
    BY <1>3, Spent DEF TimeInv, WritesApart
  <2>2. forgot' = forgot + 1
    BY <1>3
  <2>3. Touch * (writes - forgot') <= row.last - row.first
    <3>1. writes - forgot' = writes - 1 - forgot
      BY <1>1, <2>2
    <3>2. QED BY <2>1, <3>1
  <2>4. Touch * (writes - 1 - forgot') <= row.last - row.first
    <3>1. writes - 1 - forgot' \in Int /\ (writes - 1 - forgot') + 1 = writes - forgot'
      BY <1>1, <2>2
    <3>2. Touch * (writes - 1 - forgot') \in Int /\ Touch * (writes - forgot') = Touch * (writes - 1 - forgot') + Touch
      BY <3>1, TouchTimes
    <3>3. QED BY <1>1, <2>3, <3>2
  <2>5. RowTyped' /\ WritesApart'
    BY <1>1, <2>1, <2>2, <2>3 DEF RowTyped, WritesApart
  <2>6. Quota!TimeWasSpent'
    <3>1. /\ 1000 * row'.active <= (row'.last - row'.first) + 500 * writes'
          /\ Touch * (writes' - 1 - forgot') <= row'.last - row'.first /\ row'.last <= now'
      BY <1>1, <2>1, <2>4
    <3>2. QED BY <3>1 DEF Quota!TimeWasSpent, now, row, writes, forgot
  <2>7. QED BY <2>5, <2>6 DEF TimeInv
<1>4. QED BY <1>1, <1>2, <1>3

LEMMA ReportedKeeps ==
  ASSUME TimeInv, NEW n \in Nat, row' = Quota!WithTokens(row, n), UNCHANGED <<now, touched, writes, forgot>>
  PROVE  TimeInv'
<1>0. now \in Int /\ row \in Rows /\ touched \in Int /\ (~row.is => writes = 0 /\ forgot = 0)
  BY DEF TimeInv, RowTyped, WritesApart
<1>1. CASE ~row.is
  <2>1. row' = [is |-> TRUE, first |-> now, last |-> now, active |-> 0, window |-> now, tokens |-> n]
    BY <1>1 DEF Quota!WithTokens, Quota!NewRow, now, row
  <2>2. row' \in Rows /\ row'.first = now /\ row'.last = now /\ row'.active = 0
    BY <1>0, <2>1 DEF Rows
  <2>3. QED BY <1>0, <1>1, <2>2, BeginKeeps
<1>2. CASE row.is
  <2> DEFINE sum == row.tokens + n
  <2>1. row.tokens \in Int
    BY <1>0 DEF Rows
  <2>2. sum \in Int
    BY <2>1
  <2>3. \/ row' = [row EXCEPT !.window = now, !.tokens = n]
        \/ row' = [row EXCEPT !.tokens = sum]
    BY <1>2 DEF Quota!WithTokens, now, row
  <2> HIDE DEF sum
  <2>4. row' \in Rows /\ row'.is = row.is /\ row'.active = row.active /\ row'.last = row.last /\ row'.first = row.first
    <3>1. CASE row' = [row EXCEPT !.window = now, !.tokens = n]
      <4>1. now \in Int /\ n \in Int /\ row \in Rows
        BY <1>0
      <4>2. row' \in Rows
        BY <3>1, <4>1 DEF Rows
      <4>3. row'.is = row.is /\ row'.active = row.active /\ row'.last = row.last /\ row'.first = row.first
        BY <3>1, <4>1 DEF Rows
      <4>4. QED BY <4>2, <4>3
    <3>2. CASE row' = [row EXCEPT !.tokens = sum]
      BY <1>0, <2>2, <3>2 DEF Rows
    <3>3. QED BY <2>3, <3>1, <3>2
  <2>5. QED BY <1>2, <2>4, SameTimes
<1>3. QED BY <1>0, <1>1, <1>2 DEF Rows

LEMMA ReportKeeps ==
  ASSUME QuotaInv, NEW t \in Tab, Quota!Report(t)
  PROVE  QuotaInv'
<1> USE DEF QuotaInv
<1>1. LooksTyped'
  BY LooksStay DEF Quota!Report
<1> DEFINE p == pending[t]
           f == flight[t]
<1>f. /\ p \in Nat /\ f \in Flights /\ f.n \in Nat /\ f.counted \in BOOLEAN
      /\ f.at \in {"none", "sent"} => ~f.counted
      /\ charged \in Int /\ dropped \in Int /\ observed \in Int /\ twice \in Int
      /\ pending = [pending EXCEPT ![t] = p] /\ flight = [flight EXCEPT ![t] = f]
  BY FlightFacts
<1>2. f.at = "sent" /\ pending' = pending /\ UNCHANGED <<observed, dropped, twice>>
      /\ UNCHANGED <<now, touched, writes, forgot>>
  BY DEF Quota!Report, pending, flight, observed, dropped, twice, now, touched, writes, forgot
<1>3. CASE x1 < x4
  <2> DEFINE g == [f EXCEPT !.at = "bad"]
  <2>1. flight' = [flight EXCEPT ![t].at = "bad"] /\ row' = row /\ charged' = charged
    BY <1>3 DEF Quota!Report, flight, row, charged
  <2>2. g \in Flights /\ g.at = "bad" /\ g.n = f.n /\ g.counted = f.counted
    BY <1>f, NewFlights
  <2>3. OnlyTab(t, p, g)
    BY <1>f, <1>2, <2>1 DEF OnlyTab
  <2> HIDE DEF f, g, p
  <2>4. Uncounted(g) = Uncounted(f) /\ Uncounted(f) \in Int
    BY <1>f, <2>2 DEF Uncounted
  <2>5. ReportsTyped' /\ Quota!TokensAreCounted'
    <3>1. /\ ReportsTyped' /\ pending'[t] = p /\ flight'[t] = g
          /\ \A u \in Tab \ {t} : pending'[u] = pending[u] /\ flight'[u] = flight[u]
      BY <1>f, <1>2, <2>1, <2>2, <2>3, OneTab
    <3>2. (charged' - charged) + (pending'[t] - pending[t]) + (Uncounted(flight'[t]) - Uncounted(flight[t]))
           + (dropped' - dropped) = (observed' - observed) + (twice' - twice)
      BY <1>f, <1>2, <2>1, <2>4, <3>1 DEF f, p
    <3>3. QED BY <3>1, <3>2, Balance
  <2>6. TimeInv'
    BY <1>2, <2>1, TimeStays
  <2>7. QED BY <1>1, <2>5, <2>6
<1>4. CASE ~(x1 < x4)
  <2> DEFINE g == [f EXCEPT !.at = "ok", !.counted = TRUE]
  <2>1. /\ flight' = [flight EXCEPT ![t].at = "ok", ![t].counted = TRUE]
        /\ row' = Quota!WithTokens(row, f.n) /\ charged' = charged + f.n
    BY <1>4 DEF Quota!Report, flight, row, charged
  <2>2. g \in Flights /\ g.at = "ok" /\ g.n = f.n /\ g.counted
    BY <1>f, NewFlights
  <2>3. OnlyTab(t, p, g)
    <3>1. [flight EXCEPT ![t].at = "ok", ![t].counted = TRUE] = [flight EXCEPT ![t] = g]
      BY DEF ReportsTyped, Flights
    <3>2. QED BY <1>f, <1>2, <2>1, <3>1 DEF OnlyTab
  <2>4. TimeInv'
    BY <1>f, <1>2, <2>1, ReportedKeeps
  <2> HIDE DEF f, g, p
  <2>5. Uncounted(g) = 0 /\ Uncounted(f) = f.n
    BY <1>f, <1>2, <2>2 DEF Uncounted
  <2>6. ReportsTyped' /\ Quota!TokensAreCounted'
    <3>1. charged' \in Int
      BY <1>f, <2>1
    <3>2. /\ ReportsTyped' /\ pending'[t] = p /\ flight'[t] = g
          /\ \A u \in Tab \ {t} : pending'[u] = pending[u] /\ flight'[u] = flight[u]
      BY <1>f, <1>2, <2>2, <2>3, <3>1, OneTab
    <3>3. (charged' - charged) + (pending'[t] - pending[t]) + (Uncounted(flight'[t]) - Uncounted(flight[t]))
           + (dropped' - dropped) = (observed' - observed) + (twice' - twice)
      BY <1>f, <1>2, <2>1, <2>5, <3>2 DEF f, p
    <3>4. QED BY <3>2, <3>3, Balance
  <2>7. QED BY <1>1, <2>4, <2>6
<1>5. QED BY <1>3, <1>4

LEMMA CallKeeps ==
  ASSUME TimeInv, NEW prompt \in BOOLEAN, Quota!Call(prompt)
  PROVE  TimeInv'
<1>0. now \in Int /\ touched \in Int /\ Touch \in Nat /\ writes \in Nat /\ row \in Rows /\ row.is \in BOOLEAN
      /\ (~row.is => writes = 0 /\ forgot = 0)
  BY TabsFinite DEF TimeInv, RowTyped, WritesApart, Rows
<1>1. UNCHANGED <<now, forgot>> /\ writes' = writes + (IF row.is /\ now >= touched THEN 1 ELSE 0)
  BY DEF Quota!Call, Quota!tabs, Quota!ghosts, now, row, touched, writes, forgot
<1>2. CASE (row.is \/ prompt) /\ now >= touched
  <2>1. row' = Quota!Touched(row) /\ touched' = now + Touch
    BY <1>2 DEF Quota!Call, Quota!Looked, now, row, touched
  <2>2. CASE row.is
    <3>1. writes' = writes + 1
      BY <1>1, <1>2, <2>2
    <3>2. QED BY <1>1, <1>2, <2>1, <2>2, <3>1, WriteKeeps
  <2>3. CASE ~row.is
    <3>1. row' = [is |-> TRUE, first |-> now, last |-> now, active |-> 0, window |-> now, tokens |-> 0]
      BY <2>1, <2>3 DEF Quota!Touched, Quota!NewRow, now, row
    <3>2. row' \in Rows /\ row'.first = now /\ row'.last = now /\ row'.active = 0
      BY <1>0, <3>1 DEF Rows
    <3>3. touched' \in Int /\ writes' = 0 /\ forgot' = 0
      BY <1>0, <1>1, <2>1, <2>3
    <3>4. QED BY <1>1, <3>2, <3>3, BeginKeeps
  <2>4. QED BY <1>0, <2>2, <2>3
<1>3. CASE ~((row.is \/ prompt) /\ now >= touched)
  <2>1. row' = row /\ touched' = touched
    BY <1>3 DEF Quota!Call, Quota!Looked, now, row, touched
  <2>2. writes' = writes
    BY <1>0, <1>1, <1>3
  <2>3. QED BY <1>1, <2>1, <2>2, TimeStays
<1>4. QED BY <1>2, <1>3

LEMMA QuotaStep ==
  ASSUME QuotaInv, [Quota!Next]_QuotaVars
  PROVE  QuotaInv'
<1>0. now \in Int /\ touched \in Int
  BY DEF QuotaInv, TimeInv, RowTyped
<1>1. ASSUME UNCHANGED <<x5, x7, x8, x9, x11, x12, x13, x14>>, TimeInv'
      PROVE  QuotaInv'
  BY <1>1, LooksStay, TokensStay DEF QuotaInv
<1>2. CASE UNCHANGED QuotaVars
  <2>1. UNCHANGED <<x1, x2, x3, x5, x7, x8, x9, x11, x12, x13, x14, x16, x17>>
    BY <1>2 DEF QuotaVars
  <2>2. QED BY <1>1, <2>1, TimeStays DEF QuotaInv, now, row, touched, writes, forgot
<1>3. ASSUME NEW prompt \in BOOLEAN, Quota!Call(prompt) PROVE QuotaInv'
  <2>1. UNCHANGED <<x5, x7, x8, x9, x11, x12, x13, x14>>
    BY <1>3 DEF Quota!Call, Quota!tabs, Quota!ghosts
  <2>2. QED BY <1>1, <1>3, <2>1, CallKeeps DEF QuotaInv
<1>4. CASE Quota!QuotaChanged \/ Quota!Midnight
  <2>1. /\ UNCHANGED <<x1, x5, x7, x8, x9, x11, x12, x13, x14>> /\ row' = Quota!NoRow /\ writes' = 0 /\ forgot' = 0
        /\ touched' \in {touched, 0}
    BY <1>4 DEF Quota!QuotaChanged, Quota!Midnight, Quota!NothingUsed, Quota!tabs, Quota!ghosts, row, touched,
       writes, forgot
  <2>2. row' \in Rows /\ ~row'.is
    BY <2>1 DEF Quota!NoRow, Rows
  <2>3. TimeInv'
    BY <1>0, <2>1, <2>2, BeginKeeps DEF QuotaInv, now
  <2>4. QED BY <1>1, <2>1, <2>3
<1>5. CASE Quota!Tick
  <2>1. UNCHANGED <<x2, x3, x5, x7, x8, x9, x11, x12, x13, x14, x16, x17>>
    BY <1>5 DEF Quota!Tick, Quota!use, Quota!tabs, Quota!ghosts
  <2>2. PICK d \in Nat : now' = now + d
    BY <1>5, TabsFinite DEF Quota!Tick, now
  <2>3. row.last \in Int
    BY DEF QuotaInv, TimeInv, RowTyped, Rows
  <2>4. RowTyped' /\ WritesApart'
    BY <1>0, <2>1, <2>2 DEF QuotaInv, TimeInv, RowTyped, WritesApart, row, touched, writes, forgot
  <2>5. Quota!TimeWasSpent'
    BY <1>0, <2>1, <2>2, <2>3 DEF QuotaInv, TimeInv, Quota!TimeWasSpent, now, row, writes, forgot
  <2>6. QED BY <1>1, <2>1, <2>4, <2>5 DEF TimeInv
<1>6. CASE Quota!Forgets
  <2>1. /\ UNCHANGED <<x1, x2, x5, x7, x8, x9, x11, x12, x13, x14, x16>> /\ touched' \in {touched, 0}
        /\ forgot' = forgot + (IF row.is THEN 1 ELSE 0)
    BY <1>6 DEF Quota!Forgets, Quota!tabs, Quota!ghosts, row, touched, forgot
  <2>2. TimeInv'
    BY <1>0, <2>1, ForgetsKeeps DEF QuotaInv, now, row, writes
  <2>3. QED BY <1>1, <2>1, <2>2
<1>7. QED BY <1>2, <1>3, <1>4, <1>5, <1>6, TabSteps, ReportKeeps DEF Quota!Next

LEMMA QuotaInit ==
  ASSUME Quota!Init PROVE QuotaInv
<1>1. TimeInv
  BY DEF Quota!Init, TimeInv, RowTyped, WritesApart, Quota!TimeWasSpent, Quota!NoRow, Rows, now, row, touched,
     writes, forgot
<1>2. LooksTyped
  BY DEF Quota!Init, LooksTyped, total, seen
<1>3. ReportsTyped
  <2>1. /\ pending = [t \in Tab |-> 0] /\ flight = [t \in Tab |-> Quota!NoFlight]
        /\ charged = 0 /\ dropped = 0 /\ observed = 0 /\ twice = 0
    BY DEF Quota!Init, pending, flight, charged, dropped, observed, twice
  <2>2. /\ Quota!NoFlight \in Flights /\ Quota!NoFlight.at = "none" /\ Quota!NoFlight.n = 0
        /\ ~Quota!NoFlight.counted
    BY NewFlights
  <2>3. QED BY <2>1, <2>2 DEF ReportsTyped
<1>4. Quota!Waiting = 0
  BY SumOfNothing DEF Quota!Init, Quota!Waiting
<1>5. Quota!Flying = 0
  <2>1. Quota!Uncounted = [t \in Tab |-> 0]
    BY NewFlights DEF Quota!Init, Quota!Uncounted
  <2>2. QED BY <2>1, SumOfNothing DEF Quota!Flying
<1>6. Quota!TokensAreCounted
  BY <1>4, <1>5 DEF Quota!Init, Quota!TokensAreCounted
<1>7. QED BY <1>1, <1>2, <1>3, <1>6 DEF QuotaInv

(* No token is charged twice or forgotten but with its tab, whatever       *)
(* reports and answers are lost, and the time counted is that which passed *)
(* but for half a second a write, writes the throttle keeps apart          *)
(* (token.tsx:66, db.ts:2111).                                             *)
THEOREM UsageHolds == Spec => []UsageIsTrue
<1> DEFINE Inv == part = "quota" => QuotaInv
<1>1. Init => Inv
  BY QuotaInit DEF Init
<1>2. Inv /\ [Next]_vars => Inv'
  <2>1. SUFFICES ASSUME QuotaInv, [Next]_vars, part = "quota" PROVE QuotaInv'
    BY PartStays
  <2>2. [Quota!Next]_QuotaVars
    BY <2>1 DEF Next, vars, QuotaVars, ModelsSteps, InventorySteps, EndpointsSteps, LoginsSteps, QuotaSteps,
       WorkspacesSteps
  <2>3. QED BY <2>1, <2>2, QuotaStep
<1>3. Inv => UsageIsTrue
  BY DEF UsageIsTrue, QuotaInv, TimeInv
<1> HIDE DEF Inv
<1>4. QED BY <1>1, <1>2, <1>3, PTL DEF Spec

------------------------------------------------------------------------------
(* ModelChoice.                                                            *)

record == x3
prompts == x6  \* the requests
follow == x7
selected == x9
ever == x12

ModelsVars == <<x1, x2, x3, x4, x5, x6, x7, x8, x9, x10, x11, x12, x13, x14, x15, x16>>

Phases == {"idle", "body", "confirming", "sent", "answered", "settling", "over"}
Chosen == Model \cup {None, Unknown}
Requests ==
  [phase : Phases, kind : Models!Kinds, session : Session \cup {Unknown}, model : Chosen,
   preset : Preset \cup {Unknown}, models : Models!Lists(Model), presets : Models!Lists(Preset),
   ok : BOOLEAN]
Frames == [session : Session, model : Chosen]

ListsTyped ==
  /\ x1 \in Models!Lists(Model) /\ x2 \in Models!Lists(Preset)
  /\ x5 \in [Session -> Preset \cup {Unknown}] /\ x10 \in Model
  /\ record \in [Session -> Chosen]
  /\ selected \in [Session -> Chosen]
  /\ DOMAIN ever = Session

(* The presets the host has and the events that tell of them.              *)
PresetsTyped ==
  /\ x11 \in [Session -> Preset \cup {Unknown}]
  /\ x16 \subseteq [session : Session, preset : Preset \cup {Unknown}]

(* What the record may be taken from was the host's choice: selections,    *)
(* frames and answers.                                                     *)
WasHad(s, m) == s \in Session /\ m \in ever[s]
HostHad == \A s \in Session : None \in ever[s] /\ selected[s] \in ever[s]
FramesHad == \A i \in DOMAIN follow : WasHad(follow[i].session, follow[i].model)
Fine(q) ==
  /\ q.phase = "confirming" => q.kind = "prompt"
  /\ q.kind # "prompt" => q.session \in Session
  /\ q.kind = "selectModel" /\ q.ok => WasHad(q.session, q.model)

AskedTyped == prompts \in [Request -> Requests]
AskedFine == \A r \in Request : Fine(prompts[r])
FramesTyped == follow \in Seq(Frames)

ModelsInv ==
  /\ ListsTyped /\ PresetsTyped /\ HostHad
  /\ AskedTyped /\ AskedFine
  /\ FramesTyped /\ FramesHad
  /\ Models!RecordWasReal

(* What the host has had it has had ever after.                            *)
EverGrows == DOMAIN ever' = Session /\ \A s \in Session : ever[s] \subseteq ever'[s]

(* A step of one request that leaves the rest in order.                    *)
LEMMA RequestKeeps ==
  ASSUME AskedTyped, AskedFine, EverGrows, NEW r \in Request, NEW q \in Requests, Fine(q)',
         prompts' = [prompts EXCEPT ![r] = q]
  PROVE  AskedTyped' /\ AskedFine'
<1>1. AskedTyped'
  BY DEF AskedTyped
<1>2. ASSUME NEW z \in Request PROVE Fine(prompts[z])'
  <2>1. CASE z = r
    BY <2>1 DEF AskedTyped, Fine, WasHad
  <2>2. CASE z # r
    <3>1. prompts'[z] = prompts[z]
      BY <2>2 DEF AskedTyped
    <3>2. QED BY <3>1 DEF AskedFine, Fine, WasHad, EverGrows
  <2>3. QED BY <2>1, <2>2
<1>3. QED BY <1>1, <1>2 DEF AskedFine

(* A frame put at the end, and the first one taken.                        *)
LEMMA FrameAdded ==
  ASSUME FramesTyped, FramesHad, EverGrows, NEW s \in Session, NEW m \in Chosen, m \in ever'[s],
         follow' \in {follow, Append(follow, [session |-> s, model |-> m])}
  PROVE  FramesTyped' /\ FramesHad'
<1> DEFINE f == [session |-> s, model |-> m]
<1>1. f \in Frames /\ f.session = s /\ f.model = m
  BY DEF Frames
<1> HIDE DEF f
<1>2. ASSUME NEW i \in DOMAIN follow' PROVE WasHad(follow[i].session, follow[i].model)'
  <2>1. CASE i \in DOMAIN follow /\ follow'[i] = follow[i]
    BY <2>1 DEF FramesHad, WasHad, EverGrows
  <2>2. CASE follow'[i] = f
    BY <1>1, <2>2 DEF WasHad
  <2>3. (i \in DOMAIN follow /\ follow'[i] = follow[i]) \/ follow'[i] = f
    <3>1. follow' = follow \/ follow' = Append(follow, f)
      BY DEF f
    <3>2. QED BY <1>1, <1>2, <3>1 DEF FramesTyped
  <2>4. QED BY <2>1, <2>2, <2>3
<1>3. FramesTyped'
  BY <1>1 DEF FramesTyped, f
<1>4. QED BY <1>2, <1>3 DEF FramesHad

LEMMA FrameTaken ==
  ASSUME FramesTyped, FramesHad, UNCHANGED ever, follow # <<>>, follow' = Tail(follow)
  PROVE  /\ FramesTyped' /\ FramesHad'
         /\ Head(follow) \in Frames /\ WasHad(Head(follow).session, Head(follow).model)
<1>1. FramesTyped' /\ \A i \in DOMAIN follow' : i + 1 \in DOMAIN follow /\ follow'[i] = follow[i + 1]
  BY DEF FramesTyped
<1>2. Head(follow) = follow[1] /\ 1 \in DOMAIN follow /\ follow[1] \in Frames
  BY DEF FramesTyped
<1>3. QED BY <1>1, <1>2 DEF FramesHad, WasHad

(* The record takes what the host has had, or nothing.                     *)
LEMMA RecordKeeps ==
  ASSUME ListsTyped, Models!RecordWasReal, UNCHANGED ever, NEW s \in Session, NEW m \in Chosen,
         WasHad(s, m), record' = Models!Recorded(s, m)
  PROVE  record' \in [Session -> Chosen] /\ Models!RecordWasReal'
<1>1. record' \in [Session -> Chosen] /\ \A z \in Session : record'[z] = IF z = s THEN m ELSE record[z]
  BY DEF ListsTyped, Models!Recorded, record
<1>2. QED BY <1>1 DEF Models!RecordWasReal, WasHad, record, ever

(* A draft of a request: what it says and what it keeps.                   *)
LEMMA IdleRequest ==
  /\ Models!Idle \in Requests /\ Models!Idle.kind = "prompt" /\ Models!Idle.phase = "idle"
  /\ \A p \in Phases : /\ [Models!Idle EXCEPT !.phase = p] \in Requests
                                        /\ [Models!Idle EXCEPT !.phase = p].kind = "prompt"
                                        /\ [Models!Idle EXCEPT !.phase = p].phase = p
  BY DEF Models!Idle, Requests, Models!Kinds, Chosen, Models!Lists, Phases

LEMMA PhaseOf ==
  ASSUME NEW q \in Requests, NEW p \in Phases
  PROVE  /\ [q EXCEPT !.phase = p] \in Requests
         /\ [q EXCEPT !.phase = p].phase = p
         /\ [q EXCEPT !.phase = p].kind = q.kind
         /\ [q EXCEPT !.phase = p].ok = q.ok
         /\ [q EXCEPT !.phase = p].session = q.session
         /\ [q EXCEPT !.phase = p].model = q.model
  BY DEF Requests

LEMMA PresetsKept ==
  ASSUME ModelsInv, UNCHANGED <<x11, x16>> PROVE PresetsTyped'
  BY DEF ModelsInv, PresetsTyped

(* What does not touch the records, the frames and the models at the host. *)
LEMMA OnlyRequests ==
  ASSUME ModelsInv, NEW r \in Request, NEW q \in Requests, Fine(q)', prompts' = [prompts EXCEPT ![r] = q],
         UNCHANGED <<x1, x2, x3, x5, x7, x9, x10, x12>>, PresetsTyped'
  PROVE  ModelsInv'
<1>1. EverGrows
  BY DEF ModelsInv, ListsTyped, EverGrows, ever
<1>2. AskedTyped' /\ AskedFine'
  BY <1>1, RequestKeeps DEF ModelsInv
<1>3. QED BY <1>2 DEF ModelsInv, ListsTyped, HostHad, FramesTyped, FramesHad, WasHad, Models!RecordWasReal,
             record, selected, follow, ever

(* A request that is over says nothing any more.                           *)
LEMMA OverKeeps ==
  ASSUME ModelsInv, EverGrows, NEW r \in Request, Models!Over(r)
  PROVE  AskedTyped' /\ AskedFine'
<1> DEFINE q == [Models!Idle EXCEPT !.phase = "over"]
<1>1. q \in Requests /\ q.kind = "prompt" /\ q.phase = "over"
  BY IdleRequest DEF Phases
<1>2. prompts' = [prompts EXCEPT ![r] = q]
  BY DEF Models!Over, prompts
<1> HIDE DEF q
<1>3. Fine(q)'
  BY <1>1 DEF Fine
<1>4. QED BY <1>1, <1>2, <1>3, RequestKeeps DEF ModelsInv

LEMMA OverRest ==
  ASSUME ModelsInv, NEW r \in Request, Models!Over(r),
         UNCHANGED <<x1, x2, x3, x5, x7, x9, x10, x11, x12, x16>>
  PROVE  ModelsInv'
<1>1. EverGrows
  BY DEF ModelsInv, ListsTyped, EverGrows, ever
<1>2. AskedTyped' /\ AskedFine'
  BY <1>1, OverKeeps
<1>3. QED BY <1>2, PresetsKept DEF ModelsInv, ListsTyped, HostHad, FramesTyped, FramesHad, WasHad, Models!RecordWasReal,
             record, selected, follow, ever

(* The gates.                                                              *)
LEMMA ArrivesKeeps ==
  ASSUME ModelsInv, NEW r \in Request, NEW main \in BOOLEAN, NEW kind \in Models!Kinds,
         NEW s \in Session, NEW m \in Model \cup {Unknown}, NEW p \in Preset \cup {Unknown},
         Models!Arrives(r, main, kind, s, m, p)
  PROVE  ModelsInv'
<1> DEFINE q == [Models!Idle EXCEPT !.phase = "body", !.kind = kind, !.session = s, !.model = m, !.preset = p,
                   !.models = IF main THEN NoLimit ELSE x1,
                   !.presets = IF main THEN NoLimit ELSE x2]
<1>1. prompts' = [prompts EXCEPT ![r] = q] /\ UNCHANGED <<x1, x2, x3, x5, x7, x9, x10, x11, x12, x16>>
  BY DEF Models!Arrives, Models!lists, Models!records, Models!coming, Models!hostVars, prompts
<1>2. q \in Requests
  <2>1. x1 \in Models!Lists(Model) /\ x2 \in Models!Lists(Preset) /\ NoLimit \in Models!Lists(Model)
        /\ NoLimit \in Models!Lists(Preset)
    BY DEF ModelsInv, ListsTyped, Models!Lists
  <2>2. QED BY <2>1 DEF Models!Idle, Requests, Chosen, Phases
<1>3. q.phase = "body" /\ q.session = s /\ q.ok = FALSE
  BY DEF Models!Idle
<1> HIDE DEF q
<1>4. PICK new : new = q
  OBVIOUS
<1>5. Fine(new)'
  BY <1>3, <1>4 DEF Fine
<1>6. QED BY <1>1, <1>2, <1>4, <1>5, OnlyRequests, PresetsKept

LEMMA BodyKeeps ==
  ASSUME ModelsInv, NEW r \in Request, Models!BodyRead(r)
  PROVE  ModelsInv'
<1> DEFINE q == prompts[r]
<1>1. q \in Requests /\ Fine(q) /\ q.phase = "body"
  BY DEF ModelsInv, AskedTyped, AskedFine, Models!BodyRead, prompts
<1>2. UNCHANGED <<x1, x2, x3, x5, x7, x9, x10, x11, x12, x16>>
  BY DEF Models!BodyRead, Models!lists, Models!records, Models!coming, Models!hostVars
<1>3. CASE Models!Over(r)
  BY <1>2, <1>3, OverRest
<1>4. CASE prompts' = [prompts EXCEPT ![r].phase = IF q.kind = "prompt" THEN "confirming" ELSE "sent",
                                      ![r].preset = Models!Inherited(q)]
  <2>1. Models!Inherited(q) \in Preset \cup {Unknown}
    BY <1>1 DEF Models!Inherited, ModelsInv, ListsTyped, Requests, Fine
  <2>2. PICK p \in Preset \cup {Unknown} : p = Models!Inherited(q)
    BY <2>1
  <2>3. PICK phase \in Phases : phase = IF q.kind = "prompt" THEN "confirming" ELSE "sent"
    BY DEF Phases
  <2> DEFINE n == [q EXCEPT !.phase = phase, !.preset = p]
  <2>4. prompts' = [prompts EXCEPT ![r] = n]
    BY <1>4, <2>2, <2>3 DEF ModelsInv, AskedTyped
  <2>5. /\ n \in Requests /\ n.phase = phase /\ n.kind = q.kind /\ n.ok = q.ok
        /\ n.session = q.session /\ n.model = q.model
    BY <1>1 DEF Requests
  <2> HIDE DEF n
  <2>6. PICK new : new = n
    OBVIOUS
  <2>7. Fine(new)'
    BY <1>1, <1>2, <2>3, <2>5, <2>6 DEF Fine, WasHad, ever
  <2>8. QED BY <1>2, <2>4, <2>5, <2>6, <2>7, OnlyRequests, PresetsKept
<1>5. QED BY <1>3, <1>4 DEF Models!BodyRead, prompts

LEMMA ConfirmedKeeps ==
  ASSUME ModelsInv, NEW r \in Request, Models!Confirmed(r) \/ Models!ConfirmationFails(r)
  PROVE  ModelsInv'
<1>1. UNCHANGED <<x1, x2, x3, x5, x7, x9, x10, x11, x12, x16>>
  BY DEF Models!Confirmed, Models!ConfirmationFails, Models!lists, Models!records, Models!coming, Models!hostVars
<1>2. CASE Models!Over(r)
  BY <1>1, <1>2, OverRest
<1>3. CASE Models!Goto(r, "sent")
  <2>1. prompts[r] \in Requests /\ Fine(prompts[r])
    BY DEF ModelsInv, AskedTyped, AskedFine
  <2>2. PICK q \in Requests : q = [prompts[r] EXCEPT !.phase = "sent"]
    BY <2>1, PhaseOf DEF Phases
  <2>3. Fine(q)'
    BY <1>1, <2>1, <2>2, PhaseOf DEF Phases, Fine, WasHad, ever
  <2>4. prompts' = [prompts EXCEPT ![r] = q]
    BY <1>3, <2>2 DEF Models!Goto, prompts
  <2>5. QED BY <1>1, <2>3, <2>4, OnlyRequests, PresetsKept
<1>4. QED BY <1>2, <1>3 DEF Models!Confirmed, Models!ConfirmationFails

(* The host.                                                               *)
LEMMA HostSelectsKeeps ==
  ASSUME ModelsInv, NEW r \in Request, Models!HostSelects(r)
  PROVE  ModelsInv'
<1>1. PICK q \in Requests : q = prompts[r] /\ Fine(q)
  BY DEF ModelsInv, AskedTyped, AskedFine
<1>2. q.kind = "selectModel" /\ q.session \in Session /\ q.model \in Chosen
  BY <1>1 DEF Models!HostSelects, prompts, Fine, Requests
<1>3. UNCHANGED <<x1, x2, x3, x5, x10, x11, x16>>
  BY DEF Models!HostSelects, Models!lists, Models!records
<1>4. CASE UNCHANGED <<x7, x9, x12>> /\ prompts' = [prompts EXCEPT ![r].phase = "answered"]
  <2>1. PICK n \in Requests : n = [q EXCEPT !.phase = "answered"]
    BY PhaseOf DEF Phases
  <2>2. Fine(n)'
    BY <1>1, <1>4, <2>1, PhaseOf DEF Phases, Fine, WasHad, ever
  <2>3. prompts' = [prompts EXCEPT ![r] = n]
    BY <1>1, <1>4, <2>1
  <2>4. QED BY <1>3, <1>4, <2>2, <2>3, OnlyRequests, PresetsKept
<1>5. CASE /\ selected' = [selected EXCEPT ![q.session] = q.model]
           /\ ever' = [ever EXCEPT ![q.session] = @ \cup {q.model}]
           /\ prompts' = [prompts EXCEPT ![r].phase = "answered", ![r].ok = TRUE]
           /\ follow' \in {follow, Append(follow, [session |-> q.session, model |-> q.model])}
  <2>1. /\ DOMAIN ever' = Session
        /\ \A s \in Session : ever'[s] = IF s = q.session THEN ever[s] \cup {q.model} ELSE ever[s]
    BY <1>5 DEF ModelsInv, ListsTyped
  <2>2. EverGrows /\ q.model \in ever'[q.session]
    BY <1>2, <2>1 DEF EverGrows
  <2> DEFINE n0 == [q EXCEPT !.phase = "answered", !.ok = TRUE]
  <2>3. PICK n \in Requests : n = n0
    BY DEF Requests, Phases
  <2>4. n.phase = "answered" /\ n.kind = q.kind /\ n.session = q.session /\ n.model = q.model
    BY <2>3 DEF Requests
  <2>5. Fine(n)'
    BY <1>2, <2>2, <2>4 DEF Fine, WasHad
  <2>6. prompts' = [prompts EXCEPT ![r] = n]
    BY <1>1, <1>5, <2>3 DEF ModelsInv, AskedTyped
  <2>7. AskedTyped' /\ AskedFine'
    BY <2>2, <2>5, <2>6, RequestKeeps DEF ModelsInv
  <2>8. FramesTyped' /\ FramesHad'
    BY <1>2, <1>5, <2>2, FrameAdded DEF ModelsInv
  <2>9. /\ selected' \in [Session -> Chosen]
        /\ \A s \in Session : selected'[s] = IF s = q.session THEN q.model ELSE selected[s]
    BY <1>2, <1>5 DEF ModelsInv, ListsTyped
  <2>10. ListsTyped'
    BY <1>3, <2>1, <2>9 DEF ModelsInv, ListsTyped, record
  <2>11. HostHad'
    BY <2>2, <2>9 DEF ModelsInv, HostHad, EverGrows
  <2>12. Models!RecordWasReal'
    BY <1>3, <2>2 DEF ModelsInv, EverGrows, Models!RecordWasReal, ever
  <2>13. PresetsTyped'
    BY <1>3, PresetsKept
  <2>14. QED BY <2>7, <2>8, <2>10, <2>11, <2>12, <2>13 DEF ModelsInv
<1>6. QED BY <1>1, <1>4, <1>5 DEF Models!HostSelects, prompts, selected, follow, ever

LEMMA HostCreatesKeeps ==
  ASSUME ModelsInv, NEW r \in Request, Models!HostCreates(r)
  PROVE  ModelsInv'
<1>1. PICK q \in Requests : q = prompts[r] /\ Fine(q)
  BY DEF ModelsInv, AskedTyped, AskedFine
<1>2. q.kind \in {"create", "fork"} /\ UNCHANGED <<x1, x2, x3, x5, x7, x9, x10, x12>>
  BY <1>1 DEF Models!HostCreates, Models!lists, Models!records, prompts
<1>3. PICK s \in Session, p \in Preset \cup {Unknown} :
        /\ x11' \in {x11, [x11 EXCEPT ![s] = p]}
        /\ x16' \subseteq x16 \cup {[session |-> s, preset |-> p]}
        /\ prompts' = [prompts EXCEPT ![r].phase = "answered", ![r].ok = TRUE, ![r].session = s, ![r].preset = p]
  <2>1. q.session \in Session /\ q.preset \in Preset \cup {Unknown}
    BY <1>1, <1>2 DEF Fine, Requests
  <2>2. PICK s \in (IF q.kind = "create" THEN {q.session} ELSE Session \ x8),
             p \in (IF q.preset = Unknown THEN Preset ELSE {q.preset}) :
          /\ x11' = [x11 EXCEPT ![s] = p] \/ UNCHANGED x11
          /\ x16' \in {x16} \cup {x16 \cup {[session |-> z, preset |-> p]} : z \in {s} \ x8}
          /\ prompts' = [prompts EXCEPT ![r].phase = "answered", ![r].ok = TRUE, ![r].session = s, ![r].preset = p]
    BY <1>1 DEF Models!HostCreates, prompts
  <2>3. s \in Session /\ p \in Preset \cup {Unknown}
    BY <2>1
  <2>4. QED BY <2>2, <2>3
<1> DEFINE n0 == [q EXCEPT !.phase = "answered", !.ok = TRUE, !.session = s, !.preset = p]
<1>4. PICK n \in Requests : n = n0
  BY DEF Requests, Phases
<1>5. n.phase = "answered" /\ n.kind = q.kind /\ n.session = s
  BY <1>4 DEF Requests
<1>6. prompts' = [prompts EXCEPT ![r] = n]
  BY <1>1, <1>3, <1>4 DEF ModelsInv, AskedTyped
<1>7. Fine(n)'
  BY <1>2, <1>5 DEF Fine
<1>8. PresetsTyped'
  BY <1>3 DEF ModelsInv, PresetsTyped
<1>9. QED BY <1>2, <1>6, <1>7, <1>8, OnlyRequests

(* The host answers, and nothing but a preset is another.                  *)
LEMMA HostAnswersKeep ==
  ASSUME ModelsInv, NEW r \in Request,
         Models!HostTakesPreset(r) \/ Models!HostTellsCatalog(r) \/ Models!HostLists(r)
  PROVE  ModelsInv'
<1>1. PICK q \in Requests : q = prompts[r] /\ Fine(q)
  BY DEF ModelsInv, AskedTyped, AskedFine
<1>2. /\ q.kind \in {"selectPreset", "catalog", "list"}
      /\ UNCHANGED <<x1, x2, x3, x5, x7, x9, x10, x12, x16>>
      /\ x11' \in {x11, [x11 EXCEPT ![q.session] = q.preset]}
  BY <1>1 DEF Models!HostTakesPreset, Models!HostTellsCatalog, Models!HostLists, Models!lists, Models!records,
     Models!coming, Models!hostVars, prompts
<1>3. q.session \in Session /\ q.preset \in Preset \cup {Unknown}
  BY <1>1, <1>2 DEF Fine, Requests
<1>4. PICK n \in Requests : /\ prompts' = [prompts EXCEPT ![r] = n]
                            /\ n.phase = "answered" /\ n.kind = q.kind /\ n.session = q.session
  <2> DEFINE a == [q EXCEPT !.phase = "answered"]
             b == [q EXCEPT !.phase = "answered", !.ok = TRUE]
             c == [q EXCEPT !.phase = "answered", !.ok = TRUE, !.model = x10]
             d == [q EXCEPT !.phase = "answered", !.ok = TRUE, !.preset = x11[q.session]]
  <2>1. prompts' \in {[prompts EXCEPT ![r] = a], [prompts EXCEPT ![r] = b], [prompts EXCEPT ![r] = c],
                      [prompts EXCEPT ![r] = d]}
    <3>1. prompts' \in {[prompts EXCEPT ![r].phase = "answered"],
                        [prompts EXCEPT ![r].phase = "answered", ![r].ok = TRUE],
                        [prompts EXCEPT ![r].phase = "answered", ![r].ok = TRUE, ![r].model = x10],
                        [prompts EXCEPT ![r].phase = "answered", ![r].ok = TRUE, ![r].preset = x11[q.session]]}
      BY <1>1 DEF Models!HostTakesPreset, Models!HostTellsCatalog, Models!HostLists, prompts
    <3>2. [prompts EXCEPT ![r].phase = "answered"] = [prompts EXCEPT ![r] = a]
      BY <1>1
    <3>3. [prompts EXCEPT ![r].phase = "answered", ![r].ok = TRUE] = [prompts EXCEPT ![r] = b]
      BY <1>1 DEF ModelsInv, AskedTyped
    <3>4. [prompts EXCEPT ![r].phase = "answered", ![r].ok = TRUE, ![r].model = x10] = [prompts EXCEPT ![r] = c]
      BY <1>1 DEF ModelsInv, AskedTyped
    <3>5. [prompts EXCEPT ![r].phase = "answered", ![r].ok = TRUE, ![r].preset = x11[q.session]]
            = [prompts EXCEPT ![r] = d]
      BY <1>1 DEF ModelsInv, AskedTyped
    <3>6. QED BY <3>1, <3>2, <3>3, <3>4, <3>5
  <2>2. x10 \in Chosen /\ x11[q.session] \in Preset \cup {Unknown}
    BY <1>3 DEF ModelsInv, ListsTyped, PresetsTyped, Chosen
  <2>3. /\ a \in Requests /\ a.phase = "answered" /\ a.kind = q.kind /\ a.session = q.session
        /\ b \in Requests /\ b.phase = "answered" /\ b.kind = q.kind /\ b.session = q.session
        /\ c \in Requests /\ c.phase = "answered" /\ c.kind = q.kind /\ c.session = q.session
    BY <2>2 DEF Requests, Phases
  <2>4. d \in Requests /\ d.phase = "answered" /\ d.kind = q.kind /\ d.session = q.session
    BY <2>2 DEF Requests, Phases
  <2> HIDE DEF a, b, c, d
  <2>5. QED BY <2>1, <2>3, <2>4
<1>5. Fine(n)'
  BY <1>1, <1>2, <1>4 DEF Fine
<1>6. PresetsTyped'
  BY <1>2, <1>3 DEF ModelsInv, PresetsTyped
<1>7. QED BY <1>2, <1>4, <1>5, <1>6, OnlyRequests

(* Steps that leave the requests alone.                                    *)
LEMMA WorldKeeps ==
  ASSUME ModelsInv,
         \/ \E s \in Session : Models!Snapshot(s)
         \/ \E m \in Model : Models!DefaultChanges(m)
         \/ \E m \in Models!Lists(Model), p \in Models!Lists(Preset) : Models!SaveLists(m, p)
  PROVE  ModelsInv'
<1>1. ASSUME NEW s \in Session, Models!Snapshot(s) PROVE ModelsInv'
  <2>1. /\ UNCHANGED <<x1, x2, x3, x5, x6, x9, x10, x11, x12, x16>>
        /\ follow' = Append(follow, [session |-> s, model |-> selected[s]])
    BY <1>1 DEF Models!Snapshot, Models!lists, Models!records, Models!hostVars, follow, selected
  <2>2. PICK m \in Chosen : m = selected[s] /\ m \in ever[s]
    BY DEF ModelsInv, ListsTyped, HostHad
  <2>3. EverGrows /\ m \in ever'[s]
    BY <2>1, <2>2 DEF ModelsInv, ListsTyped, EverGrows, ever
  <2>4. FramesTyped' /\ FramesHad'
    BY <2>1, <2>2, <2>3, FrameAdded DEF ModelsInv
  <2>5. QED BY <2>1, <2>4, PresetsKept DEF ModelsInv, ListsTyped, HostHad, AskedTyped, AskedFine, Fine, WasHad,
               Models!RecordWasReal, record, prompts, selected, ever
<1>2. ASSUME NEW m \in Model, Models!DefaultChanges(m) PROVE ModelsInv'
  <2>1. x10' = m /\ UNCHANGED <<x1, x2, x3, x5, x6, x7, x9, x11, x12, x16>>
    BY <1>2 DEF Models!DefaultChanges, Models!lists, Models!records, Models!coming
  <2>2. QED BY <2>1, PresetsKept DEF ModelsInv, ListsTyped, HostHad, AskedTyped, AskedFine, Fine, WasHad, FramesTyped,
               FramesHad, Models!RecordWasReal, record, prompts, selected, follow, ever
<1>3. ASSUME NEW m \in Models!Lists(Model), NEW p \in Models!Lists(Preset), Models!SaveLists(m, p)
      PROVE  ModelsInv'
  <2>1. x1' = m /\ x2' = p /\ UNCHANGED <<x3, x5, x6, x7, x9, x10, x11, x12, x16>>
    BY <1>3 DEF Models!SaveLists, Models!records, Models!coming, Models!hostVars
  <2>2. QED BY <2>1, PresetsKept DEF ModelsInv, ListsTyped, HostHad, AskedTyped, AskedFine, Fine, WasHad, FramesTyped,
               FramesHad, Models!RecordWasReal, record, prompts, selected, follow, ever
<1>4. QED BY <1>1, <1>2, <1>3

(* What comes back.                                                        *)
LEMMA ModelAnsweredKeeps ==
  ASSUME ModelsInv, NEW r \in Request, Models!ModelAnswered(r)
  PROVE  ModelsInv'
<1>1. PICK q \in Requests : q = prompts[r] /\ Fine(q)
  BY DEF ModelsInv, AskedTyped, AskedFine
<1>2. /\ q.kind = "selectModel" /\ Models!Over(r)
      /\ record' = Models!SelectedAnswer(q)
      /\ UNCHANGED <<x1, x2, x5, x7, x9, x10, x11, x12, x16>>
  BY <1>1 DEF Models!ModelAnswered, Models!lists, Models!coming, Models!hostVars, prompts, record
<1>3. EverGrows /\ UNCHANGED ever
  BY <1>2 DEF ModelsInv, ListsTyped, EverGrows, ever
<1>4. AskedTyped' /\ AskedFine'
  BY <1>2, <1>3, OverKeeps
<1>5. record' \in [Session -> Chosen] /\ Models!RecordWasReal'
  <2>1. CASE q.ok
    <3>1. q.session \in Session /\ q.model \in Chosen /\ WasHad(q.session, q.model)
      BY <1>1, <1>2, <2>1 DEF Fine, Requests
    <3>2. record' = Models!Recorded(q.session, q.model)
      BY <1>2, <2>1 DEF Models!SelectedAnswer
    <3>3. QED BY <1>3, <3>1, <3>2, RecordKeeps DEF ModelsInv
  <2>2. CASE ~q.ok
    <3>1. UNCHANGED record
      BY <1>2, <2>2 DEF Models!SelectedAnswer, record
    <3>2. QED BY <1>3, <3>1 DEF ModelsInv, ListsTyped, Models!RecordWasReal, record, ever
  <2>3. QED BY <2>1, <2>2
<1>6. QED BY <1>2, <1>3, <1>4, <1>5, PresetsKept DEF ModelsInv, ListsTyped, HostHad, FramesTyped, FramesHad, WasHad,
             selected, follow, ever

LEMMA CreateAnsweredKeeps ==
  ASSUME ModelsInv, NEW r \in Request, Models!CreateAnswered(r)
  PROVE  ModelsInv'
<1>1. PICK q \in Requests : q = prompts[r] /\ Fine(q)
  BY DEF ModelsInv, AskedTyped, AskedFine
<1>2. /\ q.kind \in {"create", "fork"} /\ prompts' = [prompts EXCEPT ![r].phase = "settling"]
      /\ record' = Models!Recorded(q.session, None)
      /\ UNCHANGED <<x1, x2, x5, x7, x9, x10, x11, x12, x16>>
  BY <1>1 DEF Models!CreateAnswered, Models!Goto, Models!lists, Models!coming, Models!hostVars, prompts, record
<1>3. EverGrows /\ UNCHANGED ever
  BY <1>2 DEF ModelsInv, ListsTyped, EverGrows, ever
<1>4. PICK n \in Requests : n = [q EXCEPT !.phase = "settling"]
  BY PhaseOf DEF Phases
<1>5. Fine(n)'
  BY <1>1, <1>2, <1>4, PhaseOf DEF Phases, Fine
<1>6. AskedTyped' /\ AskedFine'
  BY <1>1, <1>2, <1>3, <1>4, <1>5, RequestKeeps DEF ModelsInv
<1>7. q.session \in Session /\ None \in Chosen /\ WasHad(q.session, None)
  BY <1>1, <1>2 DEF ModelsInv, HostHad, Fine, WasHad, Chosen
<1>8. record' \in [Session -> Chosen] /\ Models!RecordWasReal'
  BY <1>2, <1>3, <1>7, RecordKeeps DEF ModelsInv
<1>9. QED BY <1>2, <1>3, <1>6, <1>8, PresetsKept DEF ModelsInv, ListsTyped, HostHad, FramesTyped, FramesHad, WasHad,
             selected, follow, ever

LEMMA SettledKeeps ==
  ASSUME ModelsInv, NEW r \in Request,
         Models!CreateSettled(r) \/ Models!PresetAnswered(r) \/ Models!ListAnswered(r)
  PROVE  ModelsInv'
<1>1. prompts[r] \in Requests
  BY DEF ModelsInv, AskedTyped
<1>2. /\ Models!Over(r)
      /\ x5' \in {[x5 EXCEPT ![prompts[r].session] = prompts[r].preset], x5}
      /\ UNCHANGED <<x1, x2, x3, x7, x9, x10, x11, x12, x16>>
  BY DEF Models!CreateSettled, Models!PresetAnswered, Models!ListAnswered, Models!lists, Models!coming, Models!hostVars, prompts
<1>3. EverGrows
  BY <1>2 DEF ModelsInv, ListsTyped, EverGrows, ever
<1>4. AskedTyped' /\ AskedFine'
  BY <1>2, <1>3, OverKeeps
<1>5. x5' \in [Session -> Preset \cup {Unknown}]
  BY <1>1, <1>2 DEF ModelsInv, ListsTyped, Requests
<1>6. QED BY <1>2, <1>4, <1>5, PresetsKept DEF ModelsInv, ListsTyped, HostHad, FramesTyped, FramesHad, WasHad,
             Models!RecordWasReal, record, selected, follow, ever

LEMMA OverAnswersKeep ==
  ASSUME ModelsInv, NEW r \in Request, Models!CatalogAnswered(r) \/ Models!HostRuns(r)
  PROVE  ModelsInv'
<1>1. Models!Over(r) /\ UNCHANGED <<x1, x2, x3, x5, x7, x9, x10, x11, x12, x16>>
  BY DEF Models!CatalogAnswered, Models!HostRuns, Models!lists, Models!records, Models!coming, Models!hostVars
<1>2. QED BY <1>1, OverRest

LEMMA FrameKeeps ==
  ASSUME ModelsInv, Models!FollowFrame
  PROVE  ModelsInv'
<1>1. /\ follow # <<>> /\ follow' = Tail(follow)
      /\ record' = Models!Followed(Head(follow))
      /\ UNCHANGED <<x1, x2, x5, x6, x9, x10, x11, x12, x16>>
  BY DEF Models!FollowFrame, Models!lists, Models!hostVars, follow, record
<1>2. UNCHANGED ever
  BY <1>1 DEF ever
<1>3. /\ FramesTyped' /\ FramesHad'
      /\ Head(follow) \in Frames /\ WasHad(Head(follow).session, Head(follow).model)
  BY <1>1, <1>2, FrameTaken DEF ModelsInv
<1>4. PICK s \in Session, m \in Chosen : s = Head(follow).session /\ m = Head(follow).model
  BY <1>3 DEF Frames
<1>5. record' = Models!Recorded(s, m) /\ WasHad(s, m)
  BY <1>1, <1>3, <1>4 DEF Models!Followed
<1>6. record' \in [Session -> Chosen] /\ Models!RecordWasReal'
  BY <1>2, <1>5, RecordKeeps DEF ModelsInv
<1>7. QED BY <1>1, <1>3, <1>6, PresetsKept DEF ModelsInv, ListsTyped, HostHad, AskedTyped, AskedFine, Fine, WasHad,
             prompts, selected, ever

LEMMA AddedKeeps ==
  ASSUME ModelsInv, NEW e \in x16, Models!SessionAdded(e)
  PROVE  ModelsInv'
<1>1. /\ x16' \subseteq x16 /\ x5' \in {[x5 EXCEPT ![e.session] = e.preset], x5}
      /\ UNCHANGED <<x1, x2, x3, x6, x7, x9, x10, x11, x12>>
  BY DEF Models!SessionAdded, Models!lists, Models!hostVars
<1>2. e.preset \in Preset \cup {Unknown}
  BY DEF ModelsInv, PresetsTyped
<1>3. x5' \in [Session -> Preset \cup {Unknown}] /\ PresetsTyped'
  BY <1>1, <1>2 DEF ModelsInv, ListsTyped, PresetsTyped
<1>4. QED BY <1>1, <1>3 DEF ModelsInv, ListsTyped, HostHad, AskedTyped, AskedFine, Fine, WasHad, FramesTyped,
             FramesHad, Models!RecordWasReal, record, prompts, selected, follow, ever

LEMMA ModelsInit ==
  ASSUME Models!Init PROVE ModelsInv
<1>1. ListsTyped /\ HostHad
  BY DEF Models!Init, ListsTyped, HostHad, Models!Lists, Chosen, record, selected, ever
<1>2. AskedTyped /\ AskedFine
  <2>1. Models!Idle \in Requests /\ Fine(Models!Idle)
    BY IdleRequest DEF Fine
  <2>2. prompts = [r \in Request |-> Models!Idle]
    BY DEF Models!Init, prompts
  <2>3. QED BY <2>1, <2>2 DEF AskedTyped, AskedFine
<1>3. FramesTyped /\ FramesHad
  BY DEF Models!Init, FramesTyped, FramesHad, follow
<1>4. Models!RecordWasReal
  BY DEF Models!Init, Models!RecordWasReal
<1>5. PresetsTyped
  BY DEF Models!Init, PresetsTyped
<1>6. QED BY <1>1, <1>2, <1>3, <1>4, <1>5 DEF ModelsInv

LEMMA ModelsStep ==
  ASSUME ModelsInv, [Models!Next]_ModelsVars
  PROVE  ModelsInv'
<1>1. CASE UNCHANGED ModelsVars
  BY <1>1, PresetsKept DEF ModelsVars, ModelsInv, ListsTyped, HostHad, AskedTyped, AskedFine, Fine, WasHad, FramesTyped,
     FramesHad, Models!RecordWasReal, record, prompts, selected, follow, ever
<1>2. CASE Models!Next
  <2>1. ASSUME NEW r \in Request, NEW main \in BOOLEAN, NEW kind \in Models!Kinds, NEW s \in Session,
               NEW m \in Model \cup {Unknown}, NEW p \in Preset \cup {Unknown},
               Models!Arrives(r, main, kind, s, m, p)
        PROVE  ModelsInv'
    BY <2>1, ArrivesKeeps
  <2>2. ASSUME NEW r \in Request,
               \/ Models!BodyRead(r) \/ Models!Confirmed(r) \/ Models!ConfirmationFails(r)
               \/ Models!HostSelects(r) \/ Models!HostCreates(r) \/ Models!HostTakesPreset(r)
               \/ Models!HostTellsCatalog(r) \/ Models!HostRuns(r) \/ Models!ModelAnswered(r)
               \/ Models!CreateAnswered(r) \/ Models!CreateSettled(r) \/ Models!PresetAnswered(r)
               \/ Models!CatalogAnswered(r) \/ Models!HostLists(r) \/ Models!ListAnswered(r)
        PROVE  ModelsInv'
    BY <2>2, BodyKeeps, ConfirmedKeeps, HostSelectsKeeps, HostCreatesKeeps, HostAnswersKeep, OverAnswersKeep,
       ModelAnsweredKeeps, CreateAnsweredKeeps, SettledKeeps
  <2>3. CASE Models!FollowFrame
    BY <2>3, FrameKeeps
  <2>4. CASE \/ \E s \in Session : Models!Snapshot(s)
             \/ \E m \in Model : Models!DefaultChanges(m)
             \/ \E m \in Models!Lists(Model), p \in Models!Lists(Preset) : Models!SaveLists(m, p)
    BY <2>4, WorldKeeps
  <2>5. ASSUME NEW e \in x16, Models!SessionAdded(e)
        PROVE  ModelsInv'
    BY <2>5, AddedKeeps
  <2>6. QED BY <1>2, <2>1, <2>2, <2>3, <2>4, <2>5 DEF Models!Next
<1>3. QED BY <1>1, <1>2

(* A request leaves "confirming" for "sent" by Confirmed alone.            *)
LEMMA SentByConfirmed ==
  ASSUME AskedTyped, [Models!Next]_ModelsVars, NEW r \in Request,
         prompts[r].phase = "confirming", prompts'[r].phase = "sent"
  PROVE  Models!StillAllowed(prompts[r])
<1> USE DEF prompts
<1>1. ASSUME UNCHANGED x6 PROVE FALSE
  BY <1>1
<1>2. ~UNCHANGED ModelsVars /\ Models!Next
  BY <1>1 DEF ModelsVars
<1>3. ~Models!FollowFrame /\ ~(\E s \in Session : Models!Snapshot(s)) /\ ~(\E m \in Model : Models!DefaultChanges(m))
      /\ ~(\E m \in Models!Lists(Model), p \in Models!Lists(Preset) : Models!SaveLists(m, p))
      /\ ~(\E e \in x16 : Models!SessionAdded(e))
  BY <1>1 DEF Models!FollowFrame, Models!Snapshot, Models!DefaultChanges, Models!SaveLists, Models!SessionAdded
<1> DEFINE Asks(z) == /\ prompts[z].phase = "idle"
                      /\ \E main \in BOOLEAN, kind \in Models!Kinds, s \in Session, m \in Model \cup {Unknown},
                            p \in Preset \cup {Unknown} : Models!Arrives(z, main, kind, s, m, p)
           Others(z) == \/ Models!BodyRead(z) \/ Models!HostSelects(z) \/ Models!HostCreates(z)
                        \/ Models!HostTakesPreset(z) \/ Models!HostTellsCatalog(z) \/ Models!HostRuns(z)
                        \/ Models!ModelAnswered(z) \/ Models!CreateAnswered(z) \/ Models!CreateSettled(z)
                        \/ Models!PresetAnswered(z) \/ Models!CatalogAnswered(z)
                        \/ Models!HostLists(z) \/ Models!ListAnswered(z)
           Confirms(z) == Models!Confirmed(z) \/ Models!ConfirmationFails(z)
<1>4. PICK z \in Request : Asks(z) \/ Others(z) \/ Confirms(z)
  BY <1>2, <1>3 DEF Models!Next
<1>5. Asks(z) \/ Others(z) => prompts[z].phase # "confirming"
  BY DEF Models!BodyRead, Models!HostSelects, Models!HostCreates, Models!HostTakesPreset,
     Models!HostTellsCatalog, Models!HostRuns, Models!ModelAnswered, Models!CreateAnswered,
     Models!CreateSettled, Models!PresetAnswered, Models!CatalogAnswered, Models!HostLists, Models!ListAnswered
<1>6. \E q : prompts' = [prompts EXCEPT ![z] = q]
  <2>1. CASE Asks(z)
    BY <2>1 DEF Models!Arrives
  <2>2. CASE Models!BodyRead(z)
    BY <2>2 DEF Models!BodyRead, Models!Over, AskedTyped
  <2>3. CASE \/ Models!HostSelects(z) \/ Models!HostCreates(z) \/ Models!HostTakesPreset(z)
             \/ Models!HostTellsCatalog(z) \/ Models!HostLists(z)
    <3>1. CASE Models!HostSelects(z) \/ Models!HostTakesPreset(z)
      <4>1. prompts' \in {[prompts EXCEPT ![z].phase = "answered", ![z].ok = TRUE],
                          [prompts EXCEPT ![z].phase = "answered"]}
        BY <3>1 DEF Models!HostSelects, Models!HostTakesPreset
      <4>2. QED BY <4>1 DEF AskedTyped
    <3>2. CASE Models!HostCreates(z)
      <4>1. PICK s \in (IF prompts[z].kind = "create" THEN {prompts[z].session} ELSE Session \ x8),
                 p \in (IF prompts[z].preset = Unknown THEN Preset ELSE {prompts[z].preset}) :
              prompts' = [prompts EXCEPT ![z].phase = "answered", ![z].ok = TRUE, ![z].session = s, ![z].preset = p]
        BY <3>2 DEF Models!HostCreates
      <4>2. QED BY <4>1 DEF AskedTyped
    <3>3. CASE Models!HostTellsCatalog(z)
      <4>1. prompts' = [prompts EXCEPT ![z].phase = "answered", ![z].ok = TRUE, ![z].model = x10]
        BY <3>3 DEF Models!HostTellsCatalog
      <4>2. QED BY <4>1 DEF AskedTyped
    <3>4. CASE Models!HostLists(z)
      <4>1. prompts' = [prompts EXCEPT ![z].phase = "answered", ![z].ok = TRUE,
                                       ![z].preset = x11[prompts[z].session]]
        BY <3>4 DEF Models!HostLists
      <4>2. QED BY <4>1 DEF AskedTyped
    <3>5. QED BY <2>3, <3>1, <3>2, <3>3, <3>4
  <2>4. CASE Models!HostRuns(z) \/ Models!ModelAnswered(z) \/ Models!CreateSettled(z) \/ Models!PresetAnswered(z)
             \/ Models!CatalogAnswered(z) \/ Models!CreateAnswered(z) \/ Models!ListAnswered(z) \/ Confirms(z)
    BY <2>4 DEF Models!HostRuns, Models!ModelAnswered, Models!CreateSettled, Models!PresetAnswered,
       Models!CatalogAnswered, Models!ListAnswered, Models!CreateAnswered, Models!Confirmed, Models!ConfirmationFails,
       Models!Over, Models!Goto
  <2>5. QED BY <1>4, <2>1, <2>2, <2>3, <2>4
<1>7. z = r
  BY <1>6 DEF AskedTyped
<1>8. Confirms(r)
  BY <1>4, <1>5, <1>7
<1> HIDE DEF Asks, Others
<1>9. ~Models!Over(r)
  <2>1. Models!Idle.phase = "idle" /\ [Models!Idle EXCEPT !.phase = "over"].phase = "over"
    BY IdleRequest DEF Phases
  <2>2. QED BY <2>1 DEF Models!Over, AskedTyped
<1>10. QED BY <1>8, <1>9 DEF Models!Confirmed, Models!ConfirmationFails

(* A prompt that was under lists is passed on under those of that moment,  *)
(* whatever is saved, selected and told while its sandbox mode is          *)
(* confirmed; and no answer, failure or frame, in whatever order, makes    *)
(* the record a model that the session did not have (proxy.ts:3218,        *)
(* gateway.ts:1963).                                                       *)
THEOREM PromptsJudgedToday == Spec => PromptsUnderTodaysLists
<1> DEFINE Inv == part = "models" => ModelsInv
<1>1. Init => Inv
  BY ModelsInit DEF Init
<1>2. part = "models" /\ [Next]_vars => [Models!Next]_ModelsVars
  BY DEF Next, vars, ModelsVars, ModelsSteps, InventorySteps, EndpointsSteps, LoginsSteps, QuotaSteps,
     WorkspacesSteps
<1>3. Inv /\ [Next]_vars => Inv'
  BY <1>2, PartStays, ModelsStep
<1>4. Inv /\ [Next]_vars =>
        [part = "models" => Models!SentUnderTodaysLists /\ Models!RecordWasReal']_vars
  <2>1. SUFFICES ASSUME ModelsInv, [Next]_vars, part = "models"
                 PROVE  Models!SentUnderTodaysLists /\ Models!RecordWasReal'
    OBVIOUS
  <2>2. [Models!Next]_ModelsVars
    BY <1>2, <2>1
  <2>3. Models!RecordWasReal'
    BY <2>1, <2>2, ModelsStep DEF ModelsInv
  <2>4. ASSUME NEW r \in Request, prompts[r].phase = "confirming", prompts'[r].phase = "sent"
        PROVE  /\ prompts[r].models # NoLimit => Models!Verdict(x1, Models!Effective(prompts[r].session))
               /\ prompts[r].presets # NoLimit => x2 = NoLimit \/ x5[prompts[r].session] \in x2
    <3>1. Models!StillAllowed(prompts[r])
      BY <2>1, <2>2, <2>4, SentByConfirmed DEF ModelsInv
    <3>2. prompts[r].kind = "prompt"
      BY <2>1, <2>4 DEF ModelsInv, AskedFine, Fine
    <3>3. QED BY <3>1, <3>2 DEF Models!StillAllowed, Models!ModelGate, Models!PresetGate, Models!Verdict
  <2>5. QED BY <2>3, <2>4 DEF Models!SentUnderTodaysLists, prompts
<1> HIDE DEF Inv
<1>5. QED BY <1>1, <1>3, <1>4, PTL DEF Spec, PromptsUnderTodaysLists

------------------------------------------------------------------------------
(* WorkspaceCleanup.                                                       *)

owner == x3
allowed == x4  \* allowed_folders
held == x6     \* user_session_grants
intents == x7
kept == x8
job == x14

WorkspacesVars == <<x1, x2, x3, x4, x5, x6, x7, x8, x9, x10, x11, x12, x13, x14, x15>>

(* A retry knows the sessions that its intent names.                       *)
JobShaped == DOMAIN job = DOMAIN Workspaces!NoJob
RetryKnows == job.at # "idle" /\ job.gone /\ job.root \in intents => kept[job.root] \subseteq job.seen

WorkspacesInv == DOMAIN allowed = User /\ JobShaped /\ RetryKnows

(* What a step does to the owners: nobody is added but by a registration   *)
(* of a directory that nobody else owns, or by a rename.                   *)
OwnersStep ==
  \/ owner' \subseteq owner
  \/ \E u \in User : Workspaces!Renamed(u)
  \/ \E u \in User : \E p : ~Workspaces!Overlap(u, p) /\ owner' = owner \cup {<<u, p>>}

LEMMA OwnersChange ==
  ASSUME [Workspaces!Next]_WorkspacesVars PROVE OwnersStep
<1> USE DEF OwnersStep, owner
<1>1. CASE UNCHANGED WorkspacesVars
  BY <1>1 DEF WorkspacesVars
<1>2. ASSUME NEW u \in User, Workspaces!Created(u) PROVE OwnersStep
  <2>1. \/ owner' = owner
        \/ ~Workspaces!Overlap(u, x13[u].path) /\ owner' = owner \cup {<<u, x13[u].path>>}
    BY <1>2 DEF Workspaces!Created, Workspaces!StillMine
  <2>2. PICK p : p = x13[u].path
    OBVIOUS
  <2>3. QED BY <2>1, <2>2
<1>3. ASSUME NEW u \in User,
             Workspaces!Ask(u) \/ Workspaces!Host(u) \/ Workspaces!DirectoryMade(u)
             \/ Workspaces!Deleted(u) \/ Workspaces!Refused(u) \/ Workspaces!Save(u) \/ Workspaces!Grant(u)
      PROVE  owner' \subseteq owner
  BY <1>3 DEF Workspaces!Ask, Workspaces!Host, Workspaces!DirectoryMade, Workspaces!Deleted,
     Workspaces!Refused, Workspaces!Save, Workspaces!Grant, Workspaces!rows
<1>4. ASSUME \/ \E r \in Workspaces!Dir : Workspaces!Begin(r)
             \/ Workspaces!Remove \/ Workspaces!RemoveFails \/ Workspaces!Sync \/ Workspaces!Finish
             \/ Workspaces!MakeByHand \/ Workspaces!Kill
      PROVE  owner' \subseteq owner
  BY <1>4 DEF Workspaces!Begin, Workspaces!Remove, Workspaces!RemoveFails, Workspaces!Sync, Workspaces!Finish,
     Workspaces!MakeByHand, Workspaces!Kill, Workspaces!CleanRows, Workspaces!rows
<1>5. QED BY <1>1, <1>2, <1>3, <1>4 DEF Workspaces!Next

LEMMA AloneStays ==
  ASSUME OwnersStep PROVE Workspaces!StaysAlone
<1> USE DEF owner
<1>1. CASE owner' \subseteq owner
  BY <1>1 DEF Workspaces!StaysAlone, Workspaces!Shared, Workspaces!Of
<1>2. ASSUME NEW u \in User, NEW p, ~Workspaces!Overlap(u, p), owner' = owner \cup {<<u, p>>}
      PROVE  Workspaces!Shared' \subseteq Workspaces!Shared
  <2> USE DEF Workspaces!Of
  <2>1. SUFFICES ASSUME NEW q \in Workspaces!Dir, NEW v \in User, NEW w \in User, v # w,
                        <<v, q>> \in owner', <<w, q>> \in owner'
                 PROVE  <<v, q>> \in owner /\ <<w, q>> \in owner
    BY DEF Workspaces!Shared
  <2>2. CASE q # p
    BY <1>2, <2>1, <2>2
  <2>3. CASE q = p
    <3>1. q <= q
      BY DEF Workspaces!Dir
    <3>2. \A z \in User \ {u} : <<z, q>> \notin owner
      BY <1>2, <2>3, <3>1 DEF Workspaces!Overlap, Workspaces!Inside
    <3>3. QED BY <1>2, <2>1, <3>2
  <2>4. QED BY <2>2, <2>3
<1>3. QED BY <1>1, <1>2 DEF OwnersStep, Workspaces!StaysAlone

(* An allow-list becomes the empty one by the administrator's save alone.  *)
LEMMA WithoutStays ==
  ASSUME NEW list, NEW gone, list # {} PROVE Workspaces!Without(list, gone) # {}
  BY DEF Workspaces!Without

LEMMA RestrictedStays ==
  ASSUME DOMAIN allowed = User, [Workspaces!Next]_WorkspacesVars
  PROVE  DOMAIN allowed' = User /\ Workspaces!StaysRestricted
<1> DEFINE Keeps == DOMAIN allowed' = User /\ \A u \in User : allowed[u] # {} => allowed'[u] # {}
<1> USE DEF allowed
<1>1. CASE UNCHANGED allowed
  BY <1>1 DEF Workspaces!StaysRestricted
<1>2. CASE UNCHANGED WorkspacesVars
  BY <1>1, <1>2 DEF WorkspacesVars
<1>3. ASSUME Keeps PROVE DOMAIN allowed' = User /\ Workspaces!StaysRestricted
  BY <1>3 DEF Workspaces!StaysRestricted
<1>4. ASSUME NEW u \in User, Workspaces!Created(u) PROVE Keeps
  BY <1>4 DEF Workspaces!Created, Workspaces!AddFolder
<1>5. ASSUME NEW u \in User, Workspaces!Deleted(u) PROVE Keeps
  <2>1. \E gone : allowed' = [allowed EXCEPT ![u] = Workspaces!Without(@, gone)] \/ UNCHANGED allowed
    BY <1>5 DEF Workspaces!Deleted
  <2>2. QED BY <2>1, WithoutStays
<1>6. ASSUME NEW u \in User, Workspaces!Save(u)
      PROVE  DOMAIN allowed' = User /\ Workspaces!StaysRestricted
  <2>1. PICK list : allowed' = [allowed EXCEPT ![u] = list]
    BY <1>6 DEF Workspaces!Save
  <2>2. QED BY <1>6, <2>1 DEF Workspaces!StaysRestricted
<1>7. ASSUME NEW u \in User,
             Workspaces!Ask(u) \/ Workspaces!Host(u) \/ Workspaces!DirectoryMade(u)
             \/ Workspaces!Renamed(u) \/ Workspaces!Refused(u) \/ Workspaces!Grant(u)
      PROVE  UNCHANGED allowed
  BY <1>7 DEF Workspaces!Ask, Workspaces!Host, Workspaces!DirectoryMade, Workspaces!Renamed,
     Workspaces!Refused, Workspaces!Grant, Workspaces!rows
<1>8. ASSUME \/ \E r \in Workspaces!Dir : Workspaces!Begin(r)
             \/ Workspaces!Remove \/ Workspaces!RemoveFails \/ Workspaces!Sync
             \/ Workspaces!MakeByHand \/ Workspaces!Kill
      PROVE  UNCHANGED allowed
  BY <1>8 DEF Workspaces!Begin, Workspaces!Remove, Workspaces!RemoveFails, Workspaces!Sync,
     Workspaces!MakeByHand, Workspaces!Kill, Workspaces!rows
<1>9. ASSUME Workspaces!Finish PROVE Keeps
  <2>1. UNCHANGED allowed
        \/ \E gone : allowed' = [u \in User |-> Workspaces!Without(allowed[u], gone)]
    BY <1>9 DEF Workspaces!Finish, Workspaces!CleanRows, Workspaces!rows
  <2>2. QED BY <2>1, WithoutStays
<1> HIDE DEF Keeps
<1>10. QED BY <1>1, <1>2, <1>3, <1>4, <1>5, <1>6, <1>7, <1>8, <1>9 DEF Workspaces!Next

(* The intents change only as the deletion in progress ends, and it begins *)
(* with what its intent names.                                             *)
JobKeeps == UNCHANGED <<intents, kept, job>>
JobBegins ==
  /\ UNCHANGED <<intents, kept>> /\ DOMAIN job' = DOMAIN Workspaces!NoJob
  /\ job'.at = "idle" \/ (job'.gone /\ job'.root \in intents => kept[job'.root] \subseteq job'.seen)
JobGoesOn ==
  /\ UNCHANGED <<intents, kept>> /\ DOMAIN job' = DOMAIN Workspaces!NoJob /\ job.at # "idle"
  /\ job'.root = job.root /\ job'.seen = job.seen /\ (job'.gone <=> job.gone)
JobEnds ==
  /\ job' = Workspaces!NoJob /\ job.at = "finish"
  /\ \/ intents \subseteq intents'
     \/ intents' = intents \ {job.root} /\ held' \cap (User \X Workspaces!Doomed) = {}

LEMMA JobStep ==
  ASSUME JobShaped, [Workspaces!Next]_WorkspacesVars
  PROVE  JobKeeps \/ JobBegins \/ JobGoesOn \/ JobEnds
<1> USE DEF job, intents, kept, held
<1>1. CASE UNCHANGED WorkspacesVars
  BY <1>1 DEF JobKeeps, WorkspacesVars
<1>2. ASSUME NEW u \in User,
             Workspaces!Ask(u) \/ Workspaces!Host(u) \/ Workspaces!DirectoryMade(u) \/ Workspaces!Created(u)
             \/ Workspaces!Deleted(u) \/ Workspaces!Renamed(u) \/ Workspaces!Refused(u) \/ Workspaces!Save(u)
             \/ Workspaces!Grant(u)
      PROVE  JobKeeps
  BY <1>2 DEF JobKeeps, Workspaces!Ask, Workspaces!Host, Workspaces!DirectoryMade, Workspaces!Created,
     Workspaces!Deleted, Workspaces!Renamed, Workspaces!Refused, Workspaces!Save, Workspaces!Grant,
     Workspaces!intention
<1>3. CASE Workspaces!MakeByHand
  BY <1>3 DEF JobKeeps, Workspaces!MakeByHand, Workspaces!intention
<1>4. CASE Workspaces!Kill \/ Workspaces!RemoveFails
  <2>1. job' = Workspaces!NoJob /\ UNCHANGED <<intents, kept>>
    BY <1>4 DEF Workspaces!Kill, Workspaces!RemoveFails, Workspaces!intention
  <2>2. Workspaces!NoJob.at = "idle"
    BY DEF Workspaces!NoJob
  <2>3. QED BY <2>1, <2>2 DEF JobBegins
<1>5. ASSUME NEW r \in Workspaces!Dir, Workspaces!Begin(r) PROVE JobBegins
  <2> DEFINE known == IF r \in x1 THEN {} ELSE Workspaces!Seen(r)
  <2>1. /\ UNCHANGED <<intents, kept>>
        /\ job' = [Workspaces!NoJob EXCEPT !.at = "snapshot", !.root = r, !.gone = r \notin x1, !.seen = known]
    BY <1>5, Zenon DEF Workspaces!Begin, Workspaces!intention
  <2>2. job'.root = r /\ job'.seen = known /\ job'.gone = (r \notin x1) /\ DOMAIN job' = DOMAIN Workspaces!NoJob
    BY <2>1, Zenon DEF Workspaces!NoJob
  <2> HIDE DEF known
  <2>3. r \notin x1 /\ r \in intents => known = kept[r]
    BY DEF known, Workspaces!Seen
  <2>4. job'.gone /\ job'.root \in intents => kept[job'.root] \subseteq job'.seen
    BY <2>2, <2>3
  <2>5. QED BY <2>1, <2>2, <2>4 DEF JobBegins
<1>6. CASE Workspaces!Remove \/ Workspaces!Sync
  <2>1. UNCHANGED <<intents, kept>> /\ job.at # "idle"
    BY <1>6 DEF Workspaces!Remove, Workspaces!Sync, Workspaces!intention
  <2>2. \E a, b, c : job' \in {[job EXCEPT !.at = "sync", !.known = TRUE, !.affected = a], [job EXCEPT !.at = "sync"],
                               [job EXCEPT !.at = "finish"], [job EXCEPT !.at = "finish", !.failed = b]}
    <3>1. CASE Workspaces!Remove
      BY <3>1 DEF Workspaces!Remove, Workspaces!ReadRegistry
    <3>2. CASE Workspaces!Sync
      BY <3>2 DEF Workspaces!Sync
    <3>3. QED BY <1>6, <3>1, <3>2
  <2>3. {"at", "root", "gone", "seen", "known", "affected", "failed"} = DOMAIN job
    BY DEF JobShaped, Workspaces!NoJob
  <2>4. DOMAIN job' = DOMAIN job /\ job'.root = job.root /\ job'.seen = job.seen /\ job'.gone = job.gone
    BY <2>2, <2>3
  <2>5. QED BY <2>1, <2>4 DEF JobGoesOn, JobShaped
<1>7. CASE Workspaces!Finish
  <2>1. job' = Workspaces!NoJob /\ job.at = "finish"
    BY <1>7 DEF Workspaces!Finish
  <2>2. intents \subseteq intents' \/ (Workspaces!Clear /\ Workspaces!CleanRows)
    BY <1>7 DEF Workspaces!Finish, Workspaces!Record, Workspaces!intention
  <2>3. Workspaces!Clear /\ Workspaces!CleanRows
          => intents' = intents \ {job.root} /\ held' \cap (User \X Workspaces!Doomed) = {}
    BY DEF Workspaces!Clear, Workspaces!CleanRows
  <2>4. QED BY <2>1, <2>2, <2>3 DEF JobEnds
<1>8. QED BY <1>1, <1>2, <1>3, <1>4, <1>5, <1>6, <1>7 DEF Workspaces!Next

LEMMA WorkspacesStep ==
  ASSUME WorkspacesInv, [Workspaces!Next]_WorkspacesVars
  PROVE  WorkspacesInv' /\ Workspaces!RetryFinishes
<1>1. DOMAIN allowed' = User
  BY RestrictedStays DEF WorkspacesInv
<1>2. CASE JobKeeps
  BY <1>1, <1>2 DEF WorkspacesInv, JobKeeps, JobShaped, RetryKnows, Workspaces!RetryFinishes, intents, kept, job
<1>3. CASE JobBegins
  BY <1>1, <1>3 DEF WorkspacesInv, JobBegins, JobShaped, RetryKnows, Workspaces!RetryFinishes, intents, kept, job
<1>4. CASE JobGoesOn
  BY <1>1, <1>4 DEF WorkspacesInv, JobGoesOn, JobShaped, RetryKnows, Workspaces!RetryFinishes, intents, kept, job
<1>5. CASE JobEnds
  <2>1. Workspaces!NoJob.at = "idle"
    BY DEF Workspaces!NoJob
  <2>2. WorkspacesInv'
    BY <1>1, <1>5, <2>1 DEF WorkspacesInv, JobEnds, JobShaped, RetryKnows
  <2>3. Workspaces!RetryFinishes
    <3>1. ASSUME job.gone, NEW r \in intents \ intents' PROVE held' \cap (User \X kept[r]) = {}
      <4>1. r = job.root /\ held' \cap (User \X Workspaces!Doomed) = {}
        BY <1>5, <3>1 DEF JobEnds
      <4>2. kept[r] \subseteq job.seen
        BY <1>5, <3>1, <4>1 DEF JobEnds, WorkspacesInv, RetryKnows
      <4>3. kept[r] \subseteq Workspaces!Doomed
        BY <4>2 DEF Workspaces!Doomed, job
      <4>4. QED BY <4>1, <4>3
    <3>2. QED BY <3>1 DEF Workspaces!RetryFinishes, job, intents, kept, held
  <2>4. QED BY <2>2, <2>3
<1>6. QED BY <1>2, <1>3, <1>4, <1>5, JobStep DEF WorkspacesInv

LEMMA WorkspacesInit ==
  ASSUME Workspaces!Init PROVE WorkspacesInv
<1>1. job = Workspaces!NoJob /\ Workspaces!NoJob.at = "idle" /\ DOMAIN allowed = User
  BY DEF Workspaces!Init, Workspaces!NoJob, job, allowed
<1>2. QED BY <1>1 DEF WorkspacesInv, JobShaped, RetryKnows

(* However late the answer, a registration makes no directory the private  *)
(* one of a second sub-user; the administrator's save alone lifts a        *)
(* restriction; and a retry gives its intent up only when the grants of    *)
(* the sessions it names are gone (gateway.ts:2061, db.ts:1906, 2019).     *)
THEOREM WorkspacesKeep == Spec => WorkspacesHold
<1> DEFINE Inv == part = "workspaces" => WorkspacesInv
<1>1. Init => Inv
  BY WorkspacesInit DEF Init
<1>2. part = "workspaces" /\ [Next]_vars => [Workspaces!Next]_WorkspacesVars
  BY DEF Next, vars, WorkspacesVars, ModelsSteps, InventorySteps, EndpointsSteps, LoginsSteps, QuotaSteps,
     WorkspacesSteps
<1>3. Inv /\ [Next]_vars => Inv'
  BY <1>2, PartStays, WorkspacesStep
<1>4. Inv /\ [Next]_vars =>
        [part = "workspaces" =>
           Workspaces!StaysAlone /\ Workspaces!StaysRestricted /\ Workspaces!RetryFinishes]_vars
  <2>1. SUFFICES ASSUME WorkspacesInv, [Next]_vars, part = "workspaces"
                 PROVE  Workspaces!StaysAlone /\ Workspaces!StaysRestricted /\ Workspaces!RetryFinishes
    OBVIOUS
  <2>2. [Workspaces!Next]_WorkspacesVars
    BY <1>2, <2>1
  <2>3. Workspaces!StaysAlone
    BY <2>2, OwnersChange, AloneStays
  <2>4. Workspaces!StaysRestricted
    BY <2>1, <2>2, RestrictedStays DEF WorkspacesInv
  <2>5. Workspaces!RetryFinishes
    BY <2>1, <2>2, WorkspacesStep
  <2>6. QED BY <2>3, <2>4, <2>5
<1> HIDE DEF Inv
<1>5. QED BY <1>1, <1>3, <1>4, PTL DEF Spec, WorkspacesHold

------------------------------------------------------------------------------
(* LoginThrottle: what Within computes, for every list of times.           *)

(* The list that is left of the first k times, for every k.                *)
Keeping(times, at, f) ==
  f = [k \in 0 .. Len(times) |-> IF k = 0 THEN <<>> ELSE Logins!Kept(f[k - 1], times[k], at)]

LEMMA KeptTyped ==
  ASSUME NEW list \in Seq(Nat), NEW t \in Nat, NEW at \in Nat
  PROVE  Logins!Kept(list, t, at) \in Seq(Nat)
  BY DEF Logins!Kept

LEMMA KeepingExists ==
  ASSUME NEW times \in Seq(Nat), NEW at \in Nat
  PROVE  \E f \in [0 .. Len(times) -> Seq(Nat)] : Keeping(times, at, f)
<1> DEFINE Solves(f, n) == f = [k \in 0 .. n |-> IF k = 0 THEN <<>> ELSE Logins!Kept(f[k - 1], times[k], at)]
           S == {n \in Nat : n <= Len(times) => \E f \in [0 .. n -> Seq(Nat)] : Solves(f, n)}
<1> HIDE DEF Solves
<1>1. 0 \in S
  <2>1. Solves([k \in 0 .. 0 |-> <<>>], 0)
    BY DEF Solves
  <2>2. [k \in 0 .. 0 |-> <<>>] \in [0 .. 0 -> Seq(Nat)]
    OBVIOUS
  <2>3. QED BY <2>1, <2>2
<1>2. ASSUME NEW n \in S PROVE n + 1 \in S
  <2>1. SUFFICES ASSUME n + 1 <= Len(times)
                 PROVE  \E f \in [0 .. n + 1 -> Seq(Nat)] : Solves(f, n + 1)
    OBVIOUS
  <2>2. PICK f \in [0 .. n -> Seq(Nat)] : Solves(f, n)
    BY <2>1
  <2> DEFINE next == Logins!Kept(f[n], times[n + 1], at)
             g == [k \in 0 .. n + 1 |-> IF k <= n THEN f[k] ELSE next]
  <2>3. next \in Seq(Nat)
    <3>1. f[n] \in Seq(Nat) /\ times[n + 1] \in Nat
      BY <2>1
    <3>2. QED BY <3>1, KeptTyped
  <2> HIDE DEF next
  <2>4. g \in [0 .. n + 1 -> Seq(Nat)]
    BY <2>3
  <2>5. ASSUME NEW k \in 0 .. n + 1
        PROVE  g[k] = IF k = 0 THEN <<>> ELSE Logins!Kept(g[k - 1], times[k], at)
    <3>1. CASE k = n + 1
      BY <3>1 DEF next
    <3>2. CASE k # n + 1
      <4>1. k \in 0 .. n /\ g[k] = f[k]
        BY <3>2
      <4>2. f[k] = IF k = 0 THEN <<>> ELSE Logins!Kept(f[k - 1], times[k], at)
        BY <2>2, <4>1 DEF Solves
      <4>3. k # 0 => g[k - 1] = f[k - 1]
        BY <4>1
      <4>4. QED BY <4>1, <4>2, <4>3
    <3>3. QED BY <3>1, <3>2
  <2>6. Solves(g, n + 1)
    BY <2>5 DEF Solves
  <2>7. QED BY <2>4, <2>6
<1>3. S = Nat
  <2> HIDE DEF S
  <2>1. S \subseteq Nat BY DEF S
  <2>2. QED BY <1>1, <1>2, <2>1, NatSetInduction
<1>4. Len(times) \in S
  BY <1>3
<1>5. QED BY <1>4 DEF Solves, Keeping

(* Two solutions are the same one.                                         *)
LEMMA KeepingOnce ==
  ASSUME NEW times \in Seq(Nat), NEW at \in Nat, NEW f, NEW g,
         Keeping(times, at, f), Keeping(times, at, g)
  PROVE  f = g
<1> DEFINE S == {n \in Nat : n <= Len(times) => f[n] = g[n]}
<1>1. /\ f[0] = <<>> /\ g[0] = <<>>
      /\ \A k \in 1 .. Len(times) : f[k] = Logins!Kept(f[k - 1], times[k], at) /\ g[k] = Logins!Kept(g[k - 1], times[k], at)
  <2>1. f[0] = <<>> /\ g[0] = <<>>
    BY DEF Keeping
  <2>2. ASSUME NEW k \in 1 .. Len(times) PROVE f[k] = Logins!Kept(f[k - 1], times[k], at) /\ g[k] = Logins!Kept(g[k - 1], times[k], at)
    <3>1. k \in 0 .. Len(times) /\ k # 0
      OBVIOUS
    <3>2. QED BY <3>1 DEF Keeping
  <2>3. QED BY <2>1, <2>2
<1>2. S = Nat
  <2>1. 0 \in S
    BY <1>1
  <2>2. ASSUME NEW n \in S PROVE n + 1 \in S
    <3>1. SUFFICES ASSUME n + 1 <= Len(times) PROVE f[n + 1] = g[n + 1]
      OBVIOUS
    <3>2. f[n] = g[n] /\ n + 1 \in 1 .. Len(times) /\ (n + 1) - 1 = n
      BY <3>1
    <3>3. QED BY <1>1, <3>2
  <2>3. S \subseteq Nat
    OBVIOUS
  <2> HIDE DEF S
  <2>4. QED BY <2>1, <2>2, <2>3, NatSetInduction
<1>3. \A k \in 0 .. Len(times) : f[k] = g[k]
  BY <1>2
<1>4. f = [k \in 0 .. Len(times) |-> f[k]] /\ g = [k \in 0 .. Len(times) |-> g[k]]
  BY DEF Keeping
<1>5. QED BY <1>3, <1>4

(* Within is the last of any solution.                                     *)
LEMMA WithinIs ==
  ASSUME NEW times \in Seq(Nat), NEW at \in Nat, NEW f, Keeping(times, at, f)
  PROVE  Logins!Within(times, at) = f[Len(times)]
<1> DEFINE g == CHOOSE h : Keeping(times, at, h)
<1>1. Logins!Within(times, at) = g[Len(times)]
  BY DEF Logins!Within, Keeping
<1>2. Keeping(times, at, g)
  OBVIOUS
<1> HIDE DEF g
<1>3. g = f
  BY <1>2, KeepingOnce
<1>4. QED BY <1>1, <1>3

(* The steps of a solution, each a list of times.                          *)
LEMMA KeepingSteps ==
  ASSUME NEW times \in Seq(Nat), NEW at \in Nat
  PROVE  \E f \in [0 .. Len(times) -> Seq(Nat)] :
           /\ Keeping(times, at, f) /\ Logins!Within(times, at) = f[Len(times)]
           /\ f[0] = <<>>
           /\ \A k \in 1 .. Len(times) : f[k] = Logins!Kept(f[k - 1], times[k], at)
<1>1. PICK f \in [0 .. Len(times) -> Seq(Nat)] : Keeping(times, at, f)
  BY KeepingExists
<1>2. Logins!Within(times, at) = f[Len(times)]
  BY <1>1, WithinIs
<1>3. f[0] = <<>>
  BY <1>1 DEF Keeping
<1>4. ASSUME NEW k \in 1 .. Len(times) PROVE f[k] = Logins!Kept(f[k - 1], times[k], at)
  <2>1. k \in 0 .. Len(times) /\ k # 0
    OBVIOUS
  <2>2. QED BY <1>1, <2>1 DEF Keeping
<1>5. QED BY <1>1, <1>2, <1>3, <1>4

LEMMA WithinTyped ==
  ASSUME NEW times \in Seq(Nat), NEW at \in Nat
  PROVE  Logins!Within(times, at) \in Seq(Nat) /\ Len(Logins!Within(times, at)) <= Len(times)
<1>1. PICK f \in [0 .. Len(times) -> Seq(Nat)] :
        /\ Logins!Within(times, at) = f[Len(times)]
        /\ f[0] = <<>>
        /\ \A k \in 1 .. Len(times) : f[k] = Logins!Kept(f[k - 1], times[k], at)
  BY KeepingSteps
<1> DEFINE S == {n \in Nat : n <= Len(times) => Len(f[n]) <= n}
<1>2. 0 \in S
  BY <1>1
<1>3. ASSUME NEW n \in S PROVE n + 1 \in S
  <2>1. SUFFICES ASSUME n + 1 <= Len(times) PROVE Len(f[n + 1]) <= n + 1
    OBVIOUS
  <2>2. f[n] \in Seq(Nat) /\ Len(f[n]) <= n /\ n + 1 \in 1 .. Len(times) /\ (n + 1) - 1 = n
    BY <2>1
  <2>3. f[n + 1] = Logins!Kept(f[n], times[n + 1], at)
    BY <1>1, <2>2
  <2>4. Len(Logins!Kept(f[n], times[n + 1], at)) <= n + 1
    BY <2>2 DEF Logins!Kept
  <2>5. QED BY <2>3, <2>4
<1>4. S = Nat
  <2>1. S \subseteq Nat
    OBVIOUS
  <2> HIDE DEF S
  <2>2. QED BY <1>2, <1>3, <2>1, NatSetInduction
<1>5. QED BY <1>1, <1>4

LEMMA WithinAppend ==
  ASSUME NEW times \in Seq(Nat), NEW t \in Nat, NEW at \in Nat
  PROVE  Logins!Within(Append(times, t), at) = Logins!Kept(Logins!Within(times, at), t, at)
<1> DEFINE longer == Append(times, t)
<1>1. PICK f \in [0 .. Len(times) -> Seq(Nat)] :
        /\ Logins!Within(times, at) = f[Len(times)]
        /\ f[0] = <<>>
        /\ \A k \in 1 .. Len(times) : f[k] = Logins!Kept(f[k - 1], times[k], at)
  BY KeepingSteps
<1> DEFINE last == Logins!Kept(f[Len(times)], t, at)
           g == [k \in 0 .. Len(longer) |-> IF k <= Len(times) THEN f[k] ELSE last]
<1>2. /\ longer \in Seq(Nat) /\ Len(longer) = Len(times) + 1 /\ longer[Len(longer)] = t
      /\ \A k \in 1 .. Len(times) : longer[k] = times[k]
  OBVIOUS
<1> HIDE DEF longer, last
<1>3. ASSUME NEW k \in 0 .. Len(longer)
      PROVE  g[k] = IF k = 0 THEN <<>> ELSE Logins!Kept(g[k - 1], longer[k], at)
  <2>1. CASE k = 0
    BY <1>1, <2>1
  <2>2. CASE k \in 1 .. Len(times)
    BY <1>1, <1>2, <2>2
  <2>3. CASE k = Len(times) + 1
    <3>1. g[k] = last /\ g[k - 1] = f[Len(times)] /\ longer[k] = t /\ k # 0
      BY <1>2, <2>3
    <3>2. QED BY <3>1 DEF last
  <2>4. QED BY <1>2, <2>1, <2>2, <2>3
<1>4. Keeping(longer, at, g)
  BY <1>3 DEF Keeping
<1>5. PICK h : h = g
  OBVIOUS
<1>6. Logins!Within(longer, at) = h[Len(longer)]
  BY <1>2, <1>4, <1>5, WithinIs
<1>7. h[Len(longer)] = last
  BY <1>2, <1>5
<1>8. QED BY <1>1, <1>6, <1>7 DEF longer, last

(* What a later look leaves is what it leaves of an earlier one.           *)
LEMMA WithinLater ==
  ASSUME NEW times \in Seq(Nat), NEW at \in Nat, NEW later \in Nat, at <= later
  PROVE  Logins!Within(Logins!Within(times, at), later) = Logins!Within(times, later)
<1>1. PICK f \in [0 .. Len(times) -> Seq(Nat)] :
        /\ Logins!Within(times, at) = f[Len(times)]
        /\ f[0] = <<>>
        /\ \A k \in 1 .. Len(times) : f[k] = Logins!Kept(f[k - 1], times[k], at)
  BY KeepingSteps
<1>2. PICK h \in [0 .. Len(times) -> Seq(Nat)] :
        /\ Logins!Within(times, later) = h[Len(times)]
        /\ h[0] = <<>>
        /\ \A k \in 1 .. Len(times) : h[k] = Logins!Kept(h[k - 1], times[k], later)
  BY KeepingSteps
<1> DEFINE S == {n \in Nat : n <= Len(times) => Logins!Within(f[n], later) = h[n]}
<1>3. 0 \in S
  <2>1. <<>> \in Seq(Nat) /\ Len(<<>>) = 0
    OBVIOUS
  <2>2. PICK g \in [0 .. Len(<<>>) -> Seq(Nat)] : Logins!Within(<<>>, later) = g[Len(<<>>)] /\ g[0] = <<>>
    BY <2>1, KeepingSteps
  <2>3. Logins!Within(<<>>, later) = <<>>
    BY <2>1, <2>2
  <2>4. QED BY <1>1, <1>2, <2>3
<1>4. ASSUME NEW n \in S PROVE n + 1 \in S
  <2>1. SUFFICES ASSUME n + 1 <= Len(times) PROVE Logins!Within(f[n + 1], later) = h[n + 1]
    OBVIOUS
  <2>2. n + 1 \in 1 .. Len(times) /\ (n + 1) - 1 = n /\ Logins!Within(f[n], later) = h[n]
    BY <2>1
  <2>3. PICK t \in Nat, list \in Seq(Nat) : t = times[n + 1] /\ list = f[n]
    BY <2>1
  <2>4. f[n + 1] = Logins!Kept(list, t, at) /\ h[n + 1] = Logins!Kept(h[n], t, later)
    BY <1>1, <1>2, <2>2, <2>3
  <2>5. CASE at - t < Minute
    <3>1. f[n + 1] = Append(list, t)
      BY <2>4, <2>5 DEF Logins!Kept
    <3>2. Logins!Within(Append(list, t), later) = Logins!Kept(Logins!Within(list, later), t, later)
      BY WithinAppend
    <3>3. QED BY <2>2, <2>3, <2>4, <3>1, <3>2
  <2>6. CASE ~(at - t < Minute)
    <3>1. ~(later - t < Minute)
      BY <2>6, GuessesCost DEF Logins!ThrottleAssumption
    <3>2. f[n + 1] = list /\ h[n + 1] = h[n]
      BY <2>4, <2>6, <3>1 DEF Logins!Kept
    <3>3. QED BY <2>2, <2>3, <3>2
  <2>7. QED BY <2>5, <2>6
<1>5. S = Nat
  <2>1. S \subseteq Nat
    OBVIOUS
  <2> HIDE DEF S
  <2>2. QED BY <1>3, <1>4, <2>1, NatSetInduction
<1>6. QED BY <1>1, <1>2, <1>5

------------------------------------------------------------------------------
(* LoginThrottle: the invariant.  The clock is x1 as well.                 *)

attempts == x2
successes == x4
logins == x5   \* the requests
cookies == x6
freed == x7

LoginsVars == <<x1, x2, x3, x4, x5, x6, x7, x8>>

Pairs == Account \X Ip
AttemptRows == [n : Nat, until : Nat]
Attempts == [at : {"idle", "comparing"}, user : Account \cup {NoOne}, ip : Ip \cup {NoOne}]

CountsTyped == now \in Nat /\ attempts \in [Pairs -> AttemptRows] /\ freed \in [Pairs -> Nat]
LoginsTyped ==
  /\ logins \in [Attempt -> Attempts]
  /\ \A a \in Attempt : logins[a].at = "comparing" => <<logins[a].user, logins[a].ip>> \in Pairs

(* Both lists of a name agree about the minute, and it is not too full.    *)
MinuteHolds ==
  /\ successes \in [Account -> Seq(Nat)] /\ cookies \in [Account -> Seq(Nat)]
  /\ \A u \in Account :
       /\ Logins!Within(cookies[u], now) = Logins!Within(successes[u], now)
       /\ Len(Logins!Within(cookies[u], now)) <= SuccessMax

(* Requests that wait for the comparison count as failures to come.        *)
Compared(p) == {a \in Attempt : logins[a].at = "comparing" /\ <<logins[a].user, logins[a].ip>> = p}
Bound(k) == MaxFailed - 1 + k * Cardinality(Attempt)
Slowed ==
  \A p \in Pairs :
    /\ attempts[p].n + Cardinality(Compared(p)) <= Bound(freed[p] + 1)
    /\ attempts[p].until <= now => attempts[p].n <= Bound(freed[p])

LockedFromHere ==
  \A p \in Pairs : p[1] \in Admin /\ attempts[p].until > now => attempts[p].n >= MaxFailed

LoginsInv == CountsTyped /\ LoginsTyped /\ MinuteHolds /\ Slowed /\ LockedFromHere

(* What the configuration gives.                                           *)
LEMMA ThrottleFacts ==
  /\ IsFiniteSet(Attempt) /\ Admin \subseteq Account
  /\ MaxFailed \in Nat \ {0} /\ NameLock \in Nat \ {0}
  /\ Steps \in Seq(Nat \ {0}) /\ Steps # <<>>
  /\ SuccessMax \in Nat /\ Minute \in Nat
<1>1. Logins!IsFiniteSet(Attempt) => IsFiniteSet(Attempt)
  BY Zenon DEF Logins!IsFiniteSet, IsFiniteSet
<1>2. QED BY <1>1, GuessesCost DEF Logins!ThrottleAssumption

LEMMA MaxFailedIs == MaxFailed \in Nat \ {0}
  BY ThrottleFacts

LEMMA RoundPositive ==
  ASSUME NEW n \in Nat \ {0} PROVE Logins!Round(n) \in Nat \ {0}
<1>1. PICK q \in Nat : q = (n - 1) \div MaxFailed
  <2>1. (n - 1) \div MaxFailed \in Int /\ (n - 1) \div MaxFailed >= 0
    BY MaxFailedIs
  <2>2. QED BY <2>1
<1>2. q + 1 \in 1 .. q + 1 /\ Len(Steps) \in Nat \ {0}
  BY ThrottleFacts
<1>3. Logins!Least(q + 1, Len(Steps)) \in 1 .. Len(Steps)
  BY <1>2 DEF Logins!Least
<1>4. QED BY <1>1, <1>3, ThrottleFacts DEF Logins!Round

LEMMA BoundGrows ==
  ASSUME NEW k \in Nat
  PROVE  /\ Cardinality(Attempt) \in Nat
         /\ Bound(k) \in Int /\ Bound(k) >= MaxFailed - 1
         /\ Bound(k + 1) = Bound(k) + Cardinality(Attempt)
<1>1. Cardinality(Attempt) \in Nat /\ MaxFailed \in Nat
  BY ThrottleFacts, FS_CardinalityType
<1>2. \A c \in Nat : k * c \in Nat /\ (k + 1) * c = k * c + c
  OBVIOUS
<1>3. QED BY <1>1, <1>2 DEF Bound

LEMMA ComparedFinite ==
  ASSUME NEW p
  PROVE  /\ IsFiniteSet(Compared(p)) /\ Cardinality(Compared(p)) \in Nat
         /\ Cardinality(Compared(p)) <= Cardinality(Attempt)
<1>1. Compared(p) \subseteq Attempt
  BY DEF Compared
<1>2. QED BY <1>1, ThrottleFacts, FS_Subset, FS_CardinalityType

(* What a wrong password does to the rows.                                 *)
Later(old, new) == new.until = old.until \/ new.until > now
LEMMA PunishedRows ==
  ASSUME CountsTyped, NEW u \in Account, NEW i \in Ip, attempts' = Logins!Punished(u, i)
  PROVE  /\ attempts' \in [Pairs -> AttemptRows]
         /\ attempts'[<<u, i>>].n = attempts[<<u, i>>].n + 1
         /\ \A p \in Pairs \ {<<u, i>>} : attempts'[p].n = attempts[p].n
         /\ \A p \in Pairs : Later(attempts[p], attempts'[p])
         /\ attempts'[<<u, i>>].n >= MaxFailed => attempts'[<<u, i>>].until > now
         /\ \A p \in Pairs : p[1] \in Admin /\ attempts'[p].until # attempts[p].until => attempts'[p].n >= MaxFailed
<1>a. PICK here : here = <<u, i>>
  OBVIOUS
<1> DEFINE old == attempts[here]
           new == Logins!Counted(old)
           table == [attempts EXCEPT ![here] = new]
<1>1. here \in Pairs /\ old \in AttemptRows /\ now \in Nat /\ here[1] = u
  BY <1>a DEF CountsTyped, Pairs
<1>2. PICK n \in Nat \ {0} : n = old.n + 1
  BY <1>1 DEF AttemptRows
<1>3. /\ new \in AttemptRows /\ new.n = n
      /\ n >= MaxFailed => new.until > now
      /\ n < MaxFailed => new.until = old.until
  <2>1. Logins!Round(n) \in Nat \ {0}
    BY RoundPositive
  <2>2. new = [n |-> n, until |-> IF n >= MaxFailed THEN now + Logins!Round(n) ELSE old.until]
    BY <1>2 DEF Logins!Counted, now
  <2>3. QED BY <1>1, <2>1, <2>2, MaxFailedIs DEF AttemptRows
<1> HIDE DEF new, old
<1>4. /\ table \in [Pairs -> AttemptRows] /\ table[here] = new
      /\ \A p \in Pairs \ {here} : table[p] = attempts[p]
  BY <1>1, <1>3 DEF CountsTyped
<1>5. CASE n >= MaxFailed
  <2>1. attempts' = table
    BY <1>a, <1>3, <1>5 DEF Logins!Punished, new, old, attempts
  <2>2. QED BY <1>a, <1>1, <1>2, <1>3, <1>4, <1>5, <2>1 DEF Later, old
<1>6. CASE ~(n >= MaxFailed)
  <2> HIDE DEF table
  <2>1. attempts' = Logins!NameLocked(u, table)
    BY <1>a, <1>3, <1>6 DEF Logins!Punished, new, old, attempts, table
  <2>2. CASE attempts' = table
    BY <1>a, <1>1, <1>2, <1>3, <1>4, <1>6, <2>2, MaxFailedIs DEF Later, old
  <2>3. CASE /\ u \notin Admin
             /\ attempts' = [p \in Pairs |-> IF p[1] = u /\ table[p].n > 0
                                              THEN [table[p] EXCEPT !.until = now + NameLock] ELSE table[p]]
    <3>1. now + NameLock \in Nat /\ now + NameLock > now
      BY <1>1, ThrottleFacts
    <3>2. \A r \in AttemptRows : LET s == [r EXCEPT !.until = now + NameLock]
                                 IN s \in AttemptRows /\ s.n = r.n /\ s.until > now
      BY <3>1 DEF AttemptRows
    <3>3. \A p \in Pairs : /\ attempts'[p] \in AttemptRows /\ attempts'[p].n = table[p].n
                           /\ attempts'[p] = table[p] \/ (p[1] = u /\ attempts'[p].until > now)
      BY <1>4, <2>3, <3>2
    <3>4. attempts' \in [Pairs -> AttemptRows]
      BY <2>3, <3>3
    <3>5. /\ attempts'[here].n = old.n + 1 /\ ~(attempts'[here].n >= MaxFailed)
          /\ \A p \in Pairs \ {here} : attempts'[p].n = attempts[p].n
      BY <1>1, <1>2, <1>3, <1>4, <1>6, <3>3
    <3>6. \A p \in Pairs : Later(attempts[p], attempts'[p]) /\ (p[1] # u => attempts'[p].until = attempts[p].until)
      BY <1>1, <1>3, <1>4, <1>6, <3>3, MaxFailedIs DEF Later, old
    <3>7. QED BY <1>a, <2>3, <3>4, <3>5, <3>6 DEF old
  <2>4. QED BY <2>1, <2>2, <2>3 DEF Logins!NameLocked, Pairs, now
<1>7. QED BY <1>5, <1>6

(* A request begins to wait, or has been compared.                         *)
LEMMA Begins ==
  ASSUME LoginsTyped, NEW a \in Attempt, NEW u \in Account, NEW i \in Ip,
         logins' = [logins EXCEPT ![a] = [at |-> "comparing", user |-> u, ip |-> i]]
  PROVE  LoginsTyped' /\ \A p \in Pairs \ {<<u, i>>} : Compared(p)' \subseteq Compared(p)
<1> DEFINE new == [at |-> "comparing", user |-> u, ip |-> i]
<1>1. new \in Attempts /\ new.user = u /\ new.ip = i /\ new.at = "comparing"
  BY DEF Attempts
<1> HIDE DEF new
<1>2. /\ logins' \in [Attempt -> Attempts] /\ logins'[a] = new
      /\ \A z \in Attempt \ {a} : logins'[z] = logins[z]
  BY <1>1 DEF LoginsTyped, new
<1>3. LoginsTyped'
  BY <1>1, <1>2 DEF LoginsTyped, Pairs
<1>4. QED BY <1>1, <1>2, <1>3 DEF Compared

LEMMA Compares ==
  ASSUME LoginsTyped, NEW a \in Attempt, logins[a].at = "comparing", logins' = [logins EXCEPT ![a] = Logins!Free],
         NEW q, q = <<logins[a].user, logins[a].ip>>
  PROVE  /\ LoginsTyped'
         /\ Compared(q)' = Compared(q) \ {a} /\ a \in Compared(q)
         /\ \A p \in Pairs \ {q} : Compared(p)' = Compared(p)
<1>1. Logins!Free \in Attempts /\ Logins!Free.at = "idle"
  BY DEF Logins!Free, Attempts
<1>2. /\ logins' \in [Attempt -> Attempts] /\ logins'[a] = Logins!Free
      /\ \A z \in Attempt \ {a} : logins'[z] = logins[z]
  BY <1>1 DEF LoginsTyped
<1>3. LoginsTyped'
  BY <1>1, <1>2 DEF LoginsTyped
<1>4. QED BY <1>1, <1>2, <1>3 DEF Compared

(* What only touches the requests and the rows.                            *)
LEMMA MinuteStays ==
  ASSUME MinuteHolds, UNCHANGED <<x1, x4, x6>> PROVE MinuteHolds'
  BY DEF MinuteHolds, now, successes, cookies

LEMMA ArrivesSlowed ==
  ASSUME LoginsInv, NEW a \in Attempt, Logins!Arrives(a) PROVE LoginsInv'
<1>1. PICK u \in Account, i \in Ip :
        /\ ~Logins!Locked(u, i)
        /\ logins' = [logins EXCEPT ![a] = [at |-> "comparing", user |-> u, ip |-> i]]
  BY DEF Logins!Arrives, Logins!MayTry, logins
<1>2. UNCHANGED <<x1, x2, x4, x6, x7>>
  BY DEF Logins!Arrives
<1>3. LoginsTyped' /\ \A p \in Pairs \ {<<u, i>>} : Compared(p)' \subseteq Compared(p)
  BY <1>1, Begins DEF LoginsInv
<1>4. CountsTyped' /\ MinuteHolds' /\ LockedFromHere'
  BY <1>2, MinuteStays DEF LoginsInv, CountsTyped, LockedFromHere, now, attempts, freed
<1>5. ASSUME NEW p \in Pairs
      PROVE  attempts[p].n + Cardinality(Compared(p)') <= Bound(freed[p] + 1)
  <2>1. /\ attempts[p].n \in Nat /\ attempts[p].until \in Nat /\ freed[p] \in Nat /\ now \in Nat
        /\ attempts[p].n + Cardinality(Compared(p)) <= Bound(freed[p] + 1)
        /\ attempts[p].until <= now => attempts[p].n <= Bound(freed[p])
    BY DEF LoginsInv, CountsTyped, Slowed, AttemptRows
  <2>2. /\ Cardinality(Compared(p)') \in Nat /\ Cardinality(Compared(p)') <= Cardinality(Attempt)
        /\ Cardinality(Compared(p)) \in Nat /\ Bound(freed[p]) \in Int /\ Cardinality(Attempt) \in Nat
        /\ Bound(freed[p] + 1) = Bound(freed[p]) + Cardinality(Attempt)
    <3>1. Compared(p)' \subseteq Attempt
      BY DEF Compared
    <3>2. Cardinality(Compared(p)') \in Nat /\ Cardinality(Compared(p)') <= Cardinality(Attempt)
      BY <3>1, ThrottleFacts, FS_Subset, FS_CardinalityType
    <3>3. QED BY <2>1, <3>2, ComparedFinite, BoundGrows
  <2>3. CASE p = <<u, i>>
    <3>1. ~(attempts[<<u, i>>].until > now)
      BY <1>1 DEF Logins!Locked, attempts, now
    <3>2. attempts[p].until <= now
      BY <2>1, <2>3, <3>1
    <3>3. QED BY <2>1, <2>2, <3>2
  <2>4. CASE p # <<u, i>>
    <3>1. Cardinality(Compared(p)') <= Cardinality(Compared(p))
      BY <1>3, <2>4, ComparedFinite, FS_Subset
    <3>2. QED BY <2>1, <2>2, <3>1
  <2>5. QED BY <2>3, <2>4
<1>6. Slowed'
  <2>1. ASSUME NEW p \in Pairs
        PROVE  /\ attempts'[p].n + Cardinality(Compared(p)') <= Bound(freed[p] + 1)'
               /\ attempts'[p].until <= now' => attempts'[p].n <= Bound(freed[p])'
    <3>1. Bound(freed[p] + 1)' = Bound(freed[p] + 1) /\ Bound(freed[p])' = Bound(freed[p])
      BY <1>2 DEF Bound, freed
    <3>2. attempts' = attempts /\ now' = now
      BY <1>2 DEF attempts, now
    <3>3. QED BY <1>5, <3>1, <3>2 DEF LoginsInv, Slowed
  <2>2. QED BY <2>1 DEF Slowed
<1>7. QED BY <1>3, <1>4, <1>6 DEF LoginsInv

(* One comparison less, and one failure more.                              *)
LEMMA ComparedLess ==
  ASSUME LoginsTyped, NEW a \in Attempt, logins[a].at = "comparing", logins' = [logins EXCEPT ![a] = Logins!Free],
         NEW q, q = <<logins[a].user, logins[a].ip>>
  PROVE  /\ Cardinality(Compared(q)') = Cardinality(Compared(q)) - 1
         /\ \A p \in Pairs \ {q} : Cardinality(Compared(p)') = Cardinality(Compared(p))
         /\ \A p \in Pairs : Cardinality(Compared(p)) \in Nat
<1>1. /\ Compared(q)' = Compared(q) \ {a} /\ a \in Compared(q)
      /\ \A p \in Pairs \ {q} : Compared(p)' = Compared(p)
  BY Compares
<1>2. Cardinality(Compared(q) \ {a}) = Cardinality(Compared(q)) - 1
  <2>1. IsFiniteSet(Compared(q))
    BY ComparedFinite
  <2>2. QED BY <1>1, <2>1, FS_RemoveElement
<1>3. QED BY <1>1, <1>2, ComparedFinite

LEMMA FailsSlowed ==
  ASSUME LoginsInv, NEW a \in Attempt, Logins!Fails(a) PROVE LoginsInv'
<1>1. PICK u \in Account, i \in Ip, q \in Pairs : u = logins[a].user /\ i = logins[a].ip /\ q = <<u, i>>
  BY DEF LoginsInv, LoginsTyped, Pairs, Logins!Fails, logins
<1>2. /\ logins[a].at = "comparing" /\ logins' = [logins EXCEPT ![a] = Logins!Free]
      /\ UNCHANGED <<x1, x4, x6, x7>>
      /\ UNCHANGED attempts \/ attempts' = Logins!Punished(u, i)
  BY <1>1 DEF Logins!Fails, logins, attempts
<1>3. LoginsTyped' /\ MinuteHolds'
  BY <1>1, <1>2, Compares, MinuteStays DEF LoginsInv
<1>4. /\ Cardinality(Compared(q)') = Cardinality(Compared(q)) - 1
      /\ \A p \in Pairs \ {q} : Cardinality(Compared(p)') = Cardinality(Compared(p))
      /\ \A p \in Pairs : Cardinality(Compared(p)) \in Nat
  BY <1>1, <1>2, ComparedLess DEF LoginsInv
<1>5. q \in Pairs /\ now \in Nat /\ now' = now
  BY <1>1, <1>2 DEF Pairs, LoginsInv, CountsTyped, now
<1>6. ASSUME NEW p \in Pairs
      PROVE  /\ Bound(freed[p] + 1)' = Bound(freed[p] + 1) /\ Bound(freed[p])' = Bound(freed[p])
             /\ Bound(freed[p]) \in Int /\ Bound(freed[p]) >= MaxFailed - 1
             /\ Bound(freed[p] + 1) \in Int
             /\ attempts[p].n \in Nat /\ attempts[p].until \in Nat
             /\ attempts[p].n + Cardinality(Compared(p)) <= Bound(freed[p] + 1)
             /\ attempts[p].until <= now => attempts[p].n <= Bound(freed[p])
  <2>1. freed' = freed
    BY <1>2 DEF freed
  <2>2. freed[p] \in Nat
    BY DEF LoginsInv, CountsTyped
  <2>3. Bound(freed[p] + 1)' = Bound(freed[p] + 1) /\ Bound(freed[p])' = Bound(freed[p])
    BY <2>1 DEF Bound
  <2>4. /\ Bound(freed[p]) \in Int /\ Bound(freed[p]) >= MaxFailed - 1 /\ Bound(freed[p] + 1) \in Int
    BY <2>2, BoundGrows
  <2>5. QED BY <2>3, <2>4 DEF LoginsInv, CountsTyped, Slowed, AttemptRows
<1>7. CASE UNCHANGED attempts
  <2>1. CountsTyped' /\ LockedFromHere'
    BY <1>2, <1>7 DEF LoginsInv, CountsTyped, LockedFromHere, now, freed
  <2>2. Slowed'
    BY <1>4, <1>5, <1>6, <1>7 DEF Slowed
  <2>3. QED BY <1>3, <2>1, <2>2 DEF LoginsInv
<1>8. CASE attempts' = Logins!Punished(u, i)
  <2>1. /\ attempts' \in [Pairs -> AttemptRows]
        /\ attempts'[q].n = attempts[q].n + 1
        /\ \A p \in Pairs \ {q} : attempts'[p].n = attempts[p].n
        /\ \A p \in Pairs : Later(attempts[p], attempts'[p])
        /\ attempts'[q].n >= MaxFailed => attempts'[q].until > now
        /\ \A p \in Pairs : p[1] \in Admin /\ attempts'[p].until # attempts[p].until => attempts'[p].n >= MaxFailed
    BY <1>1, <1>8, PunishedRows DEF LoginsInv
  <2>2. CountsTyped'
    BY <1>2, <2>1 DEF LoginsInv, CountsTyped, now, freed
  <2>3. LockedFromHere'
    <3>1. ASSUME NEW p \in Pairs, p[1] \in Admin, attempts'[p].until > now'
          PROVE  attempts'[p].n >= MaxFailed
      <4>1. CASE attempts'[p].until # attempts[p].until
        BY <2>1, <3>1, <4>1
      <4>2. CASE attempts'[p].until = attempts[p].until
        <5>1. attempts[p].n >= MaxFailed
          BY <1>5, <3>1, <4>2 DEF LoginsInv, LockedFromHere
        <5>2. attempts'[p].n >= attempts[p].n
          BY <1>6, <2>1
        <5>3. attempts'[p].n \in Nat /\ attempts[p].n \in Nat
          BY <1>6, <2>1 DEF AttemptRows
        <5>4. QED BY <5>1, <5>2, <5>3, MaxFailedIs
      <4>3. QED BY <4>1, <4>2
    <3>2. QED BY <3>1 DEF LockedFromHere
  <2>4. ASSUME NEW p \in Pairs
        PROVE  /\ attempts'[p].n + Cardinality(Compared(p)') <= Bound(freed[p] + 1)
               /\ attempts'[p].until <= now => attempts'[p].n <= Bound(freed[p])
    <3>1. attempts'[p].n \in Nat /\ attempts'[p].until \in Nat
      BY <2>1 DEF AttemptRows
    <3>2. attempts'[p].until <= now => attempts'[p].until = attempts[p].until
      BY <1>5, <2>1, <3>1 DEF Later
    <3>3. CASE p = q
      BY <1>4, <1>5, <1>6, <2>1, <3>1, <3>2, <3>3, MaxFailedIs
    <3>4. CASE p # q
      BY <1>4, <1>5, <1>6, <2>1, <3>1, <3>2, <3>4
    <3>5. QED BY <3>3, <3>4
  <2>5. Slowed'
    BY <1>5, <1>6, <2>4 DEF Slowed
  <2>6. QED BY <1>3, <2>2, <2>3, <2>5 DEF LoginsInv
<1>9. QED BY <1>2, <1>7, <1>8

(* A pair that begins anew is slowed from the start.                       *)
LEMMA AnewSlowed ==
  ASSUME NEW c \in Nat, c <= Cardinality(Attempt)
  PROVE  0 + c <= Bound(0 + 1) /\ 0 <= Bound(0)
<1>1. /\ Cardinality(Attempt) \in Nat /\ Bound(0) \in Int /\ Bound(0) >= MaxFailed - 1
      /\ Bound(0 + 1) = Bound(0) + Cardinality(Attempt)
  BY BoundGrows
<1>2. QED BY <1>1, MaxFailedIs

LEMMA RowFacts ==
  ASSUME CountsTyped, Slowed, NEW p \in Pairs
  PROVE  /\ attempts[p].n \in Nat /\ attempts[p].until \in Nat /\ freed[p] \in Nat /\ now \in Nat
         /\ attempts[p].n + Cardinality(Compared(p)) <= Bound(freed[p] + 1)
         /\ attempts[p].until <= now => attempts[p].n <= Bound(freed[p])
         /\ Cardinality(Compared(p)) \in Nat
         /\ Bound(freed[p]) \in Int /\ Bound(freed[p] + 1) \in Int
<1>1. freed[p] \in Nat
  BY DEF CountsTyped
<1>2. QED BY <1>1, ComparedFinite, BoundGrows DEF CountsTyped, Slowed, AttemptRows

LEMMA NoRowIs ==
  Logins!NoRow \in AttemptRows /\ Logins!NoRow.n = 0 /\ Logins!NoRow.until = 0
  BY DEF Logins!NoRow, AttemptRows

LEMMA SucceedsMinute ==
  ASSUME LoginsInv, NEW u \in Account, UNCHANGED x1,
         \/ /\ Logins!Gives(u)
            /\ successes' = [successes EXCEPT ![u] = Append(Logins!Recent(u), now)]
            /\ cookies' = [cookies EXCEPT ![u] = Append(Logins!Within(@, now), now)]
         \/ successes' = [successes EXCEPT ![u] = Logins!Recent(u)] /\ UNCHANGED cookies
  PROVE  MinuteHolds'
<1>1. PICK given \in Seq(Nat), list \in Seq(Nat), at \in Nat :
        given = cookies[u] /\ list = successes[u] /\ at = now
  BY DEF LoginsInv, MinuteHolds, CountsTyped
<1>2. /\ Logins!Recent(u) = Logins!Within(list, at)
      /\ Logins!Within(given, at) = Logins!Within(list, at)
      /\ Len(Logins!Within(given, at)) <= SuccessMax
  BY <1>1 DEF Logins!Recent, LoginsInv, MinuteHolds, successes, now
<1>3. PICK recent \in Seq(Nat) : recent = Logins!Within(list, at)
  BY WithinTyped
<1>4. now' = at /\ \A v \in Account \ {u} : successes'[v] = successes[v] /\ cookies'[v] = cookies[v]
  BY <1>1 DEF now, LoginsInv, MinuteHolds
<1>5. /\ successes'[u] \in Seq(Nat) /\ cookies'[u] \in Seq(Nat)
      /\ Logins!Within(cookies'[u], at) = Logins!Within(successes'[u], at)
      /\ Len(Logins!Within(cookies'[u], at)) <= SuccessMax
  <2>1. CASE /\ Logins!Gives(u)
             /\ successes' = [successes EXCEPT ![u] = Append(Logins!Recent(u), now)]
             /\ cookies' = [cookies EXCEPT ![u] = Append(Logins!Within(@, now), now)]
    <3>1. PICK longer \in Seq(Nat) : longer = Append(recent, at)
      <4>1. Append(recent, at) \in Seq(Nat)
        OBVIOUS
      <4>2. QED BY <4>1, Zenon
    <3>2. successes'[u] = longer /\ cookies'[u] = longer
      BY <1>1, <1>2, <1>3, <2>1, <3>1 DEF LoginsInv, MinuteHolds
    <3>3. Len(longer) <= SuccessMax
      <4>1. Len(recent) < SuccessMax
        BY <1>2, <1>3, <2>1 DEF Logins!Gives
      <4>2. Len(longer) = Len(recent) + 1 /\ Len(recent) \in Nat
        BY <3>1
      <4>3. SuccessMax \in Nat
        BY ThrottleFacts
      <4>4. QED BY <4>1, <4>2, <4>3
    <3>4. Len(Logins!Within(longer, at)) <= SuccessMax
      <4>1. Logins!Within(longer, at) \in Seq(Nat) /\ Len(Logins!Within(longer, at)) <= Len(longer)
        BY WithinTyped
      <4>2. Len(Logins!Within(longer, at)) \in Nat /\ Len(longer) \in Nat /\ SuccessMax \in Nat
        BY <4>1, ThrottleFacts
      <4>3. QED BY <3>3, <4>1, <4>2
    <3>5. QED BY <3>2, <3>4
  <2>2. CASE successes' = [successes EXCEPT ![u] = Logins!Recent(u)] /\ UNCHANGED cookies
    <3>1. successes'[u] = recent /\ cookies'[u] = given
      BY <1>1, <1>2, <1>3, <2>2 DEF LoginsInv, MinuteHolds
    <3>2. Logins!Within(recent, at) = recent
      BY <1>3, WithinLater
    <3>3. QED BY <1>2, <1>3, <3>1, <3>2
  <2>3. QED BY <2>1, <2>2
<1>6. successes' \in [Account -> Seq(Nat)] /\ cookies' \in [Account -> Seq(Nat)]
  <2>1. /\ successes' = [v \in Account |-> successes'[v]] /\ cookies' = [v \in Account |-> cookies'[v]]
        /\ \A v \in Account : successes[v] \in Seq(Nat) /\ cookies[v] \in Seq(Nat)
    BY DEF LoginsInv, MinuteHolds
  <2>2. QED BY <1>4, <1>5, <2>1
<1>7. ASSUME NEW v \in Account
      PROVE  /\ Logins!Within(cookies'[v], at) = Logins!Within(successes'[v], at)
             /\ Len(Logins!Within(cookies'[v], at)) <= SuccessMax
  <2>1. CASE v = u
    BY <1>5, <2>1
  <2>2. CASE v # u
    BY <1>1, <1>4, <2>2 DEF LoginsInv, MinuteHolds
  <2>3. QED BY <2>1, <2>2
<1>8. QED BY <1>4, <1>6, <1>7 DEF MinuteHolds

LEMMA SucceedsSlowed ==
  ASSUME LoginsInv, NEW a \in Attempt, Logins!Succeeds(a) PROVE LoginsInv'
<1>1. PICK u \in Account, i \in Ip, q \in Pairs : u = logins[a].user /\ i = logins[a].ip /\ q = <<u, i>>
  BY DEF LoginsInv, LoginsTyped, Pairs, Logins!Succeeds, logins
<1>2. /\ logins[a].at = "comparing" /\ logins' = [logins EXCEPT ![a] = Logins!Free]
      /\ UNCHANGED x1
      /\ attempts' = [attempts EXCEPT ![q] = Logins!NoRow]
      /\ freed' = [freed EXCEPT ![q] = 0]
  BY <1>1 DEF Logins!Succeeds, logins, attempts, freed
<1>3. MinuteHolds'
  <2>1. \/ /\ Logins!Gives(u)
           /\ successes' = [successes EXCEPT ![u] = Append(Logins!Recent(u), now)]
           /\ cookies' = [cookies EXCEPT ![u] = Append(Logins!Within(@, now), now)]
        \/ successes' = [successes EXCEPT ![u] = Logins!Recent(u)] /\ UNCHANGED cookies
    BY <1>1 DEF Logins!Succeeds, logins, successes, cookies, now
  <2>2. QED BY <1>2, <2>1, SucceedsMinute
<1>4. LoginsTyped'
  BY <1>1, <1>2, Compares DEF LoginsInv
<1>5. /\ q \in Pairs /\ now' = now
      /\ attempts' \in [Pairs -> AttemptRows] /\ attempts'[q] = Logins!NoRow
      /\ freed' \in [Pairs -> Nat] /\ freed'[q] = 0
      /\ \A p \in Pairs \ {q} : attempts'[p] = attempts[p] /\ freed'[p] = freed[p]
  BY <1>1, <1>2, NoRowIs DEF Pairs, LoginsInv, CountsTyped, now
<1>6. /\ Cardinality(Compared(q)') = Cardinality(Compared(q)) - 1
      /\ \A p \in Pairs \ {q} : Cardinality(Compared(p)') = Cardinality(Compared(p))
  BY <1>1, <1>2, ComparedLess DEF LoginsInv
<1>7. CountsTyped'
  BY <1>5 DEF LoginsInv, CountsTyped
<1>8. LockedFromHere'
  BY <1>5, NoRowIs DEF LoginsInv, LockedFromHere, CountsTyped
<1>9. ASSUME NEW p \in Pairs
      PROVE  /\ attempts'[p].n + Cardinality(Compared(p)') <= Bound(freed'[p] + 1)
             /\ attempts'[p].until <= now => attempts'[p].n <= Bound(freed'[p])
  <2>1. CASE p = q
    <3>1. PICK c \in Nat : c = Cardinality(Compared(p)') /\ c <= Cardinality(Attempt)
      <4>1. Compared(p)' \subseteq Attempt
        BY DEF Compared
      <4>2. QED BY <4>1, ThrottleFacts, FS_Subset, FS_CardinalityType
    <3>2. attempts'[p].n = 0 /\ freed'[p] = 0
      BY <1>5, <2>1, NoRowIs
    <3>3. QED BY <3>1, <3>2, AnewSlowed
  <2>2. CASE p # q
    BY <1>5, <1>6, <2>2, RowFacts DEF LoginsInv
  <2>3. QED BY <2>1, <2>2
<1>10. Slowed'
  BY <1>5, <1>9 DEF Slowed, Bound
<1>11. QED BY <1>3, <1>4, <1>7, <1>8, <1>10 DEF LoginsInv

LEMMA ClearedSlowed ==
  ASSUME LoginsInv, NEW u \in Account, Logins!Cleared(u) PROVE LoginsInv'
<1>1. /\ UNCHANGED <<x1, x4, x5, x6>>
      /\ attempts' = [p \in Pairs |-> IF p[1] = u THEN Logins!NoRow ELSE attempts[p]]
      /\ freed' = [p \in Pairs |-> IF p[1] = u THEN 0 ELSE freed[p]]
  BY DEF Logins!Cleared, Pairs, attempts, freed
<1>2. now' = now /\ \A p \in Pairs : Compared(p)' = Compared(p)
  BY <1>1 DEF now, Compared, logins
<1>3. LoginsTyped' /\ MinuteHolds'
  BY <1>1, MinuteStays DEF LoginsInv, LoginsTyped, logins
<1>4. CountsTyped'
  BY <1>1, <1>2, NoRowIs DEF LoginsInv, CountsTyped
<1>5. LockedFromHere'
  <2>1. now \in Nat
    BY DEF LoginsInv, CountsTyped
  <2>2. QED BY <1>1, <1>2, <2>1, NoRowIs DEF LoginsInv, LockedFromHere
<1>6. ASSUME NEW p \in Pairs
      PROVE  /\ attempts'[p].n + Cardinality(Compared(p)') <= Bound(freed'[p] + 1)
             /\ attempts'[p].until <= now => attempts'[p].n <= Bound(freed'[p])
  <2>1. CASE p[1] = u
    <3>1. PICK c \in Nat : c = Cardinality(Compared(p)') /\ c <= Cardinality(Attempt)
      BY <1>2, ComparedFinite
    <3>2. attempts'[p].n = 0 /\ freed'[p] = 0
      BY <1>1, <2>1, NoRowIs
    <3>3. QED BY <3>1, <3>2, AnewSlowed
  <2>2. CASE p[1] # u
    BY <1>1, <1>2, <2>2, RowFacts DEF LoginsInv
  <2>3. QED BY <2>1, <2>2
<1>7. Slowed'
  BY <1>2, <1>6 DEF Slowed, Bound
<1>8. QED BY <1>3, <1>4, <1>5, <1>7 DEF LoginsInv

(* A lock that runs out with the tick has been counted by it.              *)
LEMMA TickSlowed ==
  ASSUME LoginsInv, Logins!Tick PROVE LoginsInv'
<1>1. /\ UNCHANGED <<x2, x4, x5, x6>> /\ now' = now + 1 /\ now \in Nat
      /\ freed' = [p \in Pairs |-> freed[p] + (IF attempts[p].until = now' THEN 1 ELSE 0)]
  BY DEF Logins!Tick, Pairs, attempts, freed, now, LoginsInv, CountsTyped
<1>2. UNCHANGED <<attempts, successes, logins, cookies>> /\ \A p \in Pairs : Compared(p)' = Compared(p)
  BY <1>1 DEF attempts, successes, logins, cookies, Compared
<1>3. LoginsTyped'
  BY <1>2 DEF LoginsInv, LoginsTyped
<1>4. CountsTyped'
  BY <1>1, <1>2 DEF LoginsInv, CountsTyped
<1>5. LockedFromHere'
  <2>1. \A p \in Pairs : attempts[p].until \in Nat
    BY DEF LoginsInv, CountsTyped, AttemptRows
  <2>2. QED BY <1>1, <1>2, <2>1 DEF LoginsInv, LockedFromHere
<1>6. MinuteHolds'
  <2>1. ASSUME NEW u \in Account
        PROVE  /\ Logins!Within(cookies[u], now + 1) = Logins!Within(successes[u], now + 1)
               /\ Len(Logins!Within(cookies[u], now + 1)) <= SuccessMax
    <3>1. PICK given \in Seq(Nat), list \in Seq(Nat), at \in Nat :
            given = cookies[u] /\ list = successes[u] /\ at = now
      BY <1>1 DEF LoginsInv, MinuteHolds
    <3>2. Logins!Within(given, at) = Logins!Within(list, at) /\ Len(Logins!Within(given, at)) <= SuccessMax
      BY <3>1 DEF LoginsInv, MinuteHolds
    <3>3. /\ Logins!Within(Logins!Within(given, at), at + 1) = Logins!Within(given, at + 1)
          /\ Logins!Within(Logins!Within(list, at), at + 1) = Logins!Within(list, at + 1)
      BY WithinLater
    <3>4. PICK recent \in Seq(Nat) : recent = Logins!Within(given, at)
      BY WithinTyped
    <3>5. Logins!Within(recent, at + 1) \in Seq(Nat) /\ Len(Logins!Within(recent, at + 1)) <= Len(recent)
      BY WithinTyped
    <3>6. Len(Logins!Within(recent, at + 1)) \in Nat /\ Len(recent) \in Nat /\ SuccessMax \in Nat
      BY <3>5, ThrottleFacts
    <3>7. Len(Logins!Within(given, at + 1)) <= SuccessMax
      BY <3>2, <3>3, <3>4, <3>5, <3>6
    <3>8. QED BY <3>1, <3>2, <3>3, <3>7
  <2>2. QED BY <1>1, <1>2, <2>1 DEF LoginsInv, MinuteHolds
<1>7. ASSUME NEW p \in Pairs
      PROVE  /\ attempts[p].n + Cardinality(Compared(p)) <= Bound(freed'[p] + 1)
             /\ attempts[p].until <= now + 1 => attempts[p].n <= Bound(freed'[p])
  <2>1. /\ attempts[p].n \in Nat /\ attempts[p].until \in Nat /\ freed[p] \in Nat
        /\ attempts[p].n + Cardinality(Compared(p)) <= Bound(freed[p] + 1)
        /\ attempts[p].until <= now => attempts[p].n <= Bound(freed[p])
        /\ Cardinality(Compared(p)) \in Nat
        /\ Bound(freed[p]) \in Int /\ Bound(freed[p] + 1) \in Int
    BY RowFacts DEF LoginsInv
  <2>2. CASE attempts[p].until = now + 1
    <3>1. PICK k \in Nat : k = freed[p] + 1 /\ freed'[p] = k
      BY <1>1, <2>1, <2>2
    <3>2. Bound(k + 1) = Bound(k) + Cardinality(Attempt) /\ Cardinality(Attempt) \in Nat /\ Bound(k) \in Int
      BY BoundGrows
    <3>3. QED BY <2>1, <3>1, <3>2
  <2>3. CASE attempts[p].until # now + 1
    <3>1. freed'[p] = freed[p]
      BY <1>1, <2>1, <2>3
    <3>2. now \in Nat /\ (attempts[p].until <= now + 1 => attempts[p].until <= now)
      BY <1>1, <2>1, <2>3
    <3>3. QED BY <2>1, <3>1, <3>2
  <2>4. QED BY <2>2, <2>3
<1>8. Slowed'
  BY <1>1, <1>2, <1>7 DEF Slowed, Bound
<1>9. QED BY <1>3, <1>4, <1>5, <1>6, <1>8 DEF LoginsInv

LEMMA LoginsInit ==
  ASSUME Logins!Init PROVE LoginsInv
<1>1. CountsTyped /\ LockedFromHere
  <2>1. /\ attempts = [p \in Pairs |-> [n |-> 0, until |-> 0]] /\ freed = [p \in Pairs |-> 0]
        /\ now = 0
    BY DEF Logins!Init, Logins!NoRow, Pairs, attempts, freed, now
  <2>2. CountsTyped
    BY <2>1 DEF CountsTyped, AttemptRows
  <2>3. LockedFromHere
    BY <2>1 DEF LockedFromHere
  <2>4. QED BY <2>2, <2>3
<1>2. LoginsTyped
  BY DEF Logins!Init, LoginsTyped, Logins!Free, Attempts, logins
<1>3. MinuteHolds
  <2>1. /\ successes = [u \in Account |-> <<>>] /\ cookies = successes /\ now = 0
    BY DEF Logins!Init, successes, cookies, now
  <2>2. Logins!Within(<<>>, 0) \in Seq(Nat) /\ Len(Logins!Within(<<>>, 0)) <= 0
    <3>1. <<>> \in Seq(Nat) /\ Len(<<>>) = 0
      OBVIOUS
    <3>2. QED BY <3>1, WithinTyped
  <2>3. Len(Logins!Within(<<>>, 0)) <= SuccessMax
    <3>1. SuccessMax \in Nat
      BY ThrottleFacts
    <3>2. QED BY <2>2, <3>1
  <2>4. QED BY <2>1, <2>3 DEF MinuteHolds
<1>4. ASSUME NEW p \in Pairs
      PROVE  /\ attempts[p].n + Cardinality(Compared(p)) <= Bound(freed[p] + 1)
             /\ attempts[p].until <= now => attempts[p].n <= Bound(freed[p])
  <2>1. attempts[p].n = 0 /\ freed[p] = 0
    BY NoRowIs DEF Logins!Init, Pairs, attempts, freed
  <2>2. PICK c \in Nat : c = Cardinality(Compared(p)) /\ c <= Cardinality(Attempt)
    BY ComparedFinite
  <2>3. QED BY <2>1, <2>2, AnewSlowed
<1>5. QED BY <1>1, <1>2, <1>3, <1>4 DEF LoginsInv, Slowed

LEMMA LoginsStep ==
  ASSUME LoginsInv, [Logins!Next]_LoginsVars PROVE LoginsInv'
<1>1. CASE UNCHANGED LoginsVars
  <2>1. UNCHANGED <<now, attempts, successes, logins, cookies, freed>>
    BY <1>1 DEF LoginsVars, now, attempts, successes, logins, cookies, freed
  <2>2. CountsTyped' /\ LoginsTyped' /\ MinuteHolds' /\ LockedFromHere'
    BY <2>1 DEF LoginsInv, CountsTyped, LoginsTyped, MinuteHolds, LockedFromHere
  <2>3. Slowed'
    BY <2>1 DEF LoginsInv, Slowed, Compared, Bound
  <2>4. QED BY <2>2, <2>3 DEF LoginsInv
<1>2. CASE Logins!Next
  <2>1. ASSUME NEW a \in Attempt, Logins!Arrives(a) \/ Logins!Fails(a) \/ Logins!Succeeds(a) PROVE LoginsInv'
    BY <2>1, ArrivesSlowed, FailsSlowed, SucceedsSlowed
  <2>2. QED BY <1>2, <2>1, ClearedSlowed, TickSlowed DEF Logins!Next
<1>3. QED BY <1>1, <1>2

(* Nobody locks the main user out from another address; a pair fails       *)
(* MaxFailed times and once for each lock that runs out, but for what      *)
(* passed the lock together; and no name is given more than SuccessMax     *)
(* cookies in a minute (auth.ts:184, auth.ts:217, gateway.ts:3388).        *)
THEOREM LoginsAreLimited == Spec => []LoginsLimited
<1> DEFINE Inv == part = "logins" => LoginsInv
<1>1. Init => Inv
  BY LoginsInit DEF Init
<1>2. Inv /\ [Next]_vars => Inv'
  <2>1. SUFFICES ASSUME LoginsInv, [Next]_vars, part = "logins" PROVE LoginsInv'
    BY PartStays
  <2>2. [Logins!Next]_LoginsVars
    BY <2>1 DEF Next, vars, LoginsVars, ModelsSteps, InventorySteps, EndpointsSteps, LoginsSteps, QuotaSteps,
       WorkspacesSteps
  <2>3. QED BY <2>1, <2>2, LoginsStep
<1>3. Inv => LoginsLimited
  <2>1. SUFFICES ASSUME LoginsInv
                 PROVE  Logins!AdminLockedOnlyFromHere /\ Logins!GuessesAreSlowed /\ Logins!CookiesPerMinute
    BY DEF LoginsLimited
  <2>2. ASSUME NEW u \in Account, NEW i \in Ip
        PROVE  /\ u \in Admin /\ attempts[<<u, i>>].until > now => attempts[<<u, i>>].n >= MaxFailed
               /\ attempts[<<u, i>>].n <= MaxFailed - 1 + (freed[<<u, i>>] + 1) * Cardinality(Attempt)
    <3>1. PICK p \in Pairs : p = <<u, i>> /\ p[1] = u
      <4>1. <<u, i>> \in Pairs /\ <<u, i>>[1] = u
        BY DEF Pairs
      <4>2. QED BY <4>1, Zenon
    <3>2. /\ attempts[p].n \in Nat /\ Cardinality(Compared(p)) \in Nat /\ Bound(freed[p] + 1) \in Int
          /\ attempts[p].n + Cardinality(Compared(p)) <= Bound(freed[p] + 1)
      BY <2>1, RowFacts DEF LoginsInv
    <3>3. attempts[p].n <= Bound(freed[p] + 1)
      BY <3>2
    <3>4. p[1] \in Admin /\ attempts[p].until > now => attempts[p].n >= MaxFailed
      BY <2>1 DEF LoginsInv, LockedFromHere
    <3>5. QED BY <3>1, <3>3, <3>4 DEF Bound
  <2>3. Logins!AdminLockedOnlyFromHere
    BY <2>2, ThrottleFacts DEF Logins!AdminLockedOnlyFromHere, Logins!Locked, attempts, now
  <2>4. Logins!GuessesAreSlowed
    <3>1. Logins!Cardinality(Attempt) = Cardinality(Attempt)
      BY Zenon DEF Logins!Cardinality, Cardinality
    <3>2. QED BY <2>2, <3>1 DEF Logins!GuessesAreSlowed, attempts, freed
  <2>5. Logins!CookiesPerMinute
    BY <2>1 DEF Logins!CookiesPerMinute, LoginsInv, MinuteHolds, cookies, now
  <2>6. QED BY <2>3, <2>4, <2>5
<1> HIDE DEF Inv
<1>4. QED BY <1>1, <1>2, <1>3, PTL DEF Spec

=============================================================================
