----------------------------- MODULE ModelChoice -----------------------------
(***************************************************************************)
(* Which model and agent preset a sub-user's prompt runs with.  Neither a  *)
(* prompt nor a fork names one: the host takes the session's selection, or *)
(* its own default.  The gateway therefore keeps a record of both, from    *)
(* the answers to session/selectModel, create, fork and list, from the     *)
(* frames of session/follow and from the model catalog, and judges by it   *)
(* against the lists of the user's permissions.  Answers, frames, events   *)
(* and saves come in any order.                                            *)
(*                                                                         *)
(* One sub-user and the main user, who has no lists.  A handler is one     *)
(* step from one await to the next.  An answer to session/list is modelled *)
(* for one of its items at a time.                                         *)
(***************************************************************************)
EXTENDS Naturals, Sequences

CONSTANTS
  Session, Model, Preset,
  Request,         \* requests, each made once
  None,            \* no selection: the host's default counts
  Unknown,         \* nothing recorded
  NoLimit,         \* a list that is NULL
  MaxSaves, MaxDefaults, MaxFollows   \* bounds: saves, changes of the default,
                                      \* snapshots asked for

VARIABLES
  models, presets, \* the lists of the permissions: NoLimit or sets
  record,          \* [Session -> Model \cup {None, Unknown}]: sessionModelById
  catalog,         \* Model \cup {None, Unknown}: hostDefaultModel(Known)
  presetOf,        \* [Session -> Preset \cup {Unknown}]: sessionAgentPresetByUser
  req,             \* [Request -> the request]
  follow,          \* frames of session/follow on their way, in order
  added,           \* events of new sessions on their way
  born,            \* SUBSET Session: those the host has
  selected,        \* [Session -> Model \cup {None}]: the host's selections
  default,         \* Model: the host's default
  runsWith,        \* [Session -> Preset]: the presets at the host
  ever,            \* [Session -> what selected has been]
  saves, defaults, follows

lists == <<models, presets>>
records == <<record, catalog, presetOf>>
hostVars == <<born, selected, default, runsWith, ever>>
bounds == <<saves, defaults, follows>>
coming == <<follow, added>>
vars == <<lists, records, req, coming, hostVars, bounds>>

Idle == [phase |-> "idle", kind |-> "prompt", session |-> Unknown, model |-> Unknown,
         preset |-> Unknown, models |-> NoLimit, presets |-> NoLimit, ok |-> FALSE]

Goto(r, phase) == req' = [req EXCEPT ![r].phase = phase]
Over(r) == req' = [req EXCEPT ![r] = [Idle EXCEPT !.phase = "over"]]

------------------------------------------------------------------------------
(* The records.                                                            *)

(* effectiveSessionModel()                                                 *)
Effective(s) ==
  CASE record[s] = Unknown -> Unknown
    [] record[s] = None -> catalog
    [] OTHER -> record[s]

(* modelChoiceVerdict(): unknown is not unlimited.                         *)
Verdict(list, m) == list = NoLimit \/ (m \in Model /\ m \in list)

(* recordSessionModelSelection()                                           *)
Recorded(s, m) == [record EXCEPT ![s] = m]

(* Slip: what was asked for is recorded, carried out or not.               *)
SelectedAnyway(q) == Recorded(q.session, q.model)

(* The answer to selectModel: only a success tells anything.               *)
SelectedAnswer(q) == IF q.ok THEN Recorded(q.session, q.model) ELSE record

(* recordSessionFollowModelSelection()                                     *)
Followed(f) == Recorded(f.session, f.model)

------------------------------------------------------------------------------
(* The gates.                                                              *)

(* modelGateAllows(): a selection by what it asks for; a creation unless   *)
(* no model is allowed at all; the others by the record, a fork by the     *)
(* default as well.                                                        *)
ModelGate(list, q) ==
  \/ list = NoLimit
  \/ q.kind = "selectModel" /\ Verdict(list, q.model)
  \/ q.kind = "create" /\ list # {}
  \/ q.kind = "prompt" /\ Verdict(list, Effective(q.session))
  \/ q.kind = "fork" /\ Verdict(list, Effective(q.session)) /\ Verdict(list, catalog)
  \/ q.kind \in {"selectPreset", "catalog", "list"}

(* The preset a fork inherits unless it names one.                         *)
Inherited(q) == IF q.kind = "fork" /\ q.preset = Unknown THEN presetOf[q.session] ELSE q.preset

(* agentPresetGateAllows()                                                 *)
PresetGate(list, q) ==
  \/ list = NoLimit
  \/ q.kind = "create" /\ (q.preset = Unknown \/ q.preset \in list)
  \/ q.kind = "selectPreset" /\ q.preset \in list
  \/ q.kind = "fork" /\ Inherited(q) \in list
  \/ q.kind = "prompt" /\ presetOf[q.session] \in list
  \/ q.kind \in {"selectModel", "catalog", "list"}

(* The gate of the request takes the lists; the body is awaited.  A create *)
(* of a session the host has would use it again while it is blank.         *)
Arrives(r, main, kind, s, m, p) ==
  /\ kind # "create" => s \in born
  /\ (kind = "selectModel") <=> (m # Unknown)
  /\ p # Unknown => kind \in {"create", "fork", "selectPreset"}
  /\ kind = "selectPreset" => p # Unknown
  /\ main => kind \in {"selectModel", "catalog"}
  /\ req' = [req EXCEPT ![r] =
       [Idle EXCEPT !.phase = "body", !.kind = kind, !.session = s, !.model = m, !.preset = p,
                    !.models = IF main THEN NoLimit ELSE models,
                    !.presets = IF main THEN NoLimit ELSE presets]]
  /\ UNCHANGED <<lists, records, coming, hostVars, bounds>>

(* The body is there. A prompt waits for the sandbox mode of its session.  *)
BodyRead(r) ==
  LET q == req[r] IN
  /\ q.phase = "body"
  /\ IF ModelGate(q.models, q) /\ PresetGate(q.presets, q)
       THEN req' = [req EXCEPT ![r].phase = IF q.kind = "prompt" THEN "confirming" ELSE "sent",
                               ![r].preset = Inherited(q)]
       ELSE Over(r)
  /\ UNCHANGED <<lists, records, coming, hostVars, bounds>>

(* Slip: the confirmation is all a prompt waits for.                       *)
AsJudgedBefore(q) == TRUE

(* The lists are read again, if the request was under them at its start.   *)
StillAllowed(q) ==
  /\ q.models # NoLimit => ModelGate(models, q)
  /\ q.presets # NoLimit => PresetGate(presets, q)

Confirmed(r) ==
  /\ req[r].phase = "confirming"
  /\ IF StillAllowed(req[r]) THEN Goto(r, "sent") ELSE Over(r)
  /\ UNCHANGED <<lists, records, coming, hostVars, bounds>>

ConfirmationFails(r) ==
  /\ req[r].phase = "confirming"
  /\ Over(r)
  /\ UNCHANGED <<lists, records, coming, hostVars, bounds>>

------------------------------------------------------------------------------
(* The host.                                                               *)

(* A selection is told to everyone who follows the session.                *)
HostSelects(r) ==
  LET q == req[r] IN
  /\ q.phase = "sent" /\ q.kind = "selectModel"
  /\ \/ /\ selected' = [selected EXCEPT ![q.session] = q.model]
        /\ ever' = [ever EXCEPT ![q.session] = @ \cup {q.model}]
        /\ req' = [req EXCEPT ![r].phase = "answered", ![r].ok = TRUE]
        /\ follow' \in {follow, Append(follow, [session |-> q.session, model |-> q.model])}
     \/ /\ req' = [req EXCEPT ![r].phase = "answered"]
        /\ UNCHANGED <<selected, ever, follow>>
  /\ UNCHANGED <<lists, records, added, born, default, runsWith, bounds>>

(* A blank session that is used again may keep the preset it has.          *)
HostCreates(r) ==
  LET q == req[r] IN
  /\ q.phase = "sent" /\ q.kind \in {"create", "fork"}
  /\ \E s \in (IF q.kind = "create" THEN {q.session} ELSE Session \ born),
        p \in (IF q.preset = Unknown THEN Preset ELSE {q.preset}) :
       /\ born' = born \cup {s}
       /\ \/ runsWith' = [runsWith EXCEPT ![s] = p]
          \/ s \in born /\ (q.preset = Unknown => p = runsWith[s]) /\ UNCHANGED runsWith
       /\ added' \in {added} \cup {added \cup {[session |-> z, preset |-> p]} : z \in {s} \ born}
       /\ req' = [req EXCEPT ![r].phase = "answered", ![r].ok = TRUE,
                             ![r].session = s, ![r].preset = p]
  /\ UNCHANGED <<lists, records, follow, selected, default, ever, bounds>>

HostTakesPreset(r) ==
  LET q == req[r] IN
  /\ q.phase = "sent" /\ q.kind = "selectPreset"
  /\ \/ /\ runsWith' = [runsWith EXCEPT ![q.session] = q.preset]
        /\ req' = [req EXCEPT ![r].phase = "answered", ![r].ok = TRUE]
     \/ /\ req' = [req EXCEPT ![r].phase = "answered"]
        /\ UNCHANGED runsWith
  /\ UNCHANGED <<lists, records, coming, born, selected, default, ever, bounds>>

HostTellsCatalog(r) ==
  /\ req[r].phase = "sent" /\ req[r].kind = "catalog"
  /\ req' = [req EXCEPT ![r].phase = "answered", ![r].ok = TRUE, ![r].model = default]
  /\ UNCHANGED <<lists, records, coming, hostVars, bounds>>

(* A list tells the preset of every session in it.                         *)
HostLists(r) ==
  /\ req[r].phase = "sent" /\ req[r].kind = "list"
  /\ req' = [req EXCEPT ![r].phase = "answered", ![r].ok = TRUE, ![r].preset = runsWith[req[r].session]]
  /\ UNCHANGED <<lists, records, coming, hostVars, bounds>>

HostRuns(r) ==
  /\ req[r].phase = "sent" /\ req[r].kind = "prompt"
  /\ Over(r)
  /\ UNCHANGED <<lists, records, coming, hostVars, bounds>>

DefaultChanges(m) ==
  /\ defaults < MaxDefaults /\ m # default
  /\ default' = m /\ defaults' = defaults + 1
  /\ UNCHANGED <<lists, records, req, coming, born, selected, runsWith, ever, saves, follows>>

(* A sub-user opens session/follow: the snapshot comes first.              *)
Snapshot(s) ==
  /\ follows < MaxFollows /\ s \in born
  /\ follow' = Append(follow, [session |-> s, model |-> selected[s]])
  /\ follows' = follows + 1
  /\ UNCHANGED <<lists, records, req, added, hostVars, saves, defaults>>

------------------------------------------------------------------------------
(* What comes back.                                                        *)

ModelAnswered(r) ==
  /\ req[r].phase = "answered" /\ req[r].kind = "selectModel"
  /\ record' = SelectedAnswer(req[r])
  /\ Over(r)
  /\ UNCHANGED <<lists, catalog, presetOf, coming, hostVars, bounds>>

(* create and fork: the session, new or used again, is taken to start with *)
(* the host's default; its preset follows once its sandbox mode is         *)
(* confirmed.                                                              *)
CreateAnswered(r) ==
  LET q == req[r] IN
  /\ q.phase = "answered" /\ q.kind \in {"create", "fork"}
  /\ record' = Recorded(q.session, None)
  /\ Goto(r, "settling")
  /\ UNCHANGED <<lists, catalog, presetOf, coming, hostVars, bounds>>

CreateSettled(r) ==
  LET q == req[r] IN
  /\ q.phase = "settling"
  /\ presetOf' \in {[presetOf EXCEPT ![q.session] = q.preset], presetOf}
  /\ Over(r)
  /\ UNCHANGED <<lists, record, catalog, coming, hostVars, bounds>>

PresetAnswered(r) ==
  LET q == req[r] IN
  /\ q.phase = "answered" /\ q.kind = "selectPreset"
  /\ presetOf' = IF q.ok /\ q.presets # NoLimit THEN [presetOf EXCEPT ![q.session] = q.preset] ELSE presetOf
  /\ Over(r)
  /\ UNCHANGED <<lists, record, catalog, coming, hostVars, bounds>>

(* collectSessionAgentPresets(), once the user's baseline is there; the    *)
(* wait for it may end without.                                            *)
ListAnswered(r) ==
  LET q == req[r] IN
  /\ q.phase = "answered" /\ q.kind = "list"
  /\ presetOf' \in {[presetOf EXCEPT ![q.session] = q.preset], presetOf}
  /\ Over(r)
  /\ UNCHANGED <<lists, record, catalog, coming, hostVars, bounds>>

(* recordHostDefaultModel(): the catalog of whoever asked.                 *)
CatalogAnswered(r) ==
  /\ req[r].phase = "answered" /\ req[r].kind = "catalog"
  /\ catalog' = req[r].model
  /\ Over(r)
  /\ UNCHANGED <<lists, record, presetOf, coming, hostVars, bounds>>

FollowFrame ==
  /\ follow # <<>>
  /\ record' = Followed(Head(follow))
  /\ follow' = Tail(follow)
  /\ UNCHANGED <<lists, catalog, presetOf, req, added, hostVars, bounds>>

(* host/session-added of the event stream: passed on, and its preset kept, *)
(* when the session is one of the user's by then.                          *)
SessionAdded(e) ==
  /\ e \in added /\ added' = added \ {e}
  /\ presetOf' \in {[presetOf EXCEPT ![e.session] = e.preset], presetOf}
  /\ UNCHANGED <<lists, record, catalog, req, follow, hostVars, bounds>>

SaveLists(m, p) ==
  /\ saves < MaxSaves /\ <<m, p>> # lists
  /\ models' = m /\ presets' = p /\ saves' = saves + 1
  /\ UNCHANGED <<records, req, coming, hostVars, defaults, follows>>

------------------------------------------------------------------------------
Lists(S) == (SUBSET S) \cup {NoLimit}

Init ==
  /\ models \in Lists(Model) /\ presets = NoLimit
  /\ record = [s \in Session |-> Unknown] /\ catalog = Unknown
  /\ presetOf = [s \in Session |-> Unknown]
  /\ req = [r \in Request |-> Idle] /\ follow = <<>> /\ added = {}
  /\ \E s \in Session : born = {s}
  /\ selected \in [Session -> {None}] /\ default \in Model
  /\ \E p \in Preset : runsWith = [s \in Session |-> p]
  /\ ever = [s \in Session |-> {None}]
  /\ saves = 0 /\ defaults = 0 /\ follows = 0

Kinds == {"selectModel", "create", "fork", "prompt", "selectPreset", "catalog", "list"}

Next ==
  \/ \E r \in Request :
       \/ /\ req[r].phase = "idle"
          /\ \E main \in BOOLEAN, kind \in Kinds, s \in Session, m \in Model \cup {Unknown},
                p \in Preset \cup {Unknown} : Arrives(r, main, kind, s, m, p)
       \/ BodyRead(r) \/ Confirmed(r) \/ ConfirmationFails(r)
       \/ HostSelects(r) \/ HostCreates(r) \/ HostTakesPreset(r) \/ HostTellsCatalog(r)
       \/ HostLists(r) \/ HostRuns(r)
       \/ ModelAnswered(r) \/ CreateAnswered(r) \/ CreateSettled(r) \/ PresetAnswered(r)
       \/ ListAnswered(r) \/ CatalogAnswered(r)
  \/ FollowFrame
  \/ \E e \in added : SessionAdded(e)
  \/ \E s \in Session : Snapshot(s)
  \/ \E m \in Model : DefaultChanges(m)
  \/ \E m \in Lists(Model), p \in Lists(Preset) : SaveLists(m, p)

Spec == Init /\ [][Next]_vars

------------------------------------------------------------------------------
(* The record of a session never holds a model the session did not have at *)
(* the host: a failed selection, a late answer or a frame of another       *)
(* session cannot write one (proxy.ts:1923, gateway.ts:1963).              *)
RecordWasReal ==
  \A s \in Session : record[s] # Unknown => record[s] \in ever[s]

(* A prompt that was under a list at its start is passed on only when the  *)
(* record satisfies the list of that moment, not of the start: the list    *)
(* may be tightened and the record change while the sandbox mode is        *)
(* confirmed (proxy.ts:3218).                                              *)
SentUnderTodaysLists ==
  \A r \in Request :
    req[r].phase = "confirming" /\ req'[r].phase = "sent" =>
      LET q == req[r] IN
      /\ q.models # NoLimit => Verdict(models, Effective(q.session))
      /\ q.presets # NoLimit => presets = NoLimit \/ presetOf[q.session] \in presets

(* With no selection and no frame under way the record of a session, once  *)
(* there is one, is the host's selection.  The comment at gateway.ts:1935  *)
(* has the newest one taken, by its seq; the code takes the last to come.  *)
Quiet(s) ==
  /\ \A r \in Request : req[r].session = s => req[r].kind # "selectModel"
  /\ \A i \in DOMAIN follow : follow[i].session # s

RecordIsNewest ==
  \A s \in Session : Quiet(s) /\ record[s] # Unknown => record[s] = selected[s]
=============================================================================
