-------------------------------- MODULE Drafts --------------------------------
(***************************************************************************)
(* A stored draft and its document.  PUT /drafts/{id} is DraftService.     *)
(* Update (a Get, the edit, a whole-record Update), a rendering of what    *)
(* was written and a second whole-record Update, Save, with the document   *)
(* (internal/api/draft_handler.go, internal/registry/draft_service.go).    *)
(* One action is one repository call with the local computation after it;  *)
(* requests interleave between the calls.                                  *)
(***************************************************************************)
EXTENDS Naturals, FiniteSets

CONSTANTS
    Ids,          \* ids of drafts
    Handlers,     \* requests that may be under way at once
    Fields,       \* what a PUT may set: name, description, goal, harness, status
    Values,       \* what clients send for them
    Allowed,      \* Allowed[f]: the values that pass the checks on f
    Updates,      \* bodies of PUTs: functions from some of the fields
    Plans,        \* compositions, with their governance
    Generated,    \* [fields, plan] records GenerateDraft may come up with
    MaxFailures,  \* bound on the calls that fail
    None          \* no draft, no update

Document == [fields : [Fields -> Values], plan : Plans]

ASSUME DraftsAssumption ==
    /\ Allowed \in [Fields -> SUBSET Values]
    /\ Updates \subseteq UNION {[S -> Values] : S \in SUBSET Fields}
    /\ Generated \subseteq Document
    /\ \A g \in Generated : \A f \in Fields : g.fields[f] \in Allowed[f]
    /\ MaxFailures \in Nat
    /\ None \notin Ids
    /\ None \notin [fields : [Fields -> Values], plan : Plans, yaml : Document]

Draft == [fields : [Fields -> Values], plan : Plans, yaml : Document]

VARIABLES
    drafts,    \* table business_agent_drafts: drafts[id], or None
    phase,     \* the call request h is about to make
    target,    \* the draft it edits
    body,      \* what its client sent
    record,    \* the record it has read and edited
    failures

handlerVars == <<phase, target, body, record>>

(* History, for the properties only: what a draft's fields are when edits  *)
(* are applied one by one as they are answered; the drafts with edits that *)
(* overlapped or ended half way; those whose last request ended between    *)
(* its two writes.                                                         *)
VARIABLES answered, disturbed, cutOff

historyVars == <<answered, disturbed, cutOff>>
vars == <<drafts, handlerVars, failures, historyVars>>

-----------------------------------------------------------------------------
(* RenderDraft: the document shows every field a PUT may set.              *)
Render(draft) == [fields |-> draft.fields, plan |-> draft.plan]

OneFieldOnly(fields, update) ==  \* mutant
    [f \in Fields |-> IF DOMAIN update = {f} THEN update[f] ELSE fields[f]]

Edited(fields, update) ==
    [f \in Fields |-> IF f \in DOMAIN update THEN update[f] ELSE fields[f]]

Unchecked(update) == TRUE  \* mutant

Valid(update) == \A f \in DOMAIN update : update[f] \in Allowed[f]

Busy(id) == {h \in Handlers : phase[h] # "idle" /\ target[h] = id}

Init ==
    /\ drafts = [id \in Ids |-> None]
    /\ phase = [h \in Handlers |-> "idle"]
    /\ target = [h \in Handlers |-> None]
    /\ body = [h \in Handlers |-> None]
    /\ record = [h \in Handlers |-> None]
    /\ failures = 0
    /\ answered = [id \in Ids |-> None]
    /\ disturbed = {}
    /\ cutOff = {}

(* POST /drafts: rendered first, then inserted.  Composition says when.    *)
Create(id) ==
    /\ drafts[id] = None
    /\ \E draft \in Generated :
         /\ drafts' = [drafts EXCEPT ![id] = [fields |-> draft.fields, plan |-> draft.plan,
                                               yaml |-> Render(draft)]]
         /\ answered' = [answered EXCEPT ![id] = draft.fields]
    /\ UNCHANGED <<handlerVars, failures, disturbed, cutOff>>

(* DraftService.Update up to the repository's Update: an edit that does    *)
(* not pass the checks changes nothing.                                    *)
Read(h, id, update) ==
    /\ phase[h] = "idle"
    /\ drafts[id] # None
    /\ Valid(update)
    /\ phase' = [phase EXCEPT ![h] = "update"]
    /\ target' = [target EXCEPT ![h] = id]
    /\ body' = [body EXCEPT ![h] = update]
    /\ record' = [record EXCEPT ![h] =
                    [fields |-> Edited(drafts[id].fields, update),
                     plan   |-> drafts[id].plan,
                     yaml   |-> drafts[id].yaml]]
    /\ disturbed' = IF Busy(id) # {} THEN disturbed \cup {id} ELSE disturbed
    /\ UNCHANGED <<drafts, failures, answered, cutOff>>

Finish(h) ==
    /\ phase' = [phase EXCEPT ![h] = "idle"]
    /\ target' = [target EXCEPT ![h] = None]
    /\ body' = [body EXCEPT ![h] = None]
    /\ record' = [record EXCEPT ![h] = None]

NotForStatus(h) ==  \* mutant
    /\ phase[h] = "update"
    /\ drafts' = [drafts EXCEPT ![target[h]] = record[h]]
    /\ IF DOMAIN body[h] = {"status"}
       THEN Finish(h)
       ELSE phase' = [phase EXCEPT ![h] = "save"] /\ UNCHANGED <<target, body, record>>
    /\ UNCHANGED <<failures, historyVars>>

(* Its whole-record Update, the old document included, which the stored    *)
(* draft keeps until Save.                                                 *)
Update(h) ==
    /\ phase[h] = "update"
    /\ phase' = [phase EXCEPT ![h] = "save"]
    /\ drafts' = [drafts EXCEPT ![target[h]] = record[h]]
    /\ UNCHANGED <<target, body, record, failures, historyVars>>

AsStored(draft) == draft  \* mutant

WithDocument(draft) == [draft EXCEPT !.yaml = Render(draft)]

(* DraftService.Save of the record that Update returned, rendered anew.    *)
Save(h) ==
    /\ phase[h] = "save"
    /\ drafts' = [drafts EXCEPT ![target[h]] = WithDocument(record[h])]
    /\ answered' = [answered EXCEPT ![target[h]] =
                      [f \in Fields |-> IF f \in DOMAIN body[h] THEN body[h][f]
                                        ELSE answered[target[h]][f]]]
    /\ cutOff' = cutOff \ {target[h]}
    /\ Finish(h)
    /\ UNCHANGED <<failures, disturbed>>

(* A call fails, the client goes away or the server dies.  The write may   *)
(* have been committed: the components are read back after it.             *)
Fail(h) ==
    /\ phase[h] # "idle"
    /\ failures < MaxFailures
    /\ failures' = failures + 1
    /\ \/ /\ phase[h] = "update"
          /\ UNCHANGED <<drafts, disturbed, cutOff>>
       \/ /\ phase[h] = "update"
          /\ drafts' = [drafts EXCEPT ![target[h]] = record[h]]
          /\ disturbed' = disturbed \cup {target[h]}
          /\ cutOff' = cutOff \cup {target[h]}
       \/ /\ phase[h] = "save"
          /\ disturbed' = disturbed \cup {target[h]}
          /\ cutOff' = cutOff \cup {target[h]}
          /\ UNCHANGED drafts
       \/ /\ phase[h] = "save"
          /\ drafts' = [drafts EXCEPT ![target[h]] = WithDocument(record[h])]
          /\ disturbed' = disturbed \cup {target[h]}
          /\ cutOff' = cutOff \ {target[h]}
    /\ Finish(h)
    /\ UNCHANGED answered

Proceed(h) == Update(h) \/ Save(h)

Next ==
    \/ \E id \in Ids : Create(id)
    \/ \E h \in Handlers :
         \/ \E id \in Ids, update \in Updates : Read(h, id, update)
         \/ Proceed(h)
         \/ Fail(h)

(* A request under way runs on.                                            *)
Spec == Init /\ [][Next]_vars /\ \A h \in Handlers : WF_vars(Proceed(h))

-----------------------------------------------------------------------------
(* The table and the requests hold what passed the checks.                 *)
TypeOK ==
    /\ drafts \in [Ids -> Draft \cup {None}]
    /\ \A id \in Ids : drafts[id] # None =>
         \A f \in Fields : drafts[id].fields[f] \in Allowed[f]
    /\ phase \in [Handlers -> {"idle", "update", "save"}]
    /\ target \in [Handlers -> Ids \cup {None}]
    /\ body \in [Handlers -> Updates \cup {None}]
    /\ record \in [Handlers -> Draft \cup {None}]
    /\ failures \in Nat
    /\ answered \in [Ids -> [Fields -> Values] \cup {None}]
    /\ \A id \in Ids : drafts[id] # None => answered[id] \in [Fields -> Values]
    /\ disturbed \subseteq Ids /\ cutOff \subseteq Ids

Stale(id) == drafts[id] # None /\ drafts[id].yaml # Render(drafts[id])

(* However edits overlap and overwrite each other, once none is under way  *)
(* the stored document is that of the stored draft, unless a request ended *)
(* between its two writes and no other has saved since ("Renaming or       *)
(* retargeting a draft changes its document, so re-render and store it",   *)
(* api/draft_handler.go:74).                                               *)
DocumentMatchesAtRest ==
    \A id \in Ids \ cutOff : Busy(id) = {} => ~Stale(id)

(* A draft whose edits never overlapped nor ended half way carries exactly *)
(* the edits that were answered, each on top of the one before             *)
(* (registry/draft_service.go:49-79): none is lost or half applied.        *)
EditsSurvive ==
    \A id \in Ids \ disturbed :
        drafts[id] # None /\ Busy(id) = {} => drafts[id].fields = answered[id]

(* A stale document is caught up with, unless the request that should died.*)
DocumentCatchesUp ==
    \A id \in Ids : Stale(id) ~> ~Stale(id) \/ id \in cutOff
=============================================================================
