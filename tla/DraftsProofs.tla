---------------------------- MODULE DraftsProofs ----------------------------
(***************************************************************************)
(* What is left of a draft after any number of overlapping edits: a        *)
(* document that fits, and, where edits did not overlap, every edit.       *)
(***************************************************************************)
EXTENDS Drafts, TLAPS

(* A request under way edits an existing draft and holds a sound record.   *)
HandlersHold ==
    \A h \in Handlers : phase[h] # "idle" =>
        /\ target[h] \in Ids /\ drafts[target[h]] # None
        /\ body[h] \in Updates
        /\ record[h] \in Draft
        /\ \A f \in Fields : record[h].fields[f] \in Allowed[f]

(* Only a request that is about to save leaves a document behind the row.  *)
StaleIsPending ==
    \A id \in Ids \ cutOff : Stale(id) => \E h \in Busy(id) : phase[h] = "save"

(* While a draft is edited by one request at a time, the request holds the *)
(* answered edits with its own on top, and the row has them or not yet.    *)
EditIsCurrent ==
    \A id \in Ids \ disturbed : \A h \in Busy(id) :
        /\ Busy(id) = {h}
        /\ record[h].fields = Edited(answered[id], body[h])
        /\ phase[h] = "update" => drafts[id].fields = answered[id]

DraftsInv ==
    /\ TypeOK
    /\ HandlersHold
    /\ StaleIsPending
    /\ EditIsCurrent
    /\ EditsSurvive

-----------------------------------------------------------------------------
LEMMA RenderedIsCurrent ==
    ASSUME NEW draft \in Draft
    PROVE  /\ WithDocument(draft) \in Draft
           /\ WithDocument(draft).fields = draft.fields
           /\ WithDocument(draft).yaml = Render(WithDocument(draft))
<1>1. Render(draft) \in Document
    BY DEF Render, Document, Draft
<1>2. WithDocument(draft) \in Draft
    BY <1>1 DEF WithDocument, Draft
<1>3. /\ WithDocument(draft).fields = draft.fields
      /\ WithDocument(draft).plan = draft.plan
      /\ WithDocument(draft).yaml = Render(draft)
    BY DEF WithDocument, Draft
<1> QED
    BY <1>2, <1>3 DEF Render

LEMMA EditedIsAllowed ==
    ASSUME NEW fields \in [Fields -> Values], NEW update \in Updates, Valid(update),
           \A f \in Fields : fields[f] \in Allowed[f]
    PROVE  /\ Edited(fields, update) \in [Fields -> Values]
           /\ \A f \in Fields : Edited(fields, update)[f] \in Allowed[f]
<1>1. PICK S \in SUBSET Fields : update \in [S -> Values]
    BY DraftsAssumption
<1> QED
    BY <1>1 DEF Edited, Valid

(* The table and the requests stay well typed.                             *)
LEMMA TypeStep ==
    TypeOK /\ HandlersHold /\ [Next]_vars => TypeOK' /\ HandlersHold'
<1> USE DEF vars, handlerVars, historyVars
<1> SUFFICES ASSUME TypeOK, HandlersHold, [Next]_vars PROVE TypeOK' /\ HandlersHold'
    OBVIOUS
<1>0. None \notin Draft
    BY DraftsAssumption DEF Draft
<1>1. ASSUME NEW id \in Ids, Create(id) PROVE TypeOK' /\ HandlersHold'
  <2>1. PICK draft \in Generated :
          /\ drafts' = [drafts EXCEPT ![id] = [fields |-> draft.fields, plan |-> draft.plan,
                                                yaml |-> Render(draft)]]
          /\ answered' = [answered EXCEPT ![id] = draft.fields]
      BY <1>1 DEF Create
  <2>2. /\ draft.fields \in [Fields -> Values] /\ draft.plan \in Plans
        /\ Render(draft) \in Document
        /\ \A f \in Fields : draft.fields[f] \in Allowed[f]
      BY DraftsAssumption DEF Document, Render
  <2> DEFINE stored == [fields |-> draft.fields, plan |-> draft.plan, yaml |-> Render(draft)]
  <2>3. /\ stored \in Draft /\ stored.fields = draft.fields
      BY <2>2 DEF Draft
  <2>4. stored # None
      BY <1>0, <2>3
  <2>5. drafts' = [drafts EXCEPT ![id] = stored]
      BY <2>1
  <2> HIDE DEF stored
  <2>6. TypeOK'
      BY <1>1, <2>1, <2>2, <2>3, <2>5 DEF Create, TypeOK
  <2>7. HandlersHold'
      BY <1>1, <2>4, <2>5 DEF Create, HandlersHold, TypeOK
  <2> QED
      BY <2>6, <2>7
<1>2. ASSUME NEW h \in Handlers, NEW id \in Ids, NEW update \in Updates, Read(h, id, update)
      PROVE  TypeOK' /\ HandlersHold'
  <2> DEFINE held == [fields |-> Edited(drafts[id].fields, update),
                      plan   |-> drafts[id].plan, yaml |-> drafts[id].yaml]
  <2>1. drafts[id] \in Draft /\ \A f \in Fields : drafts[id].fields[f] \in Allowed[f]
      BY <1>2 DEF Read, TypeOK
  <2>2. /\ Edited(drafts[id].fields, update) \in [Fields -> Values]
        /\ \A f \in Fields : Edited(drafts[id].fields, update)[f] \in Allowed[f]
    <3>1. drafts[id].fields \in [Fields -> Values]
        BY <2>1 DEF Draft
    <3> QED
        BY <1>2, <2>1, <3>1, EditedIsAllowed DEF Read
  <2>3. held \in Draft /\ held.fields = Edited(drafts[id].fields, update)
      BY <2>1, <2>2 DEF Draft
  <2>4. record' = [record EXCEPT ![h] = held]
      BY <1>2 DEF Read
  <2> HIDE DEF held
  <2>5. TypeOK'
      BY <1>2, <2>3, <2>4 DEF Read, TypeOK
  <2>6. HandlersHold'
      BY <1>2, <2>2, <2>3, <2>4 DEF Read, HandlersHold, TypeOK
  <2> QED
      BY <2>5, <2>6
<1>3. ASSUME NEW h \in Handlers, NEW draft \in Draft, phase[h] # "idle",
             \A f \in Fields : draft.fields[f] \in Allowed[f],
             drafts' = [drafts EXCEPT ![target[h]] = draft]
      PROVE  /\ drafts' \in [Ids -> Draft \cup {None}]
             /\ \A id \in Ids : drafts'[id] # None =>
                  \A f \in Fields : drafts'[id].fields[f] \in Allowed[f]
             /\ \A id \in Ids : drafts[id] # None <=> drafts'[id] # None
    BY <1>0, <1>3 DEF TypeOK, HandlersHold
<1>4. ASSUME NEW h \in Handlers, Update(h) PROVE TypeOK' /\ HandlersHold'
  <2>1. phase[h] # "idle" /\ drafts' = [drafts EXCEPT ![target[h]] = record[h]]
        /\ record[h] \in Draft /\ \A f \in Fields : record[h].fields[f] \in Allowed[f]
      BY <1>4 DEF Update, HandlersHold
  <2>2. /\ drafts' \in [Ids -> Draft \cup {None}]
        /\ \A id \in Ids : drafts'[id] # None =>
             \A f \in Fields : drafts'[id].fields[f] \in Allowed[f]
        /\ \A id \in Ids : drafts[id] # None <=> drafts'[id] # None
      BY <1>3, <2>1
  <2>3. TypeOK'
      BY <1>4, <2>2 DEF Update, TypeOK
  <2>4. HandlersHold'
      BY <1>4, <2>1, <2>2 DEF Update, TypeOK, HandlersHold
  <2> QED
      BY <2>3, <2>4
<1>5. ASSUME NEW h \in Handlers, Finish(h), phase[h] # "idle",
             \/ drafts' = drafts
             \/ drafts' = [drafts EXCEPT ![target[h]] = record[h]]
             \/ drafts' = [drafts EXCEPT ![target[h]] = WithDocument(record[h])]
      PROVE  /\ drafts' \in [Ids -> Draft \cup {None}]
             /\ \A id \in Ids : drafts'[id] # None =>
                  \A f \in Fields : drafts'[id].fields[f] \in Allowed[f]
             /\ \A id \in Ids : drafts[id] # None <=> drafts'[id] # None
             /\ HandlersHold'
  <2>1. record[h] \in Draft /\ \A f \in Fields : record[h].fields[f] \in Allowed[f]
      BY <1>5 DEF HandlersHold
  <2>2. /\ WithDocument(record[h]) \in Draft
        /\ \A f \in Fields : WithDocument(record[h]).fields[f] \in Allowed[f]
      BY <2>1, RenderedIsCurrent
  <2>3. /\ drafts' \in [Ids -> Draft \cup {None}]
        /\ \A id \in Ids : drafts'[id] # None =>
             \A f \in Fields : drafts'[id].fields[f] \in Allowed[f]
        /\ \A id \in Ids : drafts[id] # None <=> drafts'[id] # None
      BY <1>3, <1>5, <2>1, <2>2 DEF TypeOK
  <2>4. HandlersHold'
      BY <1>5, <2>3 DEF Finish, HandlersHold, TypeOK
  <2> QED
      BY <2>3, <2>4
<1>6. ASSUME NEW h \in Handlers, Save(h) PROVE TypeOK' /\ HandlersHold'
  <2>1. /\ drafts' \in [Ids -> Draft \cup {None}]
        /\ \A id \in Ids : drafts'[id] # None =>
             \A f \in Fields : drafts'[id].fields[f] \in Allowed[f]
        /\ \A id \in Ids : drafts[id] # None <=> drafts'[id] # None
        /\ HandlersHold'
      BY <1>5, <1>6 DEF Save
  <2>2. target[h] \in Ids /\ answered[target[h]] \in [Fields -> Values]
        /\ body[h] \in Updates
      BY <1>6 DEF Save, HandlersHold, TypeOK
  <2> DEFINE edited == [f \in Fields |-> IF f \in DOMAIN body[h] THEN body[h][f]
                                        ELSE answered[target[h]][f]]
  <2>3. edited \in [Fields -> Values]
    <3>1. PICK S \in SUBSET Fields : body[h] \in [S -> Values]
        BY <2>2, DraftsAssumption
    <3> QED
        BY <2>2, <3>1
  <2>4. answered' = [answered EXCEPT ![target[h]] = edited]
      BY <1>6 DEF Save
  <2> HIDE DEF edited
  <2> QED
      BY <1>6, <2>1, <2>2, <2>3, <2>4 DEF Save, Finish, TypeOK
<1>7. ASSUME NEW h \in Handlers, Fail(h) PROVE TypeOK' /\ HandlersHold'
  <2>1. /\ drafts' \in [Ids -> Draft \cup {None}]
        /\ \A id \in Ids : drafts'[id] # None =>
             \A f \in Fields : drafts'[id].fields[f] \in Allowed[f]
        /\ \A id \in Ids : drafts[id] # None <=> drafts'[id] # None
        /\ HandlersHold'
      BY <1>5, <1>7 DEF Fail
  <2>2. target[h] \in Ids
      BY <1>7 DEF Fail, HandlersHold
  <2> QED
      BY <1>7, <2>1, <2>2 DEF Fail, Finish, TypeOK
<1>8. CASE UNCHANGED vars
    BY <1>8 DEF TypeOK, HandlersHold
<1> QED
    BY <1>1, <1>2, <1>4, <1>6, <1>7, <1>8 DEF Next, Proceed

-----------------------------------------------------------------------------
(* A write that makes a document stale belongs to a request about to save. *)
LEMMA StaleStep ==
    TypeOK /\ HandlersHold /\ StaleIsPending /\ [Next]_vars => StaleIsPending'
<1> USE DEF vars, handlerVars, historyVars
<1> SUFFICES ASSUME TypeOK, HandlersHold, StaleIsPending, [Next]_vars PROVE StaleIsPending'
    OBVIOUS
<1>1. ASSUME NEW id \in Ids, Create(id) PROVE StaleIsPending'
  <2>1. PICK draft \in Generated :
          drafts' = [drafts EXCEPT ![id] = [fields |-> draft.fields, plan |-> draft.plan,
                                             yaml |-> Render(draft)]]
      BY <1>1 DEF Create
  <2>2. drafts'[id].yaml = Render(drafts'[id])
      BY <2>1 DEF TypeOK, Render
  <2>3. \A other \in Ids \ {id} : drafts'[other] = drafts[other]
      BY <2>1 DEF TypeOK
  <2> QED
      BY <1>1, <2>2, <2>3 DEF Create, StaleIsPending, Stale, Busy
<1>2. ASSUME NEW h \in Handlers, NEW id \in Ids, NEW update, Read(h, id, update)
      PROVE  StaleIsPending'
    BY <1>2 DEF Read, StaleIsPending, Stale, Busy, TypeOK
<1>3. ASSUME NEW h \in Handlers, Update(h) PROVE StaleIsPending'
  <2>1. /\ target[h] \in Ids /\ phase'[h] = "save" /\ target' = target
        /\ \A g \in Handlers : phase[g] = "save" => phase'[g] = "save"
        /\ \A other \in Ids \ {target[h]} : drafts'[other] = drafts[other]
        /\ cutOff' = cutOff
      BY <1>3 DEF Update, HandlersHold, TypeOK
  <2>2. ASSUME NEW id \in Ids, id \notin cutOff', drafts'[id] # None,
               drafts'[id].yaml # Render(drafts'[id])
        PROVE  \E g \in Busy(id)' : phase'[g] = "save"
    <3>1. CASE id = target[h]
        BY <2>1, <3>1 DEF Busy
    <3>2. CASE id # target[h]
      <4>1. Stale(id)
          BY <2>1, <2>2, <3>2 DEF Stale
      <4>2. PICK g \in Handlers : phase[g] = "save" /\ target[g] = id
          BY <2>1, <2>2, <4>1 DEF StaleIsPending, Busy
      <4> QED
          BY <2>1, <4>2 DEF Busy
    <3> QED
        BY <3>1, <3>2
  <2> QED
      BY <2>2 DEF StaleIsPending, Stale
<1>4. ASSUME NEW h \in Handlers, Finish(h), target[h] \in Ids,
             \A other \in Ids \ {target[h]} : drafts'[other] = drafts[other],
             \A other \in Ids \ {target[h]} : other \in cutOff' <=> other \in cutOff,
             \/ target[h] \in cutOff'
             \/ phase[h] = "update" /\ drafts' = drafts /\ cutOff' = cutOff
             \/ drafts'[target[h]].yaml = Render(drafts'[target[h]])
      PROVE  StaleIsPending'
  <2>1. \A g \in Handlers \ {h} : phase'[g] = phase[g] /\ target'[g] = target[g]
      BY <1>4 DEF Finish, TypeOK
  <2>2. ASSUME NEW id \in Ids, id \notin cutOff', drafts'[id] # None,
               drafts'[id].yaml # Render(drafts'[id])
        PROVE  \E g \in Busy(id)' : phase'[g] = "save"
    <3>1. \/ id # target[h]
          \/ phase[h] = "update" /\ drafts' = drafts /\ cutOff' = cutOff
        BY <1>4, <2>2
    <3>2. id \notin cutOff /\ Stale(id)
        BY <1>4, <2>2, <3>1 DEF Stale
    <3>3. PICK g \in Handlers : phase[g] = "save" /\ target[g] = id
        BY <3>2 DEF StaleIsPending, Busy
    <3>4. g # h
        BY <3>1, <3>3
    <3> QED
        BY <2>1, <3>3, <3>4 DEF Busy
  <2> QED
      BY <2>2 DEF StaleIsPending, Stale
<1>5. ASSUME NEW h \in Handlers, phase[h] # "idle",
             drafts' = [drafts EXCEPT ![target[h]] = WithDocument(record[h])]
      PROVE  drafts'[target[h]].yaml = Render(drafts'[target[h]])
  <2>1. drafts'[target[h]] = WithDocument(record[h]) /\ record[h] \in Draft
      BY <1>5 DEF HandlersHold, TypeOK
  <2> QED
      BY <2>1, RenderedIsCurrent
<1>6. ASSUME NEW h \in Handlers, Save(h) PROVE StaleIsPending'
  <2>1. target[h] \in Ids
      BY <1>6 DEF Save, HandlersHold
  <2>2. drafts'[target[h]].yaml = Render(drafts'[target[h]])
      BY <1>5, <1>6 DEF Save
  <2>3. \A other \in Ids \ {target[h]} : drafts'[other] = drafts[other]
      BY <1>6 DEF Save, TypeOK
  <2> QED
      BY <1>4, <1>6, <2>1, <2>2, <2>3 DEF Save
<1>7. ASSUME NEW h \in Handlers, Fail(h) PROVE StaleIsPending'
  <2>1. target[h] \in Ids
      BY <1>7 DEF Fail, HandlersHold
  <2>2. \A other \in Ids \ {target[h]} : drafts'[other] = drafts[other]
      BY <1>7 DEF Fail, TypeOK
  <2>3. \A other \in Ids \ {target[h]} : other \in cutOff' <=> other \in cutOff
      BY <1>7 DEF Fail
  <2>4. \/ target[h] \in cutOff'
        \/ phase[h] = "update" /\ drafts' = drafts /\ cutOff' = cutOff
        \/ drafts'[target[h]].yaml = Render(drafts'[target[h]])
      BY <1>5, <1>7 DEF Fail
  <2> QED
      BY <1>4, <1>7, <2>1, <2>2, <2>3, <2>4 DEF Fail
<1>8. CASE UNCHANGED vars
    BY <1>8 DEF StaleIsPending, Stale, Busy
<1> QED
    BY <1>1, <1>2, <1>3, <1>6, <1>7, <1>8 DEF Next, Proceed

(* Without overlap the record in a request's hands stays current.          *)
LEMMA EditStep ==
    TypeOK /\ HandlersHold /\ EditIsCurrent /\ EditsSurvive /\ [Next]_vars
    => EditIsCurrent' /\ EditsSurvive'
<1> USE DEF vars, handlerVars, historyVars
<1> SUFFICES ASSUME TypeOK, HandlersHold, EditIsCurrent, EditsSurvive, [Next]_vars
             PROVE  EditIsCurrent' /\ EditsSurvive'
    OBVIOUS
<1>1. ASSUME NEW id \in Ids, Create(id) PROVE EditIsCurrent' /\ EditsSurvive'
  <2>1. Busy(id) = {}
      BY <1>1 DEF Create, HandlersHold, Busy
  <2>2. drafts'[id].fields = answered'[id]
      BY <1>1 DEF Create, TypeOK
  <2>3. \A other \in Ids \ {id} :
          drafts'[other] = drafts[other] /\ answered'[other] = answered[other]
      BY <1>1 DEF Create, TypeOK
  <2> QED
      BY <1>1, <2>1, <2>2, <2>3 DEF Create, EditIsCurrent, EditsSurvive, Busy
<1>2. ASSUME NEW h \in Handlers, NEW id \in Ids, NEW update, Read(h, id, update)
      PROVE  EditIsCurrent' /\ EditsSurvive'
  <2>1. /\ phase' = [phase EXCEPT ![h] = "update"] /\ target' = [target EXCEPT ![h] = id]
        /\ drafts' = drafts /\ answered' = answered /\ phase[h] = "idle" /\ drafts[id] # None
        /\ disturbed' = IF Busy(id) # {} THEN disturbed \cup {id} ELSE disturbed
      BY <1>2 DEF Read
  <2>2. \A g \in Handlers \ {h} :
          /\ phase'[g] = phase[g] /\ target'[g] = target[g]
          /\ body'[g] = body[g] /\ record'[g] = record[g]
      BY <1>2 DEF Read, TypeOK
  <2>3. /\ phase'[h] = "update" /\ target'[h] = id /\ body'[h] = update
        /\ record'[h].fields = Edited(drafts[id].fields, update)
      BY <1>2 DEF Read, TypeOK
  <2>4. Busy(id)' = Busy(id) \cup {h}
      BY <2>1, <2>2, <2>3 DEF Busy
  <2>5. \A other \in Ids \ {id} : Busy(other)' = Busy(other)
      BY <2>1, <2>2, <2>3 DEF Busy
  <2>6. \A other \in Ids : h \notin Busy(other)
      BY <2>1 DEF Busy
  <2>7. ASSUME id \notin disturbed' PROVE Busy(id) = {} /\ drafts[id].fields = answered[id]
      BY <2>1, <2>7 DEF EditsSurvive
  <2>8. EditIsCurrent'
    <3> SUFFICES ASSUME NEW other \in Ids \ disturbed', NEW g \in Busy(other)'
                 PROVE  /\ Busy(other)' = {g}
                        /\ record'[g].fields = Edited(answered'[other], body'[g])
                        /\ phase'[g] = "update" => drafts'[other].fields = answered'[other]
        BY DEF EditIsCurrent, Edited
    <3>1. CASE other = id
        BY <2>1, <2>3, <2>4, <2>7, <3>1
    <3>2. CASE other # id
      <4>1. other \in Ids \ disturbed /\ g \in Busy(other) /\ g \in Handlers \ {h}
          BY <2>1, <2>5, <2>6, <3>2 DEF Busy
      <4>2. /\ Busy(other) = {g}
            /\ record[g].fields = Edited(answered[other], body[g])
            /\ phase[g] = "update" => drafts[other].fields = answered[other]
          BY <4>1 DEF EditIsCurrent
      <4> QED
          BY <2>1, <2>2, <2>5, <3>2, <4>1, <4>2
    <3> QED
        BY <3>1, <3>2
  <2>9. EditsSurvive'
      BY <2>1, <2>4, <2>5 DEF EditsSurvive
  <2> QED
      BY <2>8, <2>9
<1>3. ASSUME NEW h \in Handlers, Update(h) PROVE EditIsCurrent' /\ EditsSurvive'
  <2>1. PICK t \in Ids : target[h] = t
      BY <1>3 DEF Update, HandlersHold
  <2>2. /\ \A id \in Ids : Busy(id)' = Busy(id)
        /\ h \in Busy(t) /\ phase'[h] = "save"
        /\ \A g \in Handlers \ {h} : phase'[g] = phase[g]
        /\ \A id \in Ids \ {t} : drafts'[id] = drafts[id]
        /\ UNCHANGED <<body, record, answered, disturbed>>
      BY <1>3, <2>1 DEF Update, Busy, TypeOK
  <2>3. EditIsCurrent'
    <3> SUFFICES ASSUME NEW id \in Ids \ disturbed', NEW g \in Busy(id)'
                 PROVE  /\ Busy(id)' = {g}
                        /\ record'[g].fields = Edited(answered'[id], body'[g])
                        /\ phase'[g] = "update" => drafts'[id].fields = answered'[id]
        BY DEF EditIsCurrent, Edited
    <3>1. /\ Busy(id) = {g} /\ g \in Handlers
          /\ record[g].fields = Edited(answered[id], body[g])
          /\ phase[g] = "update" => drafts[id].fields = answered[id]
        BY <2>2 DEF EditIsCurrent, Busy
    <3> QED
        BY <2>2, <3>1
  <2>4. EditsSurvive'
      BY <2>2 DEF EditsSurvive
  <2> QED
      BY <2>3, <2>4
<1>4. ASSUME NEW h \in Handlers, NEW t \in Ids, target[h] = t, Finish(h), h \in Busy(t),
             \A id \in Ids \ {t} :
               /\ drafts'[id] = drafts[id] /\ answered'[id] = answered[id]
               /\ id \in disturbed' <=> id \in disturbed,
             disturbed \subseteq disturbed',
             t \notin disturbed' => drafts'[t].fields = answered'[t]
      PROVE  EditIsCurrent' /\ EditsSurvive'
  <2>1. \A g \in Handlers \ {h} :
          /\ phase'[g] = phase[g] /\ target'[g] = target[g]
          /\ body'[g] = body[g] /\ record'[g] = record[g]
      BY <1>4 DEF Finish, TypeOK
  <2>2. phase'[h] = "idle"
      BY <1>4 DEF Finish, TypeOK
  <2>3. \A id \in Ids : Busy(id)' = Busy(id) \ {h}
      BY <2>1, <2>2 DEF Busy
  <2>4. \A id \in Ids \ {t} : h \notin Busy(id)
      BY <1>4 DEF Busy
  <2>5. t \in Ids \ disturbed' => Busy(t)' = {}
      BY <1>4, <2>3 DEF EditIsCurrent
  <2>6. EditIsCurrent'
    <3> SUFFICES ASSUME NEW id \in Ids \ disturbed', NEW g \in Busy(id)'
                 PROVE  /\ Busy(id)' = {g}
                        /\ record'[g].fields = Edited(answered'[id], body'[g])
                        /\ phase'[g] = "update" => drafts'[id].fields = answered'[id]
        BY DEF EditIsCurrent, Edited
    <3>1. id # t
        BY <2>5
    <3>2. id \in Ids \ disturbed /\ g \in Busy(id) /\ g \in Handlers \ {h}
        BY <1>4, <2>3, <3>1 DEF Busy
    <3>3. /\ Busy(id) = {g}
          /\ record[g].fields = Edited(answered[id], body[g])
          /\ phase[g] = "update" => drafts[id].fields = answered[id]
        BY <3>2 DEF EditIsCurrent
    <3> QED
        BY <1>4, <2>1, <2>3, <2>4, <3>1, <3>2, <3>3
  <2>7. EditsSurvive'
      BY <1>4, <2>3, <2>4 DEF EditsSurvive
  <2> QED
      BY <2>6, <2>7
<1>5. ASSUME NEW h \in Handlers, phase[h] # "idle"
      PROVE  /\ h \in Busy(target[h]) /\ target[h] \in Ids /\ record[h] \in Draft
             /\ target[h] \notin disturbed =>
                  /\ record[h].fields = Edited(answered[target[h]], body[h])
                  /\ phase[h] = "update" =>
                       drafts[target[h]].fields = answered[target[h]]
    BY <1>5 DEF Busy, HandlersHold, EditIsCurrent
<1>6. ASSUME NEW h \in Handlers, Save(h) PROVE EditIsCurrent' /\ EditsSurvive'
  <2>1. phase[h] # "idle"
      BY <1>6 DEF Save
  <2>2. PICK t \in Ids : target[h] = t
      BY <2>1 DEF HandlersHold
  <2>3. drafts'[t] = WithDocument(record[h])
      BY <2>2, <1>5, <1>6, <2>1 DEF Save, TypeOK
  <2>4. drafts'[t].fields = record[h].fields
      BY <2>2, <1>5, <2>1, <2>3, RenderedIsCurrent
  <2>5. answered'[t] = Edited(answered[t], body[h])
      BY <2>2, <1>5, <1>6, <2>1 DEF Save, Edited, TypeOK
  <2>6. \A id \in Ids \ {t} :
          drafts'[id] = drafts[id] /\ answered'[id] = answered[id]
      BY <2>2, <1>6 DEF Save, TypeOK
  <2>7. disturbed' = disturbed
      BY <2>2, <1>6 DEF Save
  <2>8. t \notin disturbed' => drafts'[t].fields = answered'[t]
      BY <2>2, <1>5, <2>1, <2>4, <2>5, <2>7
  <2>9. Finish(h) /\ h \in Busy(t)
      BY <2>2, <1>5, <1>6, <2>1 DEF Save
  <2> QED
      BY <2>2, <1>4, <2>6, <2>7, <2>8, <2>9
<1>7. ASSUME NEW h \in Handlers, Fail(h) PROVE EditIsCurrent' /\ EditsSurvive'
  <2>1. phase[h] # "idle" /\ Finish(h) /\ answered' = answered
      BY <1>7 DEF Fail
  <2>2. PICK t \in Ids : target[h] = t
      BY <2>1 DEF HandlersHold
  <2>3. \A id \in Ids \ {t} : drafts'[id] = drafts[id]
      BY <2>2, <1>7 DEF Fail, TypeOK
  <2>4. \/ phase[h] = "update" /\ drafts' = drafts /\ disturbed' = disturbed
        \/ disturbed' = disturbed \cup {t}
      BY <2>2, <1>7 DEF Fail
  <2>5. t \notin disturbed' => drafts'[t].fields = answered'[t]
      BY <2>2, <1>5, <2>1, <2>4
  <2> QED
      BY <2>2, <1>4, <1>5, <2>1, <2>3, <2>4, <2>5
<1>8. CASE UNCHANGED vars
    BY <1>8 DEF EditIsCurrent, EditsSurvive, Busy
<1> QED
    BY <1>1, <1>2, <1>3, <1>6, <1>7, <1>8 DEF Next, Proceed

-----------------------------------------------------------------------------
LEMMA InitInv == Init => DraftsInv
BY DraftsAssumption
   DEF Init, DraftsInv, TypeOK, HandlersHold, StaleIsPending, Stale, EditIsCurrent,
       EditsSurvive, Busy

(* The invariant of any interleaving of edits.                             *)
THEOREM DraftsInvariant == Spec => []DraftsInv
<1>1. Init => DraftsInv
    BY InitInv
<1>2. DraftsInv /\ [Next]_vars => DraftsInv'
    BY TypeStep, StaleStep, EditStep DEF DraftsInv
<1> QED
    BY <1>1, <1>2, PTL DEF Spec

(* Only values that pass the checks are ever stored or about to be.        *)
THEOREM DraftsTypeOK == Spec => []TypeOK
<1>1. DraftsInv => TypeOK
    BY DEF DraftsInv
<1> QED
    BY <1>1, DraftsInvariant, PTL

(* At rest the stored document is that of the stored draft, for any number *)
(* of edits that overlapped before.                                        *)
THEOREM DocumentsMatch == Spec => []DocumentMatchesAtRest
<1>1. DraftsInv => DocumentMatchesAtRest
    BY DEF DraftsInv, StaleIsPending, DocumentMatchesAtRest
<1> QED
    BY <1>1, DraftsInvariant, PTL

(* Edits that do not overlap are applied one on top of the other.          *)
THEOREM EditsAreKept == Spec => []EditsSurvive
<1>1. DraftsInv => EditsSurvive
    BY DEF DraftsInv
<1> QED
    BY <1>1, DraftsInvariant, PTL
=============================================================================
