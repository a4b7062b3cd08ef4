--------------------------- MODULE WorkspaceProofs ---------------------------
(***************************************************************************)
(* Proofs about the workspace records: what the table keeps whatever is    *)
(* sent, what the requests may rely on when they share one attempt to      *)
(* create it, and what an answer makes of a page that has moved on.        *)
(***************************************************************************)
EXTENDS Workspace, SequenceTheorems, TLAPS

(* The rows readRow never hides. *)
WholeRow == {row \in Row : row.payload.id = row.id}
Rows == SUBSET WholeRow
Unique(rows) == \A a, b \in rows : Key(a) = Key(b) => a = b

Record == [row : WholeRow, answer : Nat]
PageState ==
  [kind : Kind, form : [kind : Kind, id : Id \cup {NoId}],
   editing : [kind : Kind, id : Id] \cup {NotEditing},
   records : SUBSET Record, saving : BOOLEAN, loading : BOOLEAN, loaded : BOOLEAN,
   hasty : BOOLEAN]

OneRecord(page) ==
  /\ \A a, b \in page.records : Key(a.row) = Key(b.row) => a = b
  /\ page.editing = NotEditing => page.form.kind = page.kind
  /\ page.editing # NotEditing => page.form = page.editing

Request ==
  [by : Page \cup Script, op : {"load", "create", "update", "delete"},
   kind : Kind, id : Id \cup {NoId}, payload : Payload \cup {NoPayload},
   shown : [row : WholeRow \cup {NotEditing}, answer : Nat], at : Kind,
   stage : {"sent", "preparing", "querying", "answered"}, gone : BOOLEAN,
   status : {0, 200, 201, 400, 404, 409, 500}, rows : Rows]
OverRequest == [by : Page \cup Script, stage : {"over"}]

(* What a request under way says: a record that is created has its own id, *)
(* one that is updated has it from the check on, and an answer that tells  *)
(* of a save brings the record.                                            *)
Sound(request) ==
  /\ request.op # "load" => request.id \in Id
  /\ request.op \in {"create", "update"} => request.payload \in Payload
  /\ request.op = "create" => request.payload.id = request.id
  /\ request.stage \in {"preparing", "querying"} => IdentityKept(request)
  /\ request.op \in {"create", "update"} /\ Succeeded(request) => request.rows # {}
  /\ Unique(request.rows)

Fits(request) ==
  \/ request \in OverRequest
  \/ request \in Request /\ Sound(request)

StoreInv ==
  /\ table \subseteq WholeRow /\ Unique(table)
  /\ exists \in BOOLEAN /\ creates \in 0..MaxCreates
  /\ promise \in {"none", "pending", "fulfilled"}
  /\ promise = "fulfilled" => exists

PagesInv == ui \in [Page -> PageState] /\ \A p \in Page : OneRecord(ui[p])

RequestsInv ==
  /\ requests \in Seq(Request \cup OverRequest)
  /\ \A r \in DOMAIN requests : Fits(requests[r])

WaitingInv ==
  \A r \in DOMAIN requests :
    /\ requests[r].stage = "querying" => exists
    /\ requests[r].stage = "preparing" => promise = "pending"

(* The inductive invariant.  The properties of the table, of the shared    *)
(* promise and of the editor need each other's: an update is of one        *)
(* identity because its editor was, and a list because the table was.      *)
Inv == StoreInv /\ PagesInv /\ RequestsInv /\ WaitingInv

LEMMA InvImplies == Inv => TypeOK /\ RowsAreWhole /\ SchemaIsShared
<1> SUFFICES ASSUME Inv PROVE TypeOK /\ RowsAreWhole /\ SchemaIsShared
  OBVIOUS
<1>1. TypeOK
  BY DEF Inv, StoreInv, PagesInv, TypeOK, WholeRow, PageState
<1>2. RowsAreWhole
  BY DEF Inv, StoreInv, RowsAreWhole, Unique, WholeRow
<1>3. SchemaIsShared
  BY DEF Inv, StoreInv, WaitingInv, SchemaIsShared
<1> QED BY <1>1, <1>2, <1>3

LEMMA InitHolds == Init => Inv
<1> SUFFICES ASSUME Init PROVE Inv
  OBVIOUS
<1>1. StoreInv
  <2>1. table \subseteq WholeRow /\ Unique(table)
    BY DEF Init, Unique
  <2>2. exists \in BOOLEAN
    BY DEF Init
  <2>3. creates \in 0..MaxCreates
    BY WorkspaceAssumption DEF Init
  <2>4. promise \in {"none", "pending", "fulfilled"} /\ promise # "fulfilled"
    BY DEF Init
  <2> QED BY <2>1, <2>2, <2>3, <2>4 DEF StoreInv
<1>2. PagesInv
  <2>1. FirstKind \in Kind
    BY WorkspaceAssumption DEF FirstKind
  <2> DEFINE fresh == [kind |-> FirstKind, form |-> EmptyForm(FirstKind),
                       editing |-> NotEditing, records |-> {}, saving |-> FALSE,
                       loading |-> FALSE, loaded |-> FALSE, hasty |-> FALSE]
  <2>2. fresh \in PageState /\ OneRecord(fresh)
    BY <2>1 DEF PageState, OneRecord, EmptyForm
  <2>3. ui = [p \in Page |-> fresh]
    BY DEF Init
  <2> HIDE DEF fresh
  <2> QED BY <2>2, <2>3 DEF PagesInv
<1>3. RequestsInv /\ WaitingInv
  BY DEF Init, RequestsInv, WaitingInv
<1> QED BY <1>1, <1>2, <1>3 DEF Inv

-----------------------------------------------------------------------------
(* How the list of requests changes. *)

LEMMA NoRows == {} \in Rows /\ Unique({})
  BY DEF Rows, Unique

(* A request that is sent joins the others. *)
LEMMA SendKeeps ==
  ASSUME Inv, UNCHANGED <<exists, promise>>,
         NEW client \in Page \cup Script, NEW op \in {"load", "create", "update", "delete"},
         NEW k \in Kind, NEW id \in Id \cup {NoId}, NEW payload \in Payload \cup {NoPayload},
         NEW shown \in [row : WholeRow \cup {NotEditing}, answer : Nat], NEW at \in Kind,
         op # "load" => id \in Id,
         op \in {"create", "update"} => payload \in Payload,
         op = "create" => payload.id = id,
         Send(client, op, k, id, payload, shown, at)
  PROVE  RequestsInv' /\ WaitingInv'
<1> DEFINE new == [by |-> client, op |-> op, kind |-> k, id |-> id, payload |-> payload,
                   shown |-> shown, at |-> at, stage |-> "sent", gone |-> FALSE,
                   status |-> 0, rows |-> {}]
<1>1. new \in Request
  BY NoRows DEF Request
<1>2. Sound(new)
  BY DEF Sound, Succeeded, Unique
<1>3. new.stage = "sent"
  OBVIOUS
<1>4. requests' = Append(requests, new)
  BY DEF Send
<1> HIDE DEF new
<1>5. /\ requests' \in Seq(Request \cup OverRequest)
      /\ DOMAIN requests' = 1..(Len(requests) + 1)
      /\ \A r \in 1..Len(requests) : requests'[r] = requests[r]
      /\ requests'[Len(requests) + 1] = new
  BY <1>1, <1>4, AppendProperties DEF Inv, RequestsInv
<1>6. DOMAIN requests = 1..Len(requests) /\ Len(requests) \in Nat
  BY DEF Inv, RequestsInv
<1>7. \A r \in DOMAIN requests' : r \in DOMAIN requests \/ r = Len(requests) + 1
  BY <1>5, <1>6
<1>8. \A r \in DOMAIN requests' : Fits(requests'[r])
  BY <1>1, <1>2, <1>5, <1>6, <1>7 DEF Fits, Inv, RequestsInv
<1>9. WaitingInv'
  BY <1>3, <1>5, <1>6, <1>7 DEF Inv, WaitingInv
<1> QED BY <1>5, <1>8, <1>9 DEF RequestsInv

(* One request changes. *)
Becomes(r, q) == requests' = [requests EXCEPT ![r] = q]

LEMMA OneChanges ==
  ASSUME NEW r \in DOMAIN requests, NEW q, Becomes(r, q)
  PROVE  /\ DOMAIN requests' = DOMAIN requests
         /\ requests' = [s \in DOMAIN requests |-> requests'[s]]
         /\ \A s \in DOMAIN requests : requests'[s] = IF s = r THEN q ELSE requests[s]
  BY DEF Becomes

(* Requests change and none is added. *)
LEMMA MapKeeps ==
  ASSUME RequestsInv, DOMAIN requests' = DOMAIN requests,
         requests' = [s \in DOMAIN requests |-> requests'[s]],
         \A s \in DOMAIN requests : Fits(requests'[s])
  PROVE  RequestsInv'
<1>1. \A s \in DOMAIN requests : requests'[s] \in Request \cup OverRequest
  BY DEF Fits
<1>2. DOMAIN requests = 1..Len(requests) /\ Len(requests) \in Nat
  BY DEF RequestsInv
<1>3. requests' \in Seq(Request \cup OverRequest)
  BY <1>1, <1>2
<1> QED BY <1>3 DEF RequestsInv

LEMMA RowsOfRequest ==
  ASSUME NEW q \in Request, NEW found \in Rows
  PROVE  [q EXCEPT !.rows = found] \in Request
  BY DEF Request

(* A request that is answered. *)
LEMMA WithAnswerFits ==
  ASSUME NEW q \in Request, Sound(q),
         NEW status \in {0, 200, 201, 400, 404, 409, 500}, NEW rows \in Rows,
         Unique(rows),
         q.op \in {"create", "update"} /\ status \in {200, 201} => rows # {}
  PROVE  Fits(WithAnswer(q, status, rows)) /\ WithAnswer(q, status, rows).stage = "answered"
<1> DEFINE q1 == [q EXCEPT !.stage = "answered"]
           q2 == [q1 EXCEPT !.status = status]
           q3 == [q2 EXCEPT !.rows = rows]
<1>1. q1 \in Request /\ q1.stage = "answered"
      /\ q1.op = q.op /\ q1.id = q.id /\ q1.payload = q.payload
  BY DEF Request
<1>2. q2 = [q1 EXCEPT !.status = status] /\ q3 = [q2 EXCEPT !.rows = rows]
  OBVIOUS
<1>3. WithAnswer(q, status, rows) = q3
  BY DEF WithAnswer
<1> HIDE DEF q1, q2, q3
<1>4. q2 \in Request /\ q2.stage = "answered" /\ q2.status = status
      /\ q2.op = q.op /\ q2.id = q.id /\ q2.payload = q.payload
  BY <1>1, <1>2 DEF Request
<1>5. q3.stage = "answered" /\ q3.status = status /\ q3.rows = rows
      /\ q3.op = q.op /\ q3.id = q.id /\ q3.payload = q.payload
  BY <1>2, <1>4 DEF Request
<1>6. q3 \in Request
  BY <1>2, <1>4, RowsOfRequest
<1>7. Sound(q3)
  BY <1>5 DEF Sound, Succeeded
<1> QED BY <1>3, <1>5, <1>6, <1>7 DEF Fits

(* One request changes, and waits for the table only as long as it may. *)
LEMMA ChangeKeeps ==
  ASSUME Inv, exists' = exists, promise = "pending" => promise' = "pending",
         NEW r \in DOMAIN requests, NEW q, Fits(q), Becomes(r, q),
         q.stage = "querying" => exists, q.stage = "preparing" => promise' = "pending"
  PROVE  RequestsInv' /\ WaitingInv'
<1>1. /\ DOMAIN requests' = DOMAIN requests
      /\ requests' = [s \in DOMAIN requests |-> requests'[s]]
      /\ \A s \in DOMAIN requests : requests'[s] = IF s = r THEN q ELSE requests[s]
  BY OneChanges
<1>2. RequestsInv'
  BY <1>1, MapKeeps DEF Inv, RequestsInv
<1>3. WaitingInv'
  BY <1>1 DEF Inv, WaitingInv
<1> QED BY <1>2, <1>3

(* A request under way is answered. *)
LEMMA AnsweredKeeps ==
  ASSUME Inv, UNCHANGED <<exists, promise>>,
         NEW r \in DOMAIN requests, requests[r].stage # "over",
         NEW status \in {0, 200, 201, 400, 404, 409, 500}, NEW rows \in Rows,
         Unique(rows),
         requests[r].op \in {"create", "update"} /\ status \in {200, 201} => rows # {},
         Answered(r, status, rows)
  PROVE  RequestsInv' /\ WaitingInv'
<1>1. requests[r] \in Request /\ Sound(requests[r])
  BY DEF Inv, RequestsInv, Fits, OverRequest
<1> DEFINE q == WithAnswer(requests[r], status, rows)
<1>2. Fits(q) /\ q.stage = "answered"
  BY <1>1, WithAnswerFits
<1>3. Becomes(r, q)
  BY DEF Answered, Becomes
<1> HIDE DEF q
<1>4. q.stage # "querying" /\ q.stage # "preparing"
  BY <1>2
<1> QED BY <1>2, <1>3, <1>4, ChangeKeeps

(* What becomes of a request that waited for the table. *)
LEMMA AwaitedFits ==
  ASSUME NEW q \in Request, Sound(q), NEW outcome, IdentityKept(q)
  PROVE  /\ Fits(Awaited(q, outcome))
         /\ Awaited(q, outcome).stage = IF outcome = "fulfilled" THEN "querying" ELSE "answered"
<1>1. CASE outcome = "fulfilled"
  <2>1. Awaited(q, outcome) = [q EXCEPT !.stage = "querying"]
    BY <1>1 DEF Awaited
  <2>2. [q EXCEPT !.stage = "querying"] \in Request
    BY DEF Request
  <2>3. Sound([q EXCEPT !.stage = "querying"])
    BY DEF Sound, Succeeded, IdentityKept, Request
  <2> QED BY <1>1, <2>1, <2>2, <2>3 DEF Fits, Request
<1>2. CASE outcome # "fulfilled"
  <2>1. Awaited(q, outcome) = WithAnswer(q, 500, {})
    BY <1>2 DEF Awaited
  <2>2. Fits(WithAnswer(q, 500, {})) /\ WithAnswer(q, 500, {}).stage = "answered"
    BY NoRows, WithAnswerFits
  <2> QED BY <1>2, <2>1, <2>2
<1> QED BY <1>1, <1>2

-----------------------------------------------------------------------------
(* What the pages do. *)

LEMMA StoreKeeps == StoreInv /\ UNCHANGED server => StoreInv'
  BY DEF StoreInv, Unique, server

(* One page changes. *)
Turns(p, page) == ui' = [ui EXCEPT ![p] = page]

LEMMA TurnKeeps ==
  ASSUME PagesInv, NEW p \in Page, NEW page \in PageState, OneRecord(page), Turns(p, page)
  PROVE  PagesInv'
<1>1. ui' \in [Page -> PageState]
  BY DEF PagesInv, Turns
<1>2. \A other \in Page : ui'[other] = IF other = p THEN page ELSE ui[other]
  BY DEF PagesInv, Turns
<1> QED BY <1>1, <1>2 DEF PagesInv

LEMMA OfPage ==
  ASSUME Inv, NEW p \in Page
  PROVE  /\ ui[p] \in PageState /\ OneRecord(ui[p]) /\ ui[p].kind \in Kind
         /\ ui[p].records \subseteq Record
         /\ ui[p].editing # NotEditing => ui[p].editing.id \in Id /\ ui[p].form = ui[p].editing
<1>1. ui[p] \in PageState /\ OneRecord(ui[p])
  BY DEF Inv, PagesInv
<1>2. ui[p].editing \in [kind : Kind, id : Id] \cup {NotEditing}
  BY <1>1 DEF PageState
<1>3. ui[p].kind \in Kind /\ ui[p].records \subseteq Record
  BY <1>1 DEF PageState
<1> QED BY <1>1, <1>2, <1>3 DEF OneRecord

LEMMA NoShownIsShown == NoShown \in [row : WholeRow \cup {NotEditing}, answer : Nat]
  BY DEF NoShown

LEMMA LoadKeeps == ASSUME Inv, NEW p \in Page, Load(p) PROVE Inv'
<1> DEFINE page == [ui[p] EXCEPT !.loading = TRUE]
<1>1. page \in PageState /\ OneRecord(page)
  BY OfPage DEF PageState, OneRecord
<1>2. Turns(p, page)
  BY DEF Load, Turns
<1> HIDE DEF page
<1>3. PagesInv'
  BY <1>1, <1>2, TurnKeeps DEF Inv
<1>4. UNCHANGED server /\ UNCHANGED <<exists, promise>>
  BY DEF Load, server
<1>5. Send(p, "load", ui[p].kind, NoId, NoPayload, NoShown, ui[p].kind)
  BY DEF Load
<1>6. RequestsInv' /\ WaitingInv'
  BY <1>4, <1>5, OfPage, NoShownIsShown, SendKeeps
<1> QED BY <1>3, <1>4, <1>6, StoreKeeps DEF Inv

(* A step that leaves the server and the requests as they are. *)
LEMMA PageOnly ==
  ASSUME Inv, UNCHANGED <<server, requests>>, PagesInv'
  PROVE  Inv'
<1>1. UNCHANGED server /\ UNCHANGED <<exists, promise>> /\ UNCHANGED requests
  BY DEF server
<1>2. RequestsInv' /\ WaitingInv'
  BY <1>1 DEF Inv, RequestsInv, WaitingInv
<1> QED BY <1>1, <1>2, StoreKeeps DEF Inv

LEMMA StartNewFits ==
  ASSUME NEW page \in PageState, OneRecord(page), NEW k \in Kind
  PROVE  StartNew(page, k) \in PageState /\ OneRecord(StartNew(page, k))
  BY DEF PageState, OneRecord, StartNew, EmptyForm

(* What a page remembers of its haste is no part of what it shows. *)
LEMMA HasteFits ==
  ASSUME NEW page \in PageState, OneRecord(page), NEW hasty \in BOOLEAN
  PROVE  [page EXCEPT !.hasty = hasty] \in PageState /\ OneRecord([page EXCEPT !.hasty = hasty])
  BY DEF PageState, OneRecord

LEMMA GoesOnFits ==
  ASSUME Inv, NEW p \in Page
  PROVE  /\ GoesOn(p) \in PageState /\ OneRecord(GoesOn(p))
         /\ GoesOn(p).kind = ui[p].kind /\ GoesOn(p).editing = ui[p].editing
         /\ GoesOn(p).form = ui[p].form /\ GoesOn(p).records = ui[p].records
         /\ GoesOn(p).loaded = ui[p].loaded
         /\ GoesOn(p).hasty <=> ui[p].hasty \/ Busy(p)
<1>1. ui[p] \in PageState /\ OneRecord(ui[p])
  BY OfPage
<1>2. PICK hasty \in BOOLEAN : hasty = (ui[p].hasty \/ Busy(p))
  OBVIOUS
<1>3. GoesOn(p) = [ui[p] EXCEPT !.hasty = hasty]
  BY <1>1, <1>2 DEF GoesOn, PageState
<1>4. GoesOn(p) \in PageState /\ OneRecord(GoesOn(p))
  BY <1>1, <1>3, HasteFits
<1>5. /\ GoesOn(p).kind = ui[p].kind /\ GoesOn(p).editing = ui[p].editing
      /\ GoesOn(p).form = ui[p].form /\ GoesOn(p).records = ui[p].records
      /\ GoesOn(p).loaded = ui[p].loaded /\ GoesOn(p).hasty = hasty
  BY <1>1, <1>3 DEF PageState
<1> QED BY <1>2, <1>4, <1>5

LEMMA ChooseKindKeeps == ASSUME Inv, NEW p \in Page, ChooseKind(p) PROVE Inv'
<1>1. PICK k \in Kind : ui' = [ui EXCEPT ![p] = StartNew([@ EXCEPT !.hasty = Busy(p)], k)]
  BY DEF ChooseKind
<1>2. PICK hasty \in BOOLEAN : hasty = Busy(p)
  BY DEF Busy
<1> DEFINE page == [ui[p] EXCEPT !.hasty = hasty]
<1>4. page \in PageState /\ OneRecord(page)
  BY OfPage, HasteFits
<1>5. Turns(p, StartNew(page, k))
  BY <1>1, <1>2 DEF Turns
<1> HIDE DEF page
<1>3. PagesInv'
  BY <1>4, <1>5, StartNewFits, TurnKeeps DEF Inv
<1> QED BY <1>3, PageOnly DEF ChooseKind

(* A whole row is edited under its own identity, which no empty form has. *)
LEMMA FormIs ==
  ASSUME NEW row \in WholeRow
  PROVE  /\ FormOf(row) = Key(row) /\ FormOf(row) \in [kind : Kind, id : Id]
         /\ FormOf(row).kind = row.kind /\ FormOf(row) # NotEditing
<1>1. row.kind \in Kind /\ row.id \in Id /\ row.payload.id = row.id
  BY DEF WholeRow, Row
<1>2. row.id # NoId
  BY <1>1, WorkspaceAssumption
<1>3. FormOf(row) = [kind |-> row.kind, id |-> row.id]
  BY <1>1 DEF FormOf
<1> QED BY <1>1, <1>2, <1>3 DEF Key, NotEditing

LEMMA EditRecordKeeps == ASSUME Inv, NEW p \in Page, EditRecord(p) PROVE Inv'
<1>1. PICK record \in ui[p].records :
        ui' = [ui EXCEPT ![p].editing = FormOf(record.row), ![p].form = FormOf(record.row),
                         ![p].hasty = Busy(p)]
  BY DEF EditRecord
<1>8. PICK hasty \in BOOLEAN : hasty = Busy(p)
  BY DEF Busy
<1> DEFINE page == [ui[p] EXCEPT !.editing = FormOf(record.row), !.form = FormOf(record.row),
                                 !.hasty = hasty]
<1>2. record.row \in WholeRow
  BY OfPage DEF Record
<1>3. FormOf(record.row) \in [kind : Kind, id : Id] /\ FormOf(record.row) # NotEditing
  BY <1>2, FormIs
<1>4. page \in PageState
  BY <1>3, OfPage DEF PageState
<1>5. OneRecord(page)
  BY <1>3, OfPage DEF PageState, OneRecord
<1>6. Turns(p, page)
  BY <1>1, <1>8, OfPage DEF Turns, Inv, PagesInv
<1> HIDE DEF page
<1>7. PagesInv'
  BY <1>4, <1>5, <1>6, TurnKeeps DEF Inv
<1> QED BY <1>7, PageOnly DEF EditRecord

(* What a user typed. *)
LEMMA TypedIs ==
  ASSUME Inv, NEW id \in Id \cup {OtherId}, Len(requests) < MaxRequests
  PROVE  Typed(id) \in Payload /\ Typed(id).id = id
<1>1. Len(requests) \in Nat /\ MaxRequests \in Nat
  BY WorkspaceAssumption DEF Inv, RequestsInv
<1>2. PICK text \in 1..MaxRequests : text = Len(requests) + 1
  BY <1>1
<1> QED BY <1>2 DEF Typed, Payload

(* The page that saves: a form of a record that is edited keeps its id. *)
LEMMA SavingFits ==
  ASSUME Inv, NEW p \in Page, NEW id \in Id,
         ui[p].editing # NotEditing => id = ui[p].form.id
  PROVE  LET page == [GoesOn(p) EXCEPT !.saving = TRUE, !.form.id = id]
         IN  /\ page \in PageState /\ OneRecord(page)
             /\ page.kind = ui[p].kind /\ page.editing = ui[p].editing
             /\ page.records = ui[p].records /\ page.loaded = ui[p].loaded
             /\ page.hasty <=> ui[p].hasty \/ Busy(p)
<1>1. PICK on \in PageState : on = GoesOn(p)
  BY GoesOnFits
<1>2. /\ OneRecord(on) /\ on.kind = ui[p].kind /\ on.editing = ui[p].editing
      /\ on.form = ui[p].form /\ on.records = ui[p].records /\ on.loaded = ui[p].loaded
      /\ on.hasty <=> ui[p].hasty \/ Busy(p)
  BY <1>1, GoesOnFits
<1>3. PICK k \in Kind, old \in Id \cup {NoId} : on.form = [kind |-> k, id |-> old]
  BY DEF PageState
<1> DEFINE form == [kind |-> k, id |-> id]
           page == [on EXCEPT !.saving = TRUE, !.form = form]
<1>4. [GoesOn(p) EXCEPT !.saving = TRUE, !.form.id = id] = page
  <2>1. [on.form EXCEPT !.id = id] = form
    BY <1>3
  <2>2. [on EXCEPT !.saving = TRUE, !.form.id = id] =
          [on EXCEPT !.saving = TRUE, !.form = [on.form EXCEPT !.id = id]]
    BY DEF PageState
  <2> QED BY <1>1, <2>1, <2>2
<1>5. form \in [kind : Kind, id : Id \cup {NoId}] /\ form.kind = on.form.kind
      /\ (on.editing # NotEditing => form = on.form)
  BY <1>2, <1>3
<1> HIDE DEF form
<1>6. /\ page \in PageState /\ page.kind = on.kind /\ page.editing = on.editing
      /\ page.records = on.records /\ page.loaded = on.loaded /\ page.hasty = on.hasty
      /\ page.form = form
  BY <1>5 DEF PageState
<1> HIDE DEF page
<1>7. OneRecord(page)
  BY <1>2, <1>5, <1>6 DEF OneRecord
<1> QED BY <1>2, <1>4, <1>6, <1>7

LEMMA SaveKeeps == ASSUME Inv, NEW p \in Page, Save(p) PROVE Inv'
<1> DEFINE new == ui[p].editing = NotEditing
<1>1. PICK id \in IF new THEN Id ELSE {ui[p].form.id} :
        /\ ui' = [ui EXCEPT ![p] = [GoesOn(p) EXCEPT !.saving = TRUE, !.form.id = id]]
        /\ Send(p, IF new THEN "create" ELSE "update", ui[p].kind,
                IF new THEN id ELSE ui[p].editing.id, Typed(id), NoShown, ui[p].kind)
  BY DEF Save
<1>2. id \in Id /\ (~new => id = ui[p].editing.id /\ id = ui[p].form.id)
  BY OfPage
<1>3. Typed(id) \in Payload /\ Typed(id).id = id
  BY <1>1, <1>2, TypedIs DEF Send
<1> DEFINE page == [GoesOn(p) EXCEPT !.saving = TRUE, !.form.id = id]
<1>4. page \in PageState /\ OneRecord(page)
  BY <1>2, SavingFits
<1>5. Turns(p, page)
  BY <1>1 DEF Turns
<1>6. UNCHANGED server /\ UNCHANGED <<exists, promise>>
  BY DEF Save, server
<1>7. \/ Send(p, "create", ui[p].kind, id, Typed(id), NoShown, ui[p].kind)
      \/ Send(p, "update", ui[p].kind, id, Typed(id), NoShown, ui[p].kind)
  <2>1. CASE new
    BY <1>1, <2>1
  <2>2. CASE ~new
    BY <1>1, <1>2, <2>2
  <2> QED BY <2>1, <2>2
<1> HIDE DEF page, new
<1>8. PagesInv'
  BY <1>4, <1>5, TurnKeeps DEF Inv
<1>9. RequestsInv' /\ WaitingInv'
  BY <1>2, <1>3, <1>6, <1>7, OfPage, NoShownIsShown, SendKeeps
<1> QED BY <1>6, <1>8, <1>9, StoreKeeps DEF Inv

(* A step that only sends a request. *)
LEMMA SendOnly ==
  ASSUME Inv, UNCHANGED <<server, ui>>, RequestsInv' /\ WaitingInv'
  PROVE  Inv'
<1>1. UNCHANGED server /\ UNCHANGED ui
  BY DEF server
<1>2. PagesInv'
  BY <1>1 DEF Inv, PagesInv
<1> QED BY <1>1, <1>2, StoreKeeps DEF Inv

LEMMA RemoveRecordKeeps == ASSUME Inv, NEW p \in Page, RemoveRecord(p) PROVE Inv'
<1>1. PICK record \in ui[p].records :
        Send(p, "delete", record.row.kind, record.row.id, NoPayload, record, ui[p].kind)
  BY DEF RemoveRecord
<1>2. record \in [row : WholeRow \cup {NotEditing}, answer : Nat]
      /\ record.row.kind \in Kind /\ record.row.id \in Id
  BY OfPage DEF Record, WholeRow, Row
<1>3. UNCHANGED <<exists, promise>> /\ UNCHANGED server
  BY DEF RemoveRecord, server
<1>4. RequestsInv' /\ WaitingInv'
  BY <1>1, <1>2, <1>3, OfPage, SendKeeps
<1>5. Turns(p, GoesOn(p))
  BY DEF RemoveRecord, Turns
<1>6. PagesInv'
  BY <1>5, GoesOnFits, TurnKeeps DEF Inv
<1> QED BY <1>3, <1>4, <1>6, StoreKeeps DEF Inv

LEMMA CallKeeps == ASSUME Inv, Call PROVE Inv'
<1>1. PICK s \in Script, k \in Kind, id \in Id :
        \/ Send(s, "create", k, id, Typed(id), NoShown, k)
        \/ \E other \in {id, OtherId} : Send(s, "update", k, id, Typed(other), NoShown, k)
        \/ Send(s, "delete", k, id, NoPayload, NoShown, k)
  BY DEF Call
<1>2. \A other \in {id, OtherId} : Typed(other) \in Payload /\ Typed(other).id = other
  BY <1>1, TypedIs DEF Send
<1>3. UNCHANGED <<exists, promise>> /\ UNCHANGED <<server, ui>>
  BY DEF Call, server
<1>4. CASE Send(s, "create", k, id, Typed(id), NoShown, k)
  BY <1>2, <1>3, <1>4, NoShownIsShown, SendKeeps, SendOnly
<1>5. ASSUME NEW other \in {id, OtherId}, Send(s, "update", k, id, Typed(other), NoShown, k)
      PROVE  Inv'
  BY <1>2, <1>3, <1>5, NoShownIsShown, SendKeeps, SendOnly
<1>6. CASE Send(s, "delete", k, id, NoPayload, NoShown, k)
  BY <1>3, <1>6, NoShownIsShown, SendKeeps, SendOnly
<1> QED BY <1>1, <1>4, <1>5, <1>6

-----------------------------------------------------------------------------
(* What the server does. *)

(* The request an action is about, when it is under way. *)
LEMMA OfRequest ==
  ASSUME Inv, NEW r \in DOMAIN requests, requests[r].stage # "over"
  PROVE  requests[r] \in Request /\ Sound(requests[r])
  BY DEF Inv, RequestsInv, Fits, OverRequest

LEMMA TurnAwayKeeps == ASSUME Inv, NEW r \in DOMAIN requests, TurnAway(r) PROVE Inv'
<1>1. PICK status \in {400, 500} : Answered(r, status, {})
  BY DEF TurnAway
<1>2. UNCHANGED <<server, ui>> /\ UNCHANGED <<exists, promise>> /\ requests[r].stage = "sent"
  BY DEF TurnAway, server
<1>3. RequestsInv' /\ WaitingInv'
  BY <1>1, <1>2, NoRows, AnsweredKeeps
<1> QED BY <1>2, <1>3, SendOnly

(* A request goes on and is not answered. *)
LEMMA StageFits ==
  ASSUME NEW q \in Request, Sound(q), IdentityKept(q), NEW stage \in {"preparing", "querying"}
  PROVE  Fits([q EXCEPT !.stage = stage]) /\ [q EXCEPT !.stage = stage].stage = stage
<1>1. [q EXCEPT !.stage = stage] \in Request /\ [q EXCEPT !.stage = stage].stage = stage
  BY DEF Request
<1>2. Sound([q EXCEPT !.stage = stage])
  BY DEF Sound, Succeeded, IdentityKept, Request
<1> QED BY <1>1, <1>2 DEF Fits

LEMMA PrepareKeeps == ASSUME Inv, NEW r \in DOMAIN requests, Prepare(r) PROVE Inv'
<1>1. requests[r] \in Request /\ Sound(requests[r]) /\ IdentityKept(requests[r])
  BY OfRequest DEF Prepare
<1>2. UNCHANGED <<table, exists, ui>>
  BY DEF Prepare
<1>3. PagesInv'
  BY <1>2 DEF Inv, PagesInv
<1> DEFINE q == [requests[r] EXCEPT !.stage = "preparing"]
<1>4. CASE promise \in {"none", "pending"}
  <2>1. /\ promise' = "pending" /\ Becomes(r, q)
        /\ creates' = creates \/ (creates < MaxCreates /\ creates' = creates + 1)
    <3>1. CASE promise = "none"
      BY <3>1 DEF Prepare, Becomes
    <3>2. CASE promise = "pending"
      <4>1. requests' = [requests EXCEPT ![r].stage = "preparing"] /\ UNCHANGED <<creates, promise>>
        BY <3>2 DEF Prepare
      <4> QED BY <3>2, <4>1 DEF Becomes
    <3> QED BY <1>4, <3>1, <3>2
  <2>2. Fits(q) /\ q.stage = "preparing"
    BY <1>1, StageFits
  <2> HIDE DEF q
  <2>3. RequestsInv' /\ WaitingInv'
    BY <1>2, <2>1, <2>2, ChangeKeeps
  <2>4. creates' \in 0..MaxCreates
    BY <2>1, WorkspaceAssumption DEF Inv, StoreInv
  <2>5. StoreInv'
    BY <1>2, <2>1, <2>4 DEF Inv, StoreInv, Unique
  <2> QED BY <1>3, <2>3, <2>5 DEF Inv
<1>5. CASE promise = "fulfilled"
  <2> DEFINE u == Awaited(requests[r], promise)
  <2>1. Becomes(r, u) /\ UNCHANGED <<creates, promise>>
    BY <1>5 DEF Prepare, Becomes
  <2>2. Fits(u) /\ u.stage = "querying"
    BY <1>1, <1>5, AwaitedFits
  <2> HIDE DEF u
  <2>3. exists
    BY <1>5 DEF Inv, StoreInv
  <2>4. RequestsInv' /\ WaitingInv'
    BY <1>2, <2>1, <2>2, <2>3, ChangeKeeps
  <2>5. StoreInv'
    BY <1>2, <2>1, StoreKeeps DEF Inv, server
  <2> QED BY <1>3, <2>4, <2>5 DEF Inv
<1> QED BY <1>4, <1>5 DEF Inv, StoreInv

(* The attempt ends, and none waits for it any more. *)
LEMMA WaitersKeep ==
  ASSUME Inv, NEW outcome \in {"fulfilled", "rejected"}, WaitersGoOn(outcome),
         exists => exists', outcome = "fulfilled" => exists'
  PROVE  RequestsInv' /\ WaitingInv'
<1>1. DOMAIN requests' = DOMAIN requests /\ requests' = [s \in DOMAIN requests |-> requests'[s]]
  BY DEF WaitersGoOn
<1>2. ASSUME NEW s \in DOMAIN requests
      PROVE  /\ Fits(requests'[s]) /\ requests'[s].stage # "preparing"
             /\ requests'[s].stage = "querying" => exists'
  <2>1. CASE requests[s].stage = "preparing"
    <3>1. requests'[s] = Awaited(requests[s], outcome)
      BY <2>1 DEF WaitersGoOn
    <3>2. requests[s] \in Request /\ Sound(requests[s]) /\ IdentityKept(requests[s])
      BY <2>1, OfRequest DEF Sound
    <3> QED BY <3>1, <3>2, AwaitedFits
  <2>2. CASE requests[s].stage # "preparing"
    <3>1. requests'[s] = requests[s]
      BY <2>2 DEF WaitersGoOn
    <3> QED BY <2>2, <3>1 DEF Inv, RequestsInv, WaitingInv
  <2> QED BY <2>1, <2>2
<1>3. RequestsInv'
  BY <1>1, <1>2, MapKeeps DEF Inv
<1> QED BY <1>1, <1>2, <1>3 DEF WaitingInv

LEMMA SettleKeeps == ASSUME Inv, Settle PROVE Inv'
<1>1. UNCHANGED <<table, creates, ui>>
  BY DEF Settle
<1>2. PagesInv'
  BY <1>1 DEF Inv, PagesInv
<1>3. PICK outcome \in {"fulfilled", "rejected"} :
        /\ WaitersGoOn(outcome)
        /\ outcome = "fulfilled" => promise' = "fulfilled" /\ exists' = TRUE
        /\ outcome = "rejected" => promise' = "none" /\ exists' \in {exists, TRUE}
  BY DEF Settle, AfterFailure
<1>4. exists' \in BOOLEAN /\ (exists => exists') /\ (outcome = "fulfilled" => exists')
      /\ promise' \in {"none", "fulfilled"} /\ (promise' = "fulfilled" => exists')
  <2>1. exists \in BOOLEAN
    BY DEF Inv, StoreInv
  <2>2. CASE outcome = "fulfilled"
    BY <1>3, <2>2
  <2>3. CASE outcome = "rejected"
    <3>1. promise' = "none" /\ exists' \in {exists, TRUE}
      BY <1>3, <2>3
    <3>2. CASE exists' = exists
      BY <2>1, <2>3, <3>1, <3>2, Zenon
    <3>3. CASE exists' = TRUE
      BY <2>3, <3>1, <3>3, Zenon
    <3> QED BY <3>1, <3>2, <3>3
  <2> QED BY <2>2, <2>3
<1>5. RequestsInv' /\ WaitingInv'
  BY <1>3, <1>4, WaitersKeep
<1>6. StoreInv'
  BY <1>1, <1>4 DEF Inv, StoreInv, Unique
<1> QED BY <1>2, <1>5, <1>6 DEF Inv

(* What a query makes of the table, and what it answers. *)
LEMMA ExecutedFits ==
  ASSUME StoreInv, NEW q \in Request, Sound(q), IdentityKept(q)
  PROVE  /\ Executed(q).table \subseteq WholeRow /\ Unique(Executed(q).table)
         /\ Executed(q).status \in {200, 201, 404, 409}
         /\ Executed(q).rows \in Rows /\ Unique(Executed(q).rows)
         /\ q.op \in {"create", "update"} /\ Executed(q).status \in {200, 201}
              => Executed(q).rows # {}
<1>1. table \subseteq WholeRow /\ Unique(table)
  BY DEF StoreInv
<1>2. q.op \in {"load", "create", "update", "delete"} /\ q.kind \in Kind
  BY DEF Request
<1>3. CASE q.op \in {"create", "update"}
  <2>1. NewRow(q) \in WholeRow /\ Key(NewRow(q)) = [kind |-> q.kind, id |-> q.id]
    BY <1>2, <1>3 DEF Sound, IdentityKept, NewRow, WholeRow, Row, Key
  <2>2. {NewRow(q)} \in Rows /\ Unique({NewRow(q)})
    BY <2>1 DEF Rows, Unique
  <2>3. CASE q.op = "create" /\ Same(q) = {}
    <3>1. Unique(table \cup {NewRow(q)})
      BY <1>1, <2>1, <2>3 DEF Unique, Same
    <3> QED BY <1>1, <2>1, <2>2, <2>3, <3>1 DEF Executed, InsertRow
  <2>4. CASE q.op = "update" /\ Same(q) # {}
    <3>1. Unique((table \ Same(q)) \cup {NewRow(q)})
      BY <1>1, <2>1 DEF Unique, Same
    <3> QED BY <1>1, <2>1, <2>2, <2>4, <3>1 DEF Executed, UpdateRow
  <2>5. CASE q.op = "create" /\ Same(q) # {}
    BY <1>1, <2>5, NoRows DEF Executed, InsertRow
  <2>6. CASE q.op = "update" /\ Same(q) = {}
    BY <1>1, <2>6, NoRows DEF Executed, UpdateRow
  <2> QED BY <1>3, <2>3, <2>4, <2>5, <2>6
<1>4. CASE q.op = "delete"
  <2>1. Executed(q) = DeleteRow(q)
    BY <1>4 DEF Executed
  <2>2. Unique(table \ Same(q))
    BY <1>1 DEF Unique
  <2> QED BY <1>1, <1>4, <2>1, <2>2, NoRows DEF DeleteRow
<1>5. CASE q.op = "load"
  <2>1. Executed(q) = ListRows
    BY <1>5 DEF Executed
  <2>2. {row \in table : row.payload.id = row.id} \in Rows
        /\ Unique({row \in table : row.payload.id = row.id})
    BY <1>1 DEF Rows, Unique
  <2> QED BY <1>1, <1>5, <2>1, <2>2 DEF ListRows
<1> QED BY <1>2, <1>3, <1>4, <1>5

(* The table changes, and it stays whole. *)
LEMMA TableOnly ==
  ASSUME Inv, table' \subseteq WholeRow, Unique(table'),
         UNCHANGED <<exists, creates, promise, ui>>, RequestsInv' /\ WaitingInv'
  PROVE  Inv'
<1>1. StoreInv'
  BY DEF Inv, StoreInv, Unique
<1>2. PagesInv'
  BY DEF Inv, PagesInv
<1> QED BY <1>1, <1>2 DEF Inv

LEMMA QueryKeeps == ASSUME Inv, NEW r \in DOMAIN requests, Query(r) PROVE Inv'
<1> DEFINE done == Executed(requests[r])
<1>1. requests[r] \in Request /\ Sound(requests[r]) /\ IdentityKept(requests[r])
      /\ requests[r].stage # "over"
  BY OfRequest DEF Query, Sound
<1>2. table' = done.table /\ Answered(r, done.status, done.rows)
      /\ UNCHANGED <<exists, creates, promise, ui>> /\ UNCHANGED <<exists, promise>>
  BY DEF Query
<1>3. done.table \subseteq WholeRow /\ Unique(done.table)
      /\ done.status \in {0, 200, 201, 400, 404, 409, 500}
      /\ done.rows \in Rows /\ Unique(done.rows)
      /\ (requests[r].op \in {"create", "update"} /\ done.status \in {200, 201}
            => done.rows # {})
  BY <1>1, ExecutedFits DEF Inv
<1> HIDE DEF done
<1>4. RequestsInv' /\ WaitingInv'
  BY <1>1, <1>2, <1>3, AnsweredKeeps
<1> QED BY <1>2, <1>3, <1>4, TableOnly

LEMMA QueryFailsKeeps == ASSUME Inv, NEW r \in DOMAIN requests, QueryFails(r) PROVE Inv'
<1>1. requests[r] \in Request /\ Sound(requests[r]) /\ IdentityKept(requests[r])
      /\ requests[r].stage # "over"
  BY OfRequest DEF QueryFails, Sound
<1>2. table' \in {table, Executed(requests[r]).table} /\ Answered(r, 500, {})
      /\ UNCHANGED <<exists, creates, promise, ui>> /\ UNCHANGED <<exists, promise>>
  BY DEF QueryFails
<1>3. table' \subseteq WholeRow /\ Unique(table')
  BY <1>1, <1>2, ExecutedFits DEF Inv, StoreInv
<1>4. RequestsInv' /\ WaitingInv'
  BY <1>1, <1>2, NoRows, AnsweredKeeps
<1> QED BY <1>2, <1>3, <1>4, TableOnly

-----------------------------------------------------------------------------
(* What an answer makes of a page. *)

LEMMA LoadedFits ==
  ASSUME NEW page \in PageState, OneRecord(page), NEW records \in SUBSET Record,
         \A a, b \in records : Key(a.row) = Key(b.row) => a = b
  PROVE  Loaded(page, records) \in PageState /\ OneRecord(Loaded(page, records))
  BY DEF PageState, OneRecord, Loaded

LEMMA SavedFits ==
  ASSUME NEW page \in PageState, OneRecord(page), NEW row \in WholeRow, NEW answer \in Nat
  PROVE  Saved(page, row, answer) \in PageState /\ OneRecord(Saved(page, row, answer))
<1> DEFINE new == [row |-> row, answer |-> answer]
           records == Without(page.records, row) \cup Received({row}, answer)
<1>1. new \in Record /\ new.row = row
  BY DEF Record
<1>2. Received({row}, answer) = {new}
  BY DEF Received
<1> HIDE DEF new
<1>3. records \subseteq Record
  BY <1>1, <1>2 DEF Without, PageState
<1>4. \A a, b \in records : Key(a.row) = Key(b.row) => a = b
  BY <1>1, <1>2 DEF Without, OneRecord
<1>5. FormOf(row) \in [kind : Kind, id : Id] /\ FormOf(row) # NotEditing
  BY FormIs
<1>6. Saved(page, row, answer) =
        [page EXCEPT !.records = records, !.editing = FormOf(row), !.form = FormOf(row),
                     !.saving = FALSE]
  BY DEF Saved
<1> HIDE DEF records
<1> QED BY <1>3, <1>4, <1>5, <1>6 DEF PageState, OneRecord

LEMMA RemovedFits ==
  ASSUME NEW page \in PageState, OneRecord(page), NEW record, NEW k \in Kind
  PROVE  Removed(page, record, k) \in PageState /\ OneRecord(Removed(page, record, k))
<1> DEFINE less == [page EXCEPT !.records = @ \ {record}]
<1>1. less \in PageState /\ OneRecord(less)
  BY DEF PageState, OneRecord
<1>2. Removed(page, record, k) = StartNew(less, k)
  BY DEF Removed
<1> HIDE DEF less
<1> QED BY <1>1, <1>2, StartNewFits

LEMMA AppliedIs ==
  ASSUME NEW page, NEW q, NEW r
  PROVE  /\ q.op = "load" /\ Succeeded(q) => Applied(page, q, r) = Loaded(page, Received(q.rows, r))
         /\ q.op \in {"create", "update"} /\ Accepted(q)
              => Applied(page, q, r) = Saved(page, CHOOSE row \in q.rows : TRUE, r)
  BY DEF Applied

LEMMA AppliedFits ==
  ASSUME NEW page \in PageState, OneRecord(page), NEW q \in Request, Unique(q.rows), NEW r \in Nat
  PROVE  Applied(page, q, r) \in PageState /\ OneRecord(Applied(page, q, r))
<1>1. q.op \in {"load", "create", "update", "delete"} /\ q.at \in Kind /\ q.rows \in Rows
  BY DEF Request
<1>2. CASE q.op = "load" /\ Succeeded(q)
  <2>1. Received(q.rows, r) \in SUBSET Record
    BY <1>1 DEF Received, Record, Rows
  <2>2. \A a, b \in Received(q.rows, r) : Key(a.row) = Key(b.row) => a = b
    BY DEF Received, Unique
  <2>3. Applied(page, q, r) = Loaded(page, Received(q.rows, r))
    BY <1>2, AppliedIs
  <2> QED BY <2>1, <2>2, <2>3, LoadedFits
<1>3. CASE q.op = "load" /\ ~Succeeded(q)
  <2>1. page.records \in SUBSET Record
    BY DEF PageState
  <2>2. \A a, b \in page.records : Key(a.row) = Key(b.row) => a = b
    BY DEF OneRecord
  <2>3. Applied(page, q, r) = Loaded(page, page.records)
    BY <1>3 DEF Applied
  <2> QED BY <2>1, <2>2, <2>3, LoadedFits
<1>4. CASE q.op \in {"create", "update"} /\ Accepted(q)
  <2>1. PICK row : row = CHOOSE saved \in q.rows : TRUE
    OBVIOUS
  <2>2. row \in q.rows
    BY <1>4, <2>1 DEF Accepted
  <2>3. row \in WholeRow
    BY <1>1, <2>2 DEF Rows
  <2>4. Applied(page, q, r) = Saved(page, row, r)
    BY <1>4, <2>1, AppliedIs
  <2> QED BY <2>3, <2>4, SavedFits
<1>5. CASE q.op \in {"create", "update"} /\ ~Accepted(q)
  <2>1. Applied(page, q, r) = [page EXCEPT !.saving = FALSE]
    BY <1>5 DEF Applied, SaveFailed
  <2> QED BY <2>1 DEF PageState, OneRecord
<1>6. CASE q.op = "delete" /\ Succeeded(q)
  BY <1>1, <1>6, RemovedFits DEF Applied
<1>7. CASE q.op = "delete" /\ ~Succeeded(q)
  BY <1>7 DEF Applied
<1> QED BY <1>1, <1>2, <1>3, <1>4, <1>5, <1>6, <1>7

(* The page of a request is told of what became of it. *)
LEMMA ToldKeeps ==
  ASSUME Inv, NEW p \in Page, NEW q \in Request, Unique(q.rows), NEW r \in DOMAIN requests,
         ui' = [ui EXCEPT ![p] = Applied(@, q, r)]
  PROVE  PagesInv'
<1>1. r \in Nat
  BY DEF Inv, RequestsInv
<1>2. Turns(p, Applied(ui[p], q, r))
  BY DEF Turns
<1>3. Applied(ui[p], q, r) \in PageState /\ OneRecord(Applied(ui[p], q, r))
  BY <1>1, OfPage, AppliedFits
<1> QED BY <1>2, <1>3, TurnKeeps DEF Inv

LEMMA ClosedFits ==
  ASSUME NEW q \in Request
  PROVE  Fits(Closed(q)) /\ Closed(q).stage = "over"
  BY DEF Fits, Closed, Request, OverRequest

LEMMA DeliverKeeps == ASSUME Inv, NEW r \in DOMAIN requests, Deliver(r) PROVE Inv'
<1>1. requests[r] \in Request /\ Sound(requests[r]) /\ requests[r].stage = "answered"
  BY OfRequest DEF Deliver
<1>2. UNCHANGED server /\ exists' = exists /\ promise' = promise
  BY DEF Deliver, server
<1> DEFINE q == Closed(requests[r])
<1>3. Becomes(r, q)
  BY DEF Deliver, Becomes
<1>4. Fits(q) /\ q.stage # "querying" /\ q.stage # "preparing"
  BY <1>1, ClosedFits
<1> HIDE DEF q
<1>5. RequestsInv' /\ WaitingInv'
  BY <1>2, <1>3, <1>4, ChangeKeeps
<1>6. CASE ui' = ui
  BY <1>2, <1>5, <1>6, StoreKeeps DEF Inv, PagesInv
<1>7. CASE requests[r].by \notin Script /\ ~requests[r].gone
  <2>1. requests[r].by \in Page
    BY <1>1, <1>7 DEF Request
  <2>2. ui' = [ui EXCEPT ![requests[r].by] = Applied(@, requests[r], r)]
    BY <1>7 DEF Deliver
  <2>3. PagesInv'
    BY <1>1, <2>1, <2>2, ToldKeeps DEF Sound
  <2> QED BY <1>2, <1>5, <2>3, StoreKeeps DEF Inv
<1> QED BY <1>6, <1>7 DEF Deliver

LEMMA GoneOfRequest ==
  ASSUME NEW q \in Request, NEW gone \in BOOLEAN
  PROVE  [q EXCEPT !.gone = gone] \in Request
  BY DEF Request

(* What a page hears of a request whose connection breaks. *)
LEMMA HeardIs ==
  ASSUME NEW q \in Request, Unique(q.rows),
         NEW heard \in {[q EXCEPT !.status = 0], [q EXCEPT !.rows = {}]}
  PROVE  /\ heard \in Request /\ Unique(heard.rows)
         /\ heard.op = q.op /\ heard.kind = q.kind /\ heard.at = q.at
         /\ heard.rows \subseteq q.rows
<1>1. CASE heard = [q EXCEPT !.status = 0]
  BY <1>1 DEF Request
<1>2. CASE heard = [q EXCEPT !.rows = {}]
  BY <1>2, NoRows DEF Request
<1> QED BY <1>1, <1>2

LEMMA LoseKeeps == ASSUME Inv, NEW r \in DOMAIN requests, Lose(r) PROVE Inv'
<1>1. requests[r] \in Request /\ Sound(requests[r]) /\ requests[r].by \in Page
  BY OfRequest DEF Lose, Open
<1>2. UNCHANGED server /\ exists' = exists /\ promise' = promise
  BY DEF Lose, server
<1> DEFINE q == IF requests[r].stage = "answered" THEN Closed(requests[r])
                ELSE [requests[r] EXCEPT !.gone = TRUE]
<1>3. Becomes(r, q)
  BY DEF Lose, Becomes
<1>4. Fits(q) /\ q.stage \in {"over", requests[r].stage}
  <2>1. CASE requests[r].stage = "answered"
    BY <1>1, <2>1, ClosedFits
  <2>2. CASE requests[r].stage # "answered"
    <3>1. q = [requests[r] EXCEPT !.gone = TRUE]
      BY <2>2
    <3> HIDE DEF q
    <3>2. q \in Request
      BY <1>1, <3>1, GoneOfRequest
    <3>3. /\ q.stage = requests[r].stage /\ q.op = requests[r].op /\ q.id = requests[r].id
          /\ q.payload = requests[r].payload /\ q.status = requests[r].status
          /\ q.rows = requests[r].rows
      BY <1>1, <3>1 DEF Request
    <3>4. Sound(q)
      BY <1>1, <3>3 DEF Sound, Succeeded, IdentityKept
    <3> QED BY <3>2, <3>3, <3>4 DEF Fits
  <2> QED BY <2>1, <2>2
<1>5. PICK heard \in {[requests[r] EXCEPT !.status = 0], [requests[r] EXCEPT !.rows = {}]} :
        ui' = [ui EXCEPT ![requests[r].by] = Applied(@, heard, r)]
  BY DEF Lose
<1>6. heard \in Request /\ Unique(heard.rows)
  BY <1>1, HeardIs DEF Sound
<1> HIDE DEF q
<1>8. (q.stage = "querying" => exists) /\ (q.stage = "preparing" => promise = "pending")
  BY <1>4 DEF Inv, WaitingInv
<1>9. RequestsInv' /\ WaitingInv'
  BY <1>2, <1>3, <1>4, <1>8, ChangeKeeps
<1>10. PagesInv'
  BY <1>1, <1>5, <1>6, ToldKeeps
<1> QED BY <1>2, <1>9, <1>10, StoreKeeps DEF Inv

LEMMA RestartKeeps == ASSUME Inv, Restart PROVE Inv'
<1>1. UNCHANGED <<table, creates, ui>> /\ promise' = "none"
  BY DEF Restart
<1>2. DOMAIN requests' = DOMAIN requests /\ requests' = [s \in DOMAIN requests |-> requests'[s]]
  BY DEF Restart
<1>3. ASSUME NEW s \in DOMAIN requests
      PROVE  /\ Fits(requests'[s])
             /\ requests'[s].stage # "querying" /\ requests'[s].stage # "preparing"
  <2>1. CASE requests[s].stage \in {"preparing", "querying"}
    <3>1. requests'[s] = WithAnswer(requests[s], 500, {})
      BY <2>1 DEF Restart
    <3>2. requests[s] \in Request /\ Sound(requests[s])
      BY <2>1, OfRequest
    <3> QED BY <3>1, <3>2, NoRows, WithAnswerFits
  <2>2. CASE requests[s].stage \notin {"preparing", "querying"}
    <3>1. requests'[s] = requests[s]
      BY <2>2 DEF Restart
    <3> QED BY <2>2, <3>1 DEF Inv, RequestsInv
  <2> QED BY <2>1, <2>2
<1>4. RequestsInv'
  BY <1>2, <1>3, MapKeeps DEF Inv
<1>5. WaitingInv'
  BY <1>2, <1>3 DEF WaitingInv
<1>6. exists' \in BOOLEAN
  BY DEF Restart, Inv, StoreInv
<1>7. StoreInv'
  BY <1>1, <1>6 DEF Inv, StoreInv, Unique
<1>8. PagesInv'
  BY <1>1 DEF Inv, PagesInv
<1> QED BY <1>4, <1>5, <1>7, <1>8 DEF Inv

-----------------------------------------------------------------------------
LEMMA NextKeeps == Inv /\ [Next]_vars => Inv'
<1> SUFFICES ASSUME Inv, [Next]_vars PROVE Inv'
  OBVIOUS
<1>1. CASE User
  <2>1. CASE Call
    BY <2>1, CallKeeps
  <2>2. ASSUME NEW p \in Page, Load(p) PROVE Inv'
    BY <2>2, LoadKeeps
  <2>3. ASSUME NEW p \in Page, ChooseKind(p) PROVE Inv'
    BY <2>3, ChooseKindKeeps
  <2>4. ASSUME NEW p \in Page, EditRecord(p) PROVE Inv'
    BY <2>4, EditRecordKeeps
  <2>5. ASSUME NEW p \in Page, Save(p) PROVE Inv'
    BY <2>5, SaveKeeps
  <2>6. ASSUME NEW p \in Page, RemoveRecord(p) PROVE Inv'
    BY <2>6, RemoveRecordKeeps
  <2> QED BY <1>1, <2>1, <2>2, <2>3, <2>4, <2>5, <2>6 DEF User
<1>2. CASE Serve
  <2>1. CASE Settle
    BY <2>1, SettleKeeps
  <2>2. ASSUME NEW r \in DOMAIN requests, TurnAway(r) PROVE Inv'
    BY <2>2, TurnAwayKeeps
  <2>3. ASSUME NEW r \in DOMAIN requests, Prepare(r) PROVE Inv'
    BY <2>3, PrepareKeeps
  <2>4. ASSUME NEW r \in DOMAIN requests, Query(r) PROVE Inv'
    BY <2>4, QueryKeeps
  <2>5. ASSUME NEW r \in DOMAIN requests, QueryFails(r) PROVE Inv'
    BY <2>5, QueryFailsKeeps
  <2>6. ASSUME NEW r \in DOMAIN requests, Deliver(r) PROVE Inv'
    BY <2>6, DeliverKeeps
  <2> QED BY <1>2, <2>1, <2>2, <2>3, <2>4, <2>5, <2>6 DEF Serve
<1>3. CASE Fault
  BY <1>3, RestartKeeps, LoseKeeps DEF Fault
<1>4. CASE UNCHANGED vars
  <2>1. UNCHANGED <<server, requests>> /\ UNCHANGED ui
    BY <1>4 DEF vars
  <2>2. PagesInv'
    BY <2>1 DEF Inv, PagesInv
  <2> QED BY <2>1, <2>2, PageOnly
<1> QED BY <1>1, <1>2, <1>3, <1>4 DEF Next

LEMMA InvAlways == Spec => []Inv
  BY InitHolds, NextKeeps, PTL DEF Spec

\* The state of the store and of the pages keeps its types, for any number of
\* pages, clients, requests and faults.
THEOREM TypeCorrect == Spec => []TypeOK
<1>1. Inv => TypeOK
  BY InvImplies
<1> QED BY <1>1, InvAlways, PTL

\* Whatever the clients send, and whatever fails, the table has one row of an
\* identity and no row that readRow would hide.
THEOREM RowsCorrect == Spec => []RowsAreWhole
<1>1. Inv => RowsAreWhole
  BY InvImplies
<1> QED BY <1>1, InvAlways, PTL

\* However requests share an attempt to create the table, and whether it fails,
\* succeeds or is lost with the server, none queries a table that is not there
\* and none waits for an attempt that is over.
THEOREM SchemaCorrect == Spec => []SchemaIsShared
<1>1. Inv => SchemaIsShared
  BY InvImplies
<1> QED BY <1>1, InvAlways, PTL


-----------------------------------------------------------------------------
(* What the list of a page shows.  A page is clean while it has only been  *)
(* told the truth; then no two requests are under way, and what the list   *)
(* lacks is what the one answer under way will tell.                       *)
Shown(page) == {record.row : record \in page.records}
InSync(page, rows) == page.loaded => Shown(page) = rows

Tells(q) == q.stage = "answered" /\ Succeeded(q)
Wrote(q) == q.op # "load" /\ Tells(q)

(* Page p, in its state, and a request under way, the table having rows:   *)
(* it is the page's own if it writes, what it deletes is in the list, and  *)
(* once it is answered the answer tells the list from the table.           *)
IsOwn(p, page, q) ==
  /\ q.op # "load" => q.by = p
  /\ q.op = "delete" => q.shown \in page.records /\ Key(q.shown.row) = [kind |-> q.kind, id |-> q.id]

Explains(page, rows, q) ==
  /\ q.op = "load" => q.rows = rows
  /\ q.op \in {"create", "update"} =>
       \E row \in WholeRow :
         /\ q.rows = {row}
         /\ page.loaded => rows = {other \in Shown(page) : Key(other) # Key(row)} \cup {row}
  /\ q.op = "delete" /\ page.loaded => rows = Shown(page) \ {q.shown.row}

Agrees(p, page, rows, q) ==
  /\ q.gone = FALSE /\ IsOwn(p, page, q)
  /\ ~Wrote(q) => InSync(page, rows)
  /\ Tells(q) => Explains(page, rows, q)

OneAtATime == \A r, s \in DOMAIN requests : Open(r) /\ Open(s) => r = s

ListInv ==
  /\ clean \subseteq Page
  /\ clean # {} => OneAtATime
  /\ \A p \in clean :
        /\ Quiet => InSync(ui[p], table)
        /\ \A r \in DOMAIN requests : Open(r) => Agrees(p, ui[p], table, requests[r])

LEMMA NoCleanPage == ASSUME clean' = {} PROVE ListInv'
  BY DEF ListInv

(* Only what the list shows of a page matters, and whether it was loaded.  *)
Alike(page, other) == other.records = page.records /\ other.loaded = page.loaded

LEMMA AlikeAgrees ==
  ASSUME NEW p, NEW page, NEW other, NEW rows, Alike(page, other)
  PROVE  /\ InSync(page, rows) => InSync(other, rows)
         /\ \A q : Agrees(p, page, rows, q) => Agrees(p, other, rows, q)
  BY DEF Alike, Agrees, IsOwn, Explains, InSync, Shown

LEMMA AppendIs ==
  ASSUME NEW S, NEW s \in Seq(S), NEW e
  PROVE  /\ DOMAIN Append(s, e) = 1..(Len(s) + 1) /\ DOMAIN s = 1..Len(s)
         /\ \A r \in DOMAIN s : Append(s, e)[r] = s[r]
         /\ Append(s, e)[Len(s) + 1] = e
<1>1. s \in Seq(S \cup {e}) /\ e \in S \cup {e}
  OBVIOUS
<1> QED BY <1>1, AppendProperties

(* A request that is sent while another is under way leaves no page clean; *)
(* otherwise what the list shows is what the request was sent upon.        *)
LEMMA SendAgrees ==
  ASSUME Inv, ListInv, NEW client, NEW op \in {"load", "create", "update", "delete"}, NEW k,
         NEW id, NEW payload, NEW shown, NEW at,
         Send(client, op, k, id, payload, shown, at), table' = table,
         \A p \in Page : Alike(ui[p], ui'[p]),
         op = "delete" /\ client \in Page =>
           shown \in ui[client].records /\ Key(shown.row) = [kind |-> k, id |-> id]
  PROVE  ListInv'
<1>1. CASE ~Quiet
  BY <1>1, NoCleanPage DEF Send
<1>2. CASE Quiet
  <2> DEFINE new == [by |-> client, op |-> op, kind |-> k, id |-> id, payload |-> payload,
                     shown |-> shown, at |-> at, stage |-> "sent", gone |-> FALSE,
                     status |-> 0, rows |-> {}]
  <2>0. PICK last : last = Len(requests) + 1
    OBVIOUS
  <2>1. requests' = Append(requests, new) /\ requests \in Seq(Request \cup OverRequest)
    BY DEF Send, Inv, RequestsInv
  <2>2. /\ DOMAIN requests' = 1..last /\ DOMAIN requests = 1..Len(requests)
        /\ \A r \in DOMAIN requests : requests'[r] = requests[r]
        /\ requests'[last] = new /\ Len(requests) \in Nat
    BY <2>0, <2>1, AppendIs
  <2>3. new.op = op /\ new.stage # "over" /\ ~Tells(new) /\ new.gone = FALSE /\ new.by = client
        /\ new.shown = shown /\ new.kind = k /\ new.id = id
    BY DEF Tells
  <2> HIDE DEF new
  <2>4. \A r \in DOMAIN requests' : Open(r)' => r = last
    BY <1>2, <2>0, <2>2 DEF Quiet, Open
  <2>5. requests'[last].stage # "over" /\ last \in DOMAIN requests'
    BY <2>0, <2>2, <2>3
  <2>6. clean' \subseteq clean /\ (op # "load" => clean' \subseteq {client}) /\ clean' \subseteq Page
    BY <1>2 DEF Send, ListInv
  <2>7. ASSUME NEW p \in clean' PROVE Agrees(p, ui'[p], table, new)
    <3>1. p \in Page /\ InSync(ui[p], table)
      BY <1>2, <2>6, <2>7 DEF ListInv
    <3>2. Agrees(p, ui[p], table, new)
      BY <2>3, <2>6, <2>7, <3>1 DEF Agrees, IsOwn, Wrote
    <3> QED BY <3>1, <3>2, AlikeAgrees
  <2>8. OneAtATime'
    BY <2>4 DEF OneAtATime
  <2>9. ~Quiet'
    BY <2>5 DEF Quiet, Open
  <2> QED BY <2>2, <2>4, <2>6, <2>7, <2>8, <2>9 DEF ListInv
<1> QED BY <1>1, <1>2

(* The user turns to something else. *)
LEMMA TurningKeepsList ==
  ASSUME ListInv, UNCHANGED <<table, requests, clean>>, \A p \in Page : Alike(ui[p], ui'[p])
  PROVE  ListInv'
<1>1. ASSUME NEW p \in clean'
      PROVE  /\ Quiet' => InSync(ui[p], table)'
             /\ \A r \in DOMAIN requests' : Open(r)' => Agrees(p, ui'[p], table', requests'[r])
  <2>1. p \in clean /\ p \in Page /\ (Quiet' <=> Quiet)
        /\ \A r \in DOMAIN requests : Open(r)' <=> Open(r)
    BY <1>1 DEF ListInv, Quiet, Open
  <2> QED BY <2>1, AlikeAgrees DEF ListInv
<1>2. OneAtATime => OneAtATime'
  BY DEF OneAtATime, Open
<1> QED BY <1>1, <1>2 DEF ListInv

(* The server works on a request, or on all that wait. *)
LEMMA ServingKeepsList ==
  ASSUME ListInv, UNCHANGED <<ui, clean>>, DOMAIN requests' = DOMAIN requests,
         \A r \in DOMAIN requests : Open(r)' <=> Open(r),
         Quiet => table' = table,
         \A p \in clean : \A r \in DOMAIN requests :
           Open(r) /\ Agrees(p, ui[p], table, requests[r])
             => Agrees(p, ui[p], table', requests'[r])
  PROVE  ListInv'
<1>1. Quiet' <=> Quiet
  BY DEF Quiet
<1>2. OneAtATime => OneAtATime'
  BY DEF OneAtATime
<1> QED BY <1>1, <1>2 DEF ListInv

-----------------------------------------------------------------------------
(* What an answer tells a clean page, and what the page makes of it. *)
LEMMA WithAnswerIs ==
  ASSUME NEW q \in Request, NEW status, NEW rows
  PROVE  LET a == WithAnswer(q, status, rows)
         IN  /\ a.op = q.op /\ a.by = q.by /\ a.gone = q.gone /\ a.shown = q.shown
             /\ a.kind = q.kind /\ a.id = q.id
             /\ a.stage = "answered" /\ a.status = status /\ a.rows = rows
  BY DEF WithAnswer, Request

LEMMA FailureAgrees ==
  ASSUME NEW p, NEW page, NEW rows, NEW q \in Request, Agrees(p, page, rows, q),
         q.stage # "answered", NEW status, status \notin {200, 201}, NEW any
  PROVE  Agrees(p, page, rows, WithAnswer(q, status, any))
<1> DEFINE a == WithAnswer(q, status, any)
<1>1. /\ a.op = q.op /\ a.by = q.by /\ a.gone = q.gone /\ a.shown = q.shown
      /\ a.kind = q.kind /\ a.id = q.id /\ a.status = status
  BY WithAnswerIs
<1> SUFFICES Agrees(p, page, rows, a)
  OBVIOUS
<1> HIDE DEF a
<1>2. ~Tells(a) /\ ~Tells(q)
  BY <1>1 DEF Tells, Succeeded
<1>3. IsOwn(p, page, a)
  BY <1>1 DEF Agrees, IsOwn
<1> QED BY <1>1, <1>2, <1>3 DEF Agrees, Wrote

LEMMA StageAgrees ==
  ASSUME NEW p, NEW page, NEW rows, NEW q \in Request, Agrees(p, page, rows, q),
         q.stage # "answered", NEW stage \in {"preparing", "querying"}
  PROVE  Agrees(p, page, rows, [q EXCEPT !.stage = stage])
<1> DEFINE a == [q EXCEPT !.stage = stage]
<1>1. /\ a.op = q.op /\ a.by = q.by /\ a.gone = q.gone /\ a.shown = q.shown
      /\ a.kind = q.kind /\ a.id = q.id /\ a.stage = stage
  BY DEF Request
<1> SUFFICES Agrees(p, page, rows, a)
  OBVIOUS
<1> HIDE DEF a
<1>2. ~Tells(a) /\ ~Tells(q)
  BY <1>1 DEF Tells
<1>3. IsOwn(p, page, a)
  BY <1>1 DEF Agrees, IsOwn
<1> QED BY <1>1, <1>2, <1>3 DEF Agrees, Wrote

(* The answer of the database says what it did to the table. *)
LEMMA QueryAgrees ==
  ASSUME NEW p, NEW page, NEW q \in Request, Sound(q), IdentityKept(q), q.stage = "querying",
         table \subseteq WholeRow, Unique(table), Agrees(p, page, table, q)
  PROVE  Agrees(p, page, Executed(q).table, WithAnswer(q, Executed(q).status, Executed(q).rows))
<1> DEFINE done == Executed(q)
           a == WithAnswer(q, done.status, done.rows)
<1> SUFFICES Agrees(p, page, done.table, a)
  OBVIOUS
<1>1. /\ a.op = q.op /\ a.by = q.by /\ a.gone = q.gone /\ a.shown = q.shown
      /\ a.kind = q.kind /\ a.id = q.id
      /\ a.stage = "answered" /\ a.status = done.status /\ a.rows = done.rows
  BY WithAnswerIs
<1>2. ~Tells(q) /\ ~Wrote(q) /\ InSync(page, table)
  BY DEF Tells, Wrote, Agrees
<1>3. a.gone = FALSE /\ IsOwn(p, page, a)
  BY <1>1 DEF Agrees, IsOwn
<1>4. Tells(a) <=> done.status \in {200, 201}
  BY <1>1 DEF Tells, Succeeded
<1>5. q.op \in {"load", "create", "update", "delete"} /\ q.kind \in Kind
  BY DEF Request
<1>6. CASE q.op = "load"
  <2>1. done = ListRows /\ {row \in table : row.payload.id = row.id} = table
    BY <1>6 DEF Executed, WholeRow
  <2>2. done.table = table /\ done.rows = table
    BY <2>1 DEF ListRows
  <2> HIDE DEF done, a
  <2> QED BY <1>1, <1>2, <1>3, <1>6, <2>2 DEF Agrees, Explains, Wrote
<1>7. CASE q.op \in {"create", "update"}
  <2>1. NewRow(q) \in WholeRow /\ Key(NewRow(q)) = [kind |-> q.kind, id |-> q.id]
    BY <1>5, <1>7 DEF Sound, IdentityKept, NewRow, WholeRow, Row, Key
  <2>2. Same(q) = {row \in table : Key(row) = Key(NewRow(q))}
    BY <2>1 DEF Same
  <2>3. \/ done.status \notin {200, 201} /\ done.table = table
        \/ /\ done.table = (table \ Same(q)) \cup {NewRow(q)} /\ done.rows = {NewRow(q)}
           /\ done.status \in {200, 201}
    <3>1. CASE q.op = "create"
      BY <3>1 DEF Executed, InsertRow
    <3>2. CASE q.op = "update"
      BY <3>2 DEF Executed, UpdateRow
    <3> QED BY <1>7, <3>1, <3>2
  <2> HIDE DEF done, a
  <2>4. CASE done.status \notin {200, 201} /\ done.table = table
    BY <1>1, <1>2, <1>3, <1>4, <1>7, <2>4 DEF Agrees, Wrote
  <2>5. CASE /\ done.table = (table \ Same(q)) \cup {NewRow(q)} /\ done.rows = {NewRow(q)}
             /\ done.status \in {200, 201}
    <3>1. page.loaded =>
            done.table = {other \in Shown(page) : Key(other) # Key(NewRow(q))} \cup {NewRow(q)}
      BY <1>2, <2>2, <2>5 DEF InSync
    <3>2. Tells(a)
      BY <1>4, <2>5
    <3> QED BY <1>1, <1>3, <1>7, <2>1, <2>5, <3>1, <3>2 DEF Agrees, Explains, Wrote
  <2> QED BY <2>3, <2>4, <2>5
<1>8. CASE q.op = "delete"
  <2>1. done = DeleteRow(q)
    BY <1>8 DEF Executed
  <2>2. done.table = table \ Same(q) /\ (done.status \in {200, 201} <=> Same(q) # {})
    BY <2>1 DEF DeleteRow
  <2> HIDE DEF done, a
  <2>3. q.shown.row \in Shown(page) /\ Key(q.shown.row) = [kind |-> q.kind, id |-> q.id]
    BY <1>8 DEF Agrees, IsOwn, Shown
  <2>4. page.loaded => Same(q) = {q.shown.row} /\ Shown(page) = table
    BY <1>2, <2>3 DEF InSync, Same, Unique
  <2>5. CASE Tells(a)
    BY <1>1, <1>3, <1>8, <2>2, <2>4, <2>5 DEF Agrees, Explains, Wrote
  <2>6. CASE ~Tells(a)
    <3>1. done.table = table
      BY <1>4, <2>2, <2>6
    <3> QED BY <1>1, <1>2, <1>3, <1>8, <2>6, <3>1 DEF Agrees
  <2> QED BY <2>5, <2>6
<1> QED BY <1>5, <1>6, <1>7, <1>8

LEMMA ReceivedRows ==
  ASSUME NEW rows, NEW answer
  PROVE  {record.row : record \in Received(rows, answer)} = rows
<1>1. ASSUME NEW record \in Received(rows, answer) PROVE record.row \in rows
  BY DEF Received
<1>2. ASSUME NEW row \in rows
      PROVE  \E record \in Received(rows, answer) : record.row = row
  <2>1. [row |-> row, answer |-> answer] \in Received(rows, answer)
    BY DEF Received
  <2> QED BY <2>1
<1> QED BY <1>1, <1>2

(* A clean page that is told its answer shows the table. *)
LEMMA ToldShows ==
  ASSUME NEW p, NEW page \in PageState, OneRecord(page), NEW rows,
         NEW q \in Request, Sound(q), q.stage = "answered", Agrees(p, page, rows, q), NEW r,
         q.op = "load" => Succeeded(q)
  PROVE  InSync(Applied(page, q, r), rows)
<1>0. Tells(q) <=> Succeeded(q)
  BY DEF Tells
<1>1. q.op \in {"load", "create", "update", "delete"}
  BY DEF Request
<1>2. CASE q.op = "load"
  <2>1. Applied(page, q, r) = Loaded(page, Received(q.rows, r)) /\ q.rows = rows
    BY <1>0, <1>2, AppliedIs DEF Agrees, Explains
  <2>2. Loaded(page, Received(q.rows, r)).records = Received(q.rows, r)
    BY DEF Loaded, PageState
  <2>3. {record.row : record \in Received(q.rows, r)} = q.rows
    BY ReceivedRows
  <2> QED BY <2>1, <2>2, <2>3 DEF InSync, Shown
<1>3. CASE q.op \in {"create", "update"} /\ Succeeded(q)
  <2>1. PICK row \in WholeRow :
          /\ q.rows = {row}
          /\ page.loaded => rows = {other \in Shown(page) : Key(other) # Key(row)} \cup {row}
    BY <1>0, <1>3 DEF Agrees, Explains
  <2>2. (CHOOSE saved \in q.rows : TRUE) = row /\ Accepted(q)
    BY <1>3, <2>1 DEF Accepted
  <2>3. Applied(page, q, r) = Saved(page, row, r)
    BY <1>3, <2>2, AppliedIs
  <2>4. /\ Saved(page, row, r).records = Without(page.records, row) \cup Received({row}, r)
        /\ Saved(page, row, r).loaded = page.loaded
    BY DEF Saved, PageState
  <2>5. {record.row : record \in Without(page.records, row) \cup Received({row}, r)}
          = {other \in Shown(page) : Key(other) # Key(row)} \cup {row}
    <3>1. {record.row : record \in Without(page.records, row)}
            = {other \in Shown(page) : Key(other) # Key(row)}
      BY DEF Without, Shown
    <3>2. {record.row : record \in Received({row}, r)} = {row}
      BY ReceivedRows
    <3> QED BY <3>1, <3>2
  <2> QED BY <2>1, <2>3, <2>4, <2>5 DEF InSync, Shown
<1>4. CASE q.op = "delete" /\ Succeeded(q)
  <2>1. Applied(page, q, r) = Removed(page, q.shown, q.at)
    BY <1>4 DEF Applied
  <2>2. /\ Removed(page, q.shown, q.at).records = page.records \ {q.shown}
        /\ Removed(page, q.shown, q.at).loaded = page.loaded
    BY DEF Removed, StartNew, PageState
  <2>3. q.shown \in page.records /\ (page.loaded => rows = Shown(page) \ {q.shown.row})
    BY <1>0, <1>4 DEF Agrees, Explains, IsOwn
  <2>4. \A a \in page.records : a.row = q.shown.row => a = q.shown
    BY <2>3 DEF OneRecord
  <2>5. {record.row : record \in page.records \ {q.shown}} = Shown(page) \ {q.shown.row}
    BY <2>3, <2>4 DEF Shown
  <2> QED BY <2>1, <2>2, <2>3, <2>5 DEF InSync, Shown
<1>5. CASE q.op # "load" /\ ~Succeeded(q)
  <2>1. Alike(page, Applied(page, q, r))
    BY <1>1, <1>5 DEF Applied, Accepted, SaveFailed, Alike, PageState
  <2>2. InSync(page, rows)
    BY <1>0, <1>5 DEF Agrees, Wrote
  <2> QED BY <2>1, <2>2, AlikeAgrees
<1> QED BY <1>1, <1>2, <1>3, <1>4, <1>5

-----------------------------------------------------------------------------
(* The steps. *)
LEMMA PageKeepsList ==
  ASSUME Inv, ListInv, NEW p \in Page,
         Load(p) \/ ChooseKind(p) \/ EditRecord(p) \/ Save(p) \/ RemoveRecord(p)
  PROVE  ListInv'
<1>0. ui \in [Page -> PageState] /\ ui[p] \in PageState
  BY DEF Inv, PagesInv
<1>1. CASE Load(p)
  <2>1. \A other \in Page : Alike(ui[other], ui'[other])
    BY <1>0, <1>1 DEF Load, Alike, PageState
  <2> QED BY <1>1, <2>1, SendAgrees DEF Load, server
<1>2. CASE ChooseKind(p)
  <2>1. \A other \in Page : Alike(ui[other], ui'[other])
    <3>1. PICK k \in Kind :
            ui' = [ui EXCEPT ![p] = StartNew([@ EXCEPT !.hasty = Busy(p)], k)]
      BY <1>2 DEF ChooseKind
    <3>2. Alike(ui[p], StartNew([ui[p] EXCEPT !.hasty = Busy(p)], k))
      BY <1>0 DEF StartNew, Alike, PageState
    <3> QED BY <1>0, <3>1, <3>2 DEF Alike
  <2> QED BY <1>2, <2>1, TurningKeepsList DEF ChooseKind, server
<1>3. CASE EditRecord(p)
  <2>1. \A other \in Page : Alike(ui[other], ui'[other])
    <3>1. PICK record : ui' = [ui EXCEPT ![p].editing = FormOf(record.row),
                                         ![p].form = FormOf(record.row), ![p].hasty = Busy(p)]
      BY <1>3 DEF EditRecord
    <3> DEFINE page == [ui[p] EXCEPT !.editing = FormOf(record.row), !.form = FormOf(record.row),
                                     !.hasty = Busy(p)]
    <3>2. Alike(ui[p], page)
      BY <1>0 DEF Alike, PageState
    <3>3. ui' = [ui EXCEPT ![p] = page]
      BY <1>0, <3>1
    <3> HIDE DEF page
    <3> QED BY <1>0, <3>2, <3>3 DEF Alike
  <2> QED BY <1>3, <2>1, TurningKeepsList DEF EditRecord, server
<1>4. CASE Save(p)
  <2>1. \A other \in Page : Alike(ui[other], ui'[other])
    <3>1. PICK id \in IF ui[p].editing = NotEditing THEN Id ELSE {ui[p].form.id} :
            ui' = [ui EXCEPT ![p] = [GoesOn(p) EXCEPT !.saving = TRUE, !.form.id = id]]
      BY <1>4 DEF Save
    <3> DEFINE page == [GoesOn(p) EXCEPT !.saving = TRUE, !.form.id = id]
    <3>4. id \in Id /\ (ui[p].editing # NotEditing => id = ui[p].form.id)
      BY <3>1, OfPage
    <3>2. Alike(ui[p], page)
      BY <3>4, SavingFits DEF Alike
    <3>3. ui' = [ui EXCEPT ![p] = page]
      BY <3>1
    <3> HIDE DEF page
    <3> QED BY <1>0, <3>2, <3>3 DEF Alike
  <2>2. \E op \in {"create", "update"} : \E id, payload :
          Send(p, op, ui[p].kind, id, payload, NoShown, ui[p].kind)
    BY <1>4 DEF Save
  <2>3. table' = table
    BY <1>4 DEF Save, server
  <2> QED BY <2>1, <2>2, <2>3, SendAgrees
<1>5. CASE RemoveRecord(p)
  <2>1. \A other \in Page : Alike(ui[other], ui'[other])
    BY <1>0, <1>5, GoesOnFits DEF RemoveRecord, Alike, Inv, PagesInv
  <2>2. PICK record \in ui[p].records :
          Send(p, "delete", record.row.kind, record.row.id, NoPayload, record, ui[p].kind)
    BY <1>5 DEF RemoveRecord
  <2>3. Key(record.row) = [kind |-> record.row.kind, id |-> record.row.id]
    BY DEF Key
  <2>4. table' = table
    BY <1>5 DEF RemoveRecord, server
  <2> QED BY <2>1, <2>2, <2>3, <2>4, SendAgrees
<1> QED BY <1>1, <1>2, <1>3, <1>4, <1>5

LEMMA CallKeepsList ==
  ASSUME Inv, ListInv, Call
  PROVE  ListInv'
<1>1. PICK s, op, k, id, payload : /\ s \in Script /\ op \in {"create", "update", "delete"}
                                   /\ Send(s, op, k, id, payload, NoShown, k)
  BY DEF Call
<1>2. s \notin Page /\ table' = table /\ \A p \in Page : Alike(ui[p], ui'[p])
  BY <1>1, WorkspaceAssumption DEF Call, server, Alike
<1> QED BY <1>1, <1>2, SendAgrees

(* One request goes on at the server. *)
LEMMA OneKeepsList ==
  ASSUME Inv, ListInv, UNCHANGED <<ui, clean>>, NEW r \in DOMAIN requests, Open(r), NEW q,
         q.stage # "over", Becomes(r, q),
         \A p \in clean : Agrees(p, ui[p], table, requests[r]) => Agrees(p, ui[p], table', q)
  PROVE  ListInv'
<1>1. /\ DOMAIN requests' = DOMAIN requests
      /\ \A s \in DOMAIN requests : requests'[s] = IF s = r THEN q ELSE requests[s]
  BY OneChanges
<1>2. \A s \in DOMAIN requests : Open(s)' <=> Open(s)
  BY <1>1 DEF Open
<1>3. ~Quiet
  BY DEF Quiet
<1>4. \A p \in clean : \A s \in DOMAIN requests : Open(s) => s = r
  BY DEF ListInv, OneAtATime
<1> QED BY <1>1, <1>2, <1>3, <1>4, ServingKeepsList

LEMMA TurnAwayKeepsList ==
  ASSUME Inv, ListInv, NEW r \in DOMAIN requests, TurnAway(r)
  PROVE  ListInv'
<1>1. requests[r] \in Request /\ Open(r) /\ requests[r].stage # "answered"
  BY OfRequest DEF TurnAway, Open
<1>2. PICK status \in {400, 500} : Becomes(r, WithAnswer(requests[r], status, {}))
  BY DEF TurnAway, Answered, Becomes
<1>3. UNCHANGED <<ui, clean>> /\ table' = table
  BY DEF TurnAway, server
<1>4. WithAnswer(requests[r], status, {}).stage # "over"
  BY <1>1, WithAnswerIs
<1>5. \A p \in clean : Agrees(p, ui[p], table, requests[r])
                         => Agrees(p, ui[p], table', WithAnswer(requests[r], status, {}))
  BY <1>1, <1>3, FailureAgrees
<1> QED BY <1>1, <1>2, <1>3, <1>4, <1>5, OneKeepsList

LEMMA AwaitedAgrees ==
  ASSUME NEW p, NEW page, NEW rows, NEW q \in Request, Agrees(p, page, rows, q),
         q.stage # "answered", NEW outcome
  PROVE  Agrees(p, page, rows, Awaited(q, outcome))
<1>1. CASE outcome = "fulfilled"
  BY <1>1, StageAgrees DEF Awaited
<1>2. CASE outcome # "fulfilled"
  <2>1. Awaited(q, outcome) = WithAnswer(q, 500, {})
    BY <1>2 DEF Awaited
  <2> QED BY <2>1, FailureAgrees
<1> QED BY <1>1, <1>2

LEMMA AwaitedIsOpen ==
  ASSUME NEW q \in Request, NEW outcome
  PROVE  Awaited(q, outcome).stage # "over"
<1>1. [q EXCEPT !.stage = "querying"].stage = "querying"
  BY DEF Request
<1> QED BY <1>1, WithAnswerIs DEF Awaited

LEMMA PrepareKeepsList ==
  ASSUME Inv, ListInv, NEW r \in DOMAIN requests, Prepare(r)
  PROVE  ListInv'
<1>1. requests[r] \in Request /\ Open(r) /\ requests[r].stage # "answered"
  BY OfRequest DEF Prepare, Open
<1>2. UNCHANGED <<ui, clean>> /\ table' = table
  BY DEF Prepare
<1>3. \/ Becomes(r, [requests[r] EXCEPT !.stage = "preparing"])
      \/ Becomes(r, Awaited(requests[r], promise))
  BY DEF Prepare, Becomes
<1>4. [requests[r] EXCEPT !.stage = "preparing"].stage = "preparing"
  BY <1>1 DEF Request
<1>5. ASSUME NEW p \in clean, Agrees(p, ui[p], table, requests[r])
      PROVE  /\ Agrees(p, ui[p], table', [requests[r] EXCEPT !.stage = "preparing"])
             /\ Agrees(p, ui[p], table', Awaited(requests[r], promise))
  BY <1>1, <1>2, <1>5, StageAgrees, AwaitedAgrees
<1>6. CASE Becomes(r, [requests[r] EXCEPT !.stage = "preparing"])
  BY <1>1, <1>2, <1>4, <1>5, <1>6, OneKeepsList
<1>7. CASE Becomes(r, Awaited(requests[r], promise))
  BY <1>1, <1>2, <1>5, <1>7, AwaitedIsOpen, OneKeepsList
<1> QED BY <1>3, <1>6, <1>7

LEMMA SettleKeepsList ==
  ASSUME Inv, ListInv, Settle
  PROVE  ListInv'
<1>1. UNCHANGED <<ui, clean>> /\ table' = table
  BY DEF Settle
<1>2. PICK outcome : WaitersGoOn(outcome)
  BY DEF Settle
<1>3. /\ DOMAIN requests' = DOMAIN requests
      /\ \A s \in DOMAIN requests :
           requests'[s] = IF requests[s].stage = "preparing" THEN Awaited(requests[s], outcome)
                          ELSE requests[s]
  BY <1>2 DEF WaitersGoOn
<1>4. \A s \in DOMAIN requests : requests[s].stage = "preparing" => requests[s] \in Request
  BY OfRequest
<1>5. \A s \in DOMAIN requests : Open(s)' <=> Open(s)
  BY <1>3, <1>4, AwaitedIsOpen DEF Open
<1>6. ASSUME NEW p \in clean, NEW s \in DOMAIN requests, Agrees(p, ui[p], table, requests[s])
      PROVE  Agrees(p, ui[p], table', requests'[s])
  BY <1>1, <1>3, <1>4, <1>6, AwaitedAgrees
<1> QED BY <1>1, <1>3, <1>5, <1>6, ServingKeepsList

LEMMA QueryKeepsList ==
  ASSUME Inv, ListInv, NEW r \in DOMAIN requests, Query(r)
  PROVE  ListInv'
<1> DEFINE q == requests[r]
           answer == WithAnswer(q, Executed(q).status, Executed(q).rows)
<1>1. q \in Request /\ Open(r) /\ Sound(q) /\ IdentityKept(q) /\ q.stage = "querying"
  BY OfRequest DEF Query, Open, Sound
<1>2. UNCHANGED <<ui, clean>> /\ table' = Executed(q).table /\ Becomes(r, answer)
  BY DEF Query, Answered, Becomes
<1>3. answer.stage # "over"
  BY <1>1, WithAnswerIs
<1>4. ASSUME NEW p \in clean, Agrees(p, ui[p], table, q)
      PROVE  Agrees(p, ui[p], table', answer)
  BY <1>1, <1>2, <1>4, QueryAgrees DEF Inv, StoreInv
<1> HIDE DEF answer
<1> QED BY <1>1, <1>2, <1>3, <1>4, OneKeepsList

LEMMA DeliverKeepsList ==
  ASSUME Inv, ListInv, NEW r \in DOMAIN requests, Deliver(r)
  PROVE  ListInv'
<1> DEFINE q == requests[r]
<1>1. q \in Request /\ Open(r) /\ Sound(q) /\ q.stage = "answered"
  BY OfRequest DEF Deliver, Open
<1>2. table' = table /\ clean' \subseteq clean
      /\ (q.op = "load" /\ ~Succeeded(q) => q.by \notin clean')
  BY DEF Deliver, server
<1>3. Becomes(r, Closed(q)) /\ Closed(q).stage = "over"
  BY DEF Deliver, Becomes, Closed
<1>4. /\ DOMAIN requests' = DOMAIN requests
      /\ \A s \in DOMAIN requests : requests'[s] = IF s = r THEN Closed(q) ELSE requests[s]
  BY <1>3, OneChanges
<1>5. ASSUME NEW p \in clean'
      PROVE  /\ p \in Page /\ InSync(ui'[p], table)
             /\ \A s \in DOMAIN requests' : ~Open(s)'
  <2>1. p \in clean /\ p \in Page /\ OneAtATime /\ Agrees(p, ui[p], table, q)
    BY <1>1, <1>2, <1>5 DEF ListInv
  <2>2. \A s \in DOMAIN requests' : ~Open(s)'
    BY <1>1, <1>3, <1>4, <2>1 DEF OneAtATime, Open
  <2>3. p \notin Script /\ ui[p] \in PageState /\ OneRecord(ui[p]) /\ ui \in [Page -> PageState]
    BY <2>1, WorkspaceAssumption DEF Inv, PagesInv
  <2>4. CASE q.by = p
    <3>1. ui'[p] = Applied(ui[p], q, r)
      BY <2>1, <2>3, <2>4 DEF Deliver, Agrees
    <3>2. q.op = "load" => Succeeded(q)
      BY <1>2, <1>5, <2>4
    <3> QED BY <1>1, <2>1, <2>2, <2>3, <3>1, <3>2, ToldShows
  <2>5. CASE q.by # p
    <3>1. ui'[p] = ui[p]
      BY <2>1, <2>3, <2>5 DEF Deliver
    <3>2. InSync(ui[p], table)
      BY <2>1, <2>5 DEF Agrees, IsOwn, Wrote
    <3> QED BY <2>1, <2>2, <3>1, <3>2
  <2> QED BY <2>4, <2>5
<1>6. clean' # {} => OneAtATime'
  BY <1>5 DEF OneAtATime
<1> QED BY <1>2, <1>5, <1>6 DEF ListInv

LEMMA ListStep ==
  ASSUME Inv, ListInv, [Next]_vars
  PROVE  ListInv'
<1>1. CASE User
  BY <1>1, PageKeepsList, CallKeepsList DEF User
<1>2. CASE Serve
  <2>1. ASSUME NEW r \in DOMAIN requests, QueryFails(r) PROVE ListInv'
    BY <2>1, NoCleanPage DEF QueryFails
  <2> QED BY <1>2, <2>1, SettleKeepsList, TurnAwayKeepsList, PrepareKeepsList, QueryKeepsList,
             DeliverKeepsList DEF Serve
<1>3. CASE Fault
  BY <1>3, NoCleanPage DEF Fault, Restart, Lose
<1>4. CASE UNCHANGED vars
  <2>1. UNCHANGED <<table, requests, clean, ui>>
    BY <1>4 DEF vars, server
  <2>2. \A p \in Page : Alike(ui[p], ui'[p])
    BY <2>1 DEF Alike
  <2> QED BY <2>1, <2>2, TurningKeepsList
<1> QED BY <1>1, <1>2, <1>3, <1>4 DEF Next

\* A page that waits for each answer before it sends again, loses none and is
\* alone in writing shows just the table whenever nothing is under way, whatever
\* its user clicks meanwhile and however many pages and clients there are.
THEOREM ListCorrect == Spec => []ListIsTrue
<1>1. Init => ListInv
  BY DEF Init, ListInv, OneAtATime, InSync
<1>2. Inv /\ ListInv /\ [Next]_vars => ListInv'
  BY ListStep
<1>3. ListInv => ListIsTrue
  BY DEF ListInv, ListIsTrue, InSync, Shown
<1> QED BY <1>1, <1>2, <1>3, InvAlways, PTL DEF Spec

-----------------------------------------------------------------------------
(* What the editor shows.  While its user waits for every answer, a page   *)
(* awaits one at most, the list first; the answer finds the kind that was  *)
(* chosen when it was asked for, and what it brings is of that kind.       *)
Calm(page) ==
  /\ ~page.loaded => page.editing = NotEditing
  /\ page.editing # NotEditing =>
       /\ page.kind = page.editing.kind
       /\ \E record \in page.records : Key(record.row) = page.editing

Due(page, q) ==
  /\ q.at = page.kind
  /\ q.op = "load" <=> page.loaded = FALSE
  /\ q.op = "load" => page.loading = TRUE

Kindred(q) ==
  q.op \in {"create", "update"} => q.kind = q.at /\ \A row \in q.rows : row.kind = q.kind

Patient(p) ==
  /\ Calm(ui[p])
  /\ \A r \in DOMAIN requests : Awaits(p, r) => Due(ui[p], requests[r])
  /\ \A r, s \in DOMAIN requests : Awaits(p, r) /\ Awaits(p, s) => r = s

HasteInv ==
  /\ \A r \in DOMAIN requests : Open(r) => Kindred(requests[r])
  /\ \A p \in Page : ui[p].hasty = FALSE => Patient(p)

(* An answer to a page that waited for it. *)
LEMMA CalmAfter ==
  ASSUME NEW page \in PageState, Calm(page), NEW q \in Request, Kindred(q), Due(page, q), NEW r
  PROVE  Calm(Applied(page, q, r)) /\ Applied(page, q, r).loaded = TRUE
<1>1. q.op \in {"load", "create", "update", "delete"} /\ page.loaded \in BOOLEAN
      /\ q.rows \in Rows
  BY DEF Request, PageState
<1>2. CASE q.op = "load"
  <2>1. PICK records : Applied(page, q, r) = Loaded(page, records)
    BY <1>2 DEF Applied
  <2>2. Loaded(page, records).editing = page.editing /\ Loaded(page, records).loaded = TRUE
    BY DEF Loaded, PageState
  <2>3. page.editing = NotEditing
    BY <1>2 DEF Due, Calm
  <2> QED BY <2>1, <2>2, <2>3 DEF Calm
<1>3. CASE q.op \in {"create", "update"} /\ Accepted(q)
  <2>1. PICK row : row = CHOOSE saved \in q.rows : TRUE
    OBVIOUS
  <2>2. row \in q.rows
    BY <1>3, <2>1 DEF Accepted
  <2>3. row \in WholeRow /\ row.kind = page.kind /\ page.loaded = TRUE
    BY <1>1, <1>3, <2>2 DEF Rows, Kindred, Due
  <2>4. Applied(page, q, r) = Saved(page, row, r)
    BY <1>3, <2>1, AppliedIs
  <2>5. FormOf(row) = Key(row) /\ FormOf(row).kind = row.kind
    BY <2>3, FormIs
  <2>6. [row |-> row, answer |-> r] \in Received({row}, r)
    BY DEF Received
  <2>7. /\ Saved(page, row, r).records = Without(page.records, row) \cup Received({row}, r)
        /\ Saved(page, row, r).editing = FormOf(row) /\ Saved(page, row, r).kind = page.kind
        /\ Saved(page, row, r).loaded = page.loaded
    BY DEF Saved, PageState
  <2>8. \E record \in Saved(page, row, r).records : Key(record.row) = FormOf(row)
    BY <2>5, <2>6, <2>7
  <2> QED BY <2>3, <2>4, <2>5, <2>7, <2>8 DEF Calm
<1>4. CASE q.op \in {"create", "update"} /\ ~Accepted(q)
  <2>1. Applied(page, q, r) = [page EXCEPT !.saving = FALSE]
    BY <1>4 DEF Applied, SaveFailed
  <2>2. page.loaded = TRUE
    BY <1>1, <1>4 DEF Due
  <2> QED BY <2>1, <2>2 DEF Calm, PageState
<1>5. CASE q.op = "delete" /\ Succeeded(q)
  <2>1. Applied(page, q, r) = Removed(page, q.shown, q.at)
    BY <1>5 DEF Applied
  <2>2. /\ Removed(page, q.shown, q.at).editing = NotEditing
        /\ Removed(page, q.shown, q.at).loaded = page.loaded
    BY DEF Removed, StartNew, PageState
  <2>3. page.loaded = TRUE
    BY <1>1, <1>5 DEF Due
  <2> QED BY <2>1, <2>2, <2>3 DEF Calm
<1>6. CASE q.op = "delete" /\ ~Succeeded(q)
  <2>1. Applied(page, q, r) = page
    BY <1>6 DEF Applied
  <2>2. page.loaded = TRUE
    BY <1>1, <1>6 DEF Due
  <2> QED BY <2>1, <2>2
<1> QED BY <1>1, <1>2, <1>3, <1>4, <1>5, <1>6

(* No answer takes anything from what a page remembers of its haste. *)
LEMMA HasteStays ==
  ASSUME NEW page \in PageState, NEW q \in Request, NEW r
  PROVE  Applied(page, q, r).hasty = page.hasty
<1>1. CASE q.op = "load"
  <2>1. PICK records : Applied(page, q, r) = Loaded(page, records)
    BY <1>1 DEF Applied
  <2> QED BY <2>1 DEF Loaded, PageState
<1>2. CASE q.op \in {"create", "update"} /\ Accepted(q)
  <2>1. PICK row : Applied(page, q, r) = Saved(page, row, r)
    BY <1>2 DEF Applied
  <2> QED BY <2>1 DEF Saved, PageState
<1>3. CASE q.op \in {"create", "update"} /\ ~Accepted(q)
  <2>1. Applied(page, q, r) = SaveFailed(page)
    BY <1>3 DEF Applied
  <2> QED BY <2>1 DEF SaveFailed, PageState
<1>4. CASE q.op = "delete" /\ Succeeded(q)
  <2>1. Applied(page, q, r) = Removed(page, q.shown, q.at)
    BY <1>4 DEF Applied
  <2> QED BY <2>1 DEF Removed, StartNew, PageState
<1>5. CASE q.op = "delete" /\ ~Succeeded(q)
  BY <1>5 DEF Applied
<1>6. q.op \in {"load", "create", "update", "delete"}
  BY DEF Request
<1> QED BY <1>1, <1>2, <1>3, <1>4, <1>5, <1>6

(* Requests go on at the server: whom they are for, and what, remains. *)
Kin(q, next) ==
  /\ next.stage # "over" /\ next.by = q.by /\ next.gone = q.gone
  /\ next.op = q.op /\ next.at = q.at /\ Kindred(next)

LEMMA ServingIsPatient ==
  ASSUME HasteInv, UNCHANGED ui, DOMAIN requests' = DOMAIN requests,
         \A r \in DOMAIN requests :
           \/ requests'[r] = requests[r]
           \/ Open(r) /\ Kin(requests[r], requests'[r])
  PROVE  HasteInv'
<1>1. ASSUME NEW r \in DOMAIN requests', Open(r)' PROVE Kindred(requests'[r])
  BY <1>1 DEF HasteInv, Open, Kin
<1>2. ASSUME NEW p \in Page, NEW r \in DOMAIN requests
      PROVE  /\ Awaits(p, r)' <=> Awaits(p, r)
             /\ Due(ui[p], requests[r]) => Due(ui[p], requests'[r])
  BY DEF Awaits, Open, Kin, Due
<1>3. ASSUME NEW p \in Page, Patient(p) PROVE Patient(p)'
  BY <1>2, <1>3 DEF Patient
<1> QED BY <1>1, <1>3 DEF HasteInv

LEMMA OneIsPatient ==
  ASSUME HasteInv, UNCHANGED ui, NEW r \in DOMAIN requests, NEW q, Becomes(r, q),
         Open(r), Kin(requests[r], q)
  PROVE  HasteInv'
<1>1. /\ DOMAIN requests' = DOMAIN requests
      /\ \A s \in DOMAIN requests : requests'[s] = IF s = r THEN q ELSE requests[s]
  BY OneChanges
<1> QED BY <1>1, ServingIsPatient

LEMMA AnswerIsKin ==
  ASSUME NEW q \in Request, Kindred(q), NEW status, NEW rows,
         q.op \in {"create", "update"} => \A row \in rows : row.kind = q.kind
  PROVE  Kin(q, WithAnswer(q, status, rows))
<1>1. WithAnswer(q, status, rows).at = q.at
  BY DEF WithAnswer, Request
<1> QED BY <1>1, WithAnswerIs DEF Kin, Kindred

LEMMA StageIsKin ==
  ASSUME NEW q \in Request, Kindred(q), NEW stage, stage # "over"
  PROVE  Kin(q, [q EXCEPT !.stage = stage])
<1> DEFINE next == [q EXCEPT !.stage = stage]
<1>1. /\ next.stage = stage /\ next.by = q.by /\ next.gone = q.gone /\ next.op = q.op
      /\ next.at = q.at /\ next.kind = q.kind /\ next.rows = q.rows
  BY DEF Request
<1> HIDE DEF next
<1>2. Kin(q, next)
  BY <1>1 DEF Kin, Kindred
<1> QED BY <1>2 DEF next

LEMMA AwaitedIsKin ==
  ASSUME NEW q \in Request, Kindred(q), NEW outcome
  PROVE  Kin(q, Awaited(q, outcome))
<1>1. CASE outcome = "fulfilled"
  BY <1>1, StageIsKin DEF Awaited
<1>2. CASE outcome # "fulfilled"
  <2>1. Awaited(q, outcome) = WithAnswer(q, 500, {})
    BY <1>2 DEF Awaited
  <2> QED BY <2>1, AnswerIsKin
<1> QED BY <1>1, <1>2

LEMMA ServeIsPatient ==
  ASSUME Inv, HasteInv, NEW r \in DOMAIN requests,
         TurnAway(r) \/ Prepare(r) \/ Query(r) \/ QueryFails(r)
  PROVE  HasteInv'
<1> DEFINE q == requests[r]
<1>1. q \in Request /\ Open(r) /\ Kindred(q) /\ ui' = ui
  BY OfRequest DEF HasteInv, Open, TurnAway, Prepare, Query, QueryFails
<1>2. CASE TurnAway(r)
  <2>1. PICK status : Becomes(r, WithAnswer(q, status, {}))
    BY <1>2 DEF TurnAway, Answered, Becomes
  <2> QED BY <1>1, <2>1, AnswerIsKin, OneIsPatient
<1>3. CASE Prepare(r)
  <2>1. \/ Becomes(r, [q EXCEPT !.stage = "preparing"])
        \/ Becomes(r, Awaited(q, promise))
    BY <1>3 DEF Prepare, Becomes
  <2> QED BY <1>1, <2>1, StageIsKin, AwaitedIsKin, OneIsPatient
<1>4. CASE Query(r)
  <2> DEFINE done == Executed(q)
  <2>1. Becomes(r, WithAnswer(q, done.status, done.rows))
    BY <1>4 DEF Query, Answered, Becomes
  <2>2. q.op \in {"create", "update"} => \A row \in done.rows : row.kind = q.kind
    BY DEF Executed, InsertRow, UpdateRow, NewRow
  <2> HIDE DEF done
  <2> QED BY <1>1, <2>1, <2>2, AnswerIsKin, OneIsPatient
<1>5. CASE QueryFails(r)
  <2>1. Becomes(r, WithAnswer(q, 500, {}))
    BY <1>5 DEF QueryFails, Answered, Becomes
  <2> QED BY <1>1, <2>1, AnswerIsKin, OneIsPatient
<1> QED BY <1>2, <1>3, <1>4, <1>5

LEMMA AllArePatient ==
  ASSUME Inv, HasteInv, Settle \/ Restart
  PROVE  HasteInv'
<1>1. ui' = ui /\ DOMAIN requests' = DOMAIN requests
  BY DEF Settle, Restart, WaitersGoOn
<1>2. ASSUME NEW r \in DOMAIN requests
      PROVE  \/ requests'[r] = requests[r]
             \/ Open(r) /\ Kin(requests[r], requests'[r])
  <2>1. CASE requests[r].stage \in {"preparing", "querying"}
    <3>1. requests[r] \in Request /\ Open(r) /\ Kindred(requests[r])
      BY <2>1, OfRequest DEF HasteInv, Open
    <3>2. \/ requests'[r] = requests[r]
          \/ \E outcome : requests'[r] = Awaited(requests[r], outcome)
          \/ requests'[r] = WithAnswer(requests[r], 500, {})
      <4>1. CASE Settle
        <5>1. PICK outcome : WaitersGoOn(outcome)
          BY <4>1 DEF Settle
        <5> QED BY <5>1 DEF WaitersGoOn
      <4>2. CASE Restart
        BY <2>1, <4>2 DEF Restart
      <4> QED BY <4>1, <4>2
    <3> QED BY <3>1, <3>2, AwaitedIsKin, AnswerIsKin
  <2>2. CASE requests[r].stage \notin {"preparing", "querying"}
    BY <2>2 DEF Settle, Restart, WaitersGoOn
  <2> QED BY <2>1, <2>2
<1> QED BY <1>1, <1>2, ServingIsPatient

(* A page hears of its request, which it then awaits no more. *)
LEMMA HearingIsPatient ==
  ASSUME Inv, HasteInv, NEW r \in DOMAIN requests, NEW q, Becomes(r, q),
         q.stage = "over" \/ (q.gone = TRUE /\ Kindred(q)),
         NEW p \in Page, Awaits(p, r), NEW heard \in Request, Kindred(heard),
         heard.op = requests[r].op, heard.at = requests[r].at,
         ui' = [ui EXCEPT ![p] = Applied(@, heard, r)]
  PROVE  HasteInv'
<1>1. /\ DOMAIN requests' = DOMAIN requests
      /\ \A s \in DOMAIN requests : requests'[s] = IF s = r THEN q ELSE requests[s]
  BY OneChanges
<1>2. ASSUME NEW s \in DOMAIN requests', Open(s)' PROVE Kindred(requests'[s])
  BY <1>1, <1>2 DEF HasteInv, Open
<1>3. ASSUME NEW other \in Page, NEW s \in DOMAIN requests, Awaits(other, s)'
      PROVE  s # r /\ Awaits(other, s) /\ requests'[s] = requests[s]
  BY <1>1, <1>3 DEF Awaits, Open
<1>4. ui \in [Page -> PageState] /\ ui[p] \in PageState
  BY DEF Inv, PagesInv
<1>5. ASSUME NEW other \in Page, other # p, Patient(other)
      PROVE  Patient(other)'
  <2>1. ui'[other] = ui[other]
    BY <1>4, <1>5
  <2> QED BY <1>1, <1>3, <1>5, <2>1 DEF Patient
<1>6. ASSUME Patient(p) PROVE Patient(p)'
  <2>1. Calm(ui[p]) /\ Due(ui[p], heard)
    BY <1>6 DEF Patient, Due
  <2>2. ui'[p] = Applied(ui[p], heard, r)
    BY <1>4
  <2>3. Calm(ui'[p])
    BY <1>4, <2>1, <2>2, CalmAfter
  <2>4. \A s \in DOMAIN requests : ~Awaits(p, s)'
    BY <1>3, <1>6 DEF Patient
  <2> QED BY <1>1, <2>3, <2>4 DEF Patient
<1>7. ASSUME NEW other \in Page PROVE ui'[other].hasty = ui[other].hasty
  BY <1>4, HasteStays
<1> QED BY <1>2, <1>5, <1>6, <1>7 DEF HasteInv

LEMMA DeliverIsPatient ==
  ASSUME Inv, HasteInv, NEW r \in DOMAIN requests, Deliver(r)
  PROVE  HasteInv'
<1> DEFINE q == requests[r]
<1>1. q \in Request /\ Open(r) /\ Kindred(q)
  BY OfRequest DEF HasteInv, Open, Deliver
<1>2. Becomes(r, Closed(q)) /\ Closed(q).stage = "over"
  BY DEF Deliver, Becomes, Closed
<1>3. CASE q.by \in Script \/ q.gone
  <2>1. /\ DOMAIN requests' = DOMAIN requests
        /\ \A s \in DOMAIN requests : requests'[s] = IF s = r THEN Closed(q) ELSE requests[s]
    BY <1>2, OneChanges
  <2>2. ui' = ui
    BY <1>3 DEF Deliver
  <2>3. ASSUME NEW p \in Page, NEW s \in DOMAIN requests, Awaits(p, s)'
        PROVE  Awaits(p, s) /\ requests'[s] = requests[s]
    BY <1>2, <2>1, <2>3 DEF Awaits, Open
  <2>4. ASSUME NEW p \in Page, Patient(p) PROVE Patient(p)'
    BY <2>1, <2>2, <2>3, <2>4 DEF Patient
  <2>5. ASSUME NEW s \in DOMAIN requests', Open(s)' PROVE Kindred(requests'[s])
    BY <1>2, <2>1, <2>5 DEF HasteInv, Open
  <2> QED BY <2>2, <2>4, <2>5 DEF HasteInv
<1>4. CASE ~(q.by \in Script \/ q.gone)
  <2>1. q.by \in Page /\ Awaits(q.by, r)
    BY <1>1, <1>4 DEF Request, Awaits
  <2>2. ui' = [ui EXCEPT ![q.by] = Applied(@, q, r)]
    BY <1>4 DEF Deliver
  <2> QED BY <1>1, <1>2, <2>1, <2>2, HearingIsPatient
<1> QED BY <1>3, <1>4

LEMMA LoseIsPatient ==
  ASSUME Inv, HasteInv, NEW r \in DOMAIN requests, Lose(r)
  PROVE  HasteInv'
<1> DEFINE q == requests[r]
           next == IF q.stage = "answered" THEN Closed(q) ELSE [q EXCEPT !.gone = TRUE]
<1>1. q \in Request /\ Kindred(q) /\ Unique(q.rows) /\ q.by \in Page /\ Awaits(q.by, r)
  BY OfRequest DEF HasteInv, Open, Lose, Awaits, Sound
<1>2. Becomes(r, next)
  BY DEF Lose, Becomes
<1>3. next.stage = "over" \/ (next.gone = TRUE /\ Kindred(next))
  <2>1. CASE q.stage = "answered"
    BY <2>1 DEF Closed
  <2>2. CASE q.stage # "answered"
    <3>1. next = [q EXCEPT !.gone = TRUE]
      BY <2>2
    <3> HIDE DEF next
    <3> QED BY <1>1, <3>1 DEF Request, Kindred
  <2> QED BY <2>1, <2>2
<1>4. PICK heard \in {[q EXCEPT !.status = 0], [q EXCEPT !.rows = {}]} :
        ui' = [ui EXCEPT ![q.by] = Applied(@, heard, r)]
  BY DEF Lose
<1>5. heard \in Request /\ heard.op = q.op /\ heard.at = q.at /\ Kindred(heard)
  <2>1. PICK told \in Request : told = q
    BY <1>1
  <2>2. Unique(told.rows) /\ heard \in {[told EXCEPT !.status = 0], [told EXCEPT !.rows = {}]}
    BY <1>1, <1>4, <2>1
  <2> HIDE DEF q, next
  <2>3. /\ heard \in Request /\ heard.op = told.op /\ heard.kind = told.kind
        /\ heard.at = told.at /\ heard.rows \subseteq told.rows
    BY <2>2, HeardIs
  <2> QED BY <1>1, <2>1, <2>3 DEF Kindred
<1> HIDE DEF next
<1> QED BY <1>1, <1>2, <1>3, <1>4, <1>5, HearingIsPatient

(* A page that sends while it awaits nothing. *)
LEMMA SendIsPatient ==
  ASSUME Inv, HasteInv, NEW client, NEW op, NEW k, NEW id, NEW payload, NEW shown, NEW at,
         Send(client, op, k, id, payload, shown, at), op \in {"create", "update"} => k = at,
         \A p \in Page : p # client => ui'[p] = ui[p],
         client \in Page /\ ui'[client].hasty = FALSE =>
           /\ Calm(ui'[client]) /\ \A r \in DOMAIN requests : ~Awaits(client, r)
           /\ at = ui'[client].kind
           /\ op = "load" <=> ui'[client].loaded = FALSE
           /\ op = "load" => ui'[client].loading = TRUE
  PROVE  HasteInv'
<1> DEFINE new == [by |-> client, op |-> op, kind |-> k, id |-> id, payload |-> payload,
                   shown |-> shown, at |-> at, stage |-> "sent", gone |-> FALSE,
                   status |-> 0, rows |-> {}]
<1>1. requests' = Append(requests, new) /\ requests \in Seq(Request \cup OverRequest)
  BY DEF Send, Inv, RequestsInv
<1>2. PICK last : last = Len(requests) + 1
  OBVIOUS
<1>3. /\ DOMAIN requests' = 1..last /\ DOMAIN requests = 1..Len(requests)
      /\ \A r \in DOMAIN requests : requests'[r] = requests[r]
      /\ requests'[last] = new /\ Len(requests) \in Nat
  BY <1>1, <1>2, AppendIs
<1>4. new.by = client /\ new.op = op /\ new.kind = k /\ new.at = at /\ new.rows = {}
  OBVIOUS
<1> HIDE DEF new
<1>5. \A r \in DOMAIN requests' : r \in DOMAIN requests \/ r = last
  BY <1>2, <1>3
<1>6. ASSUME NEW r \in DOMAIN requests', Open(r)' PROVE Kindred(requests'[r])
  BY <1>3, <1>4, <1>5, <1>6 DEF HasteInv, Open, Kindred
<1>7. ASSUME NEW p \in Page, p # client, Patient(p) PROVE Patient(p)'
  <2>1. ASSUME NEW r \in DOMAIN requests', Awaits(p, r)'
        PROVE  r \in DOMAIN requests /\ Awaits(p, r) /\ requests'[r] = requests[r]
    BY <1>3, <1>4, <1>5, <1>7, <2>1 DEF Awaits, Open
  <2> QED BY <1>7, <2>1 DEF Patient
<1>8. ASSUME client \in Page, ui'[client].hasty = FALSE PROVE Patient(client)'
  <2>1. ASSUME NEW r \in DOMAIN requests', Awaits(client, r)'
        PROVE  r = last
    BY <1>3, <1>5, <1>8, <2>1 DEF Awaits, Open
  <2>2. Due(ui'[client], new)
    BY <1>4, <1>8 DEF Due
  <2> QED BY <1>3, <1>8, <2>1, <2>2 DEF Patient
<1> QED BY <1>6, <1>7, <1>8 DEF HasteInv

(* A page whose user turns to a form while it awaits nothing. *)
LEMMA TurnIsPatient ==
  ASSUME Inv, HasteInv, requests' = requests, NEW p \in Page, NEW page,
         ui' = [ui EXCEPT ![p] = page], page.hasty = FALSE => ~Busy(p) /\ Calm(page)
  PROVE  HasteInv'
<1>1. \A other \in Page : ui'[other] = IF other = p THEN page ELSE ui[other]
  BY DEF Inv, PagesInv
<1>2. \A other \in Page, r \in DOMAIN requests : Awaits(other, r)' <=> Awaits(other, r)
  BY DEF Awaits, Open
<1>3. ASSUME NEW other \in Page, other # p, Patient(other) PROVE Patient(other)'
  BY <1>1, <1>2, <1>3 DEF Patient
<1>4. ASSUME ui'[p].hasty = FALSE PROVE Patient(p)'
  <2>1. ui'[p] = page /\ ~Busy(p) /\ Calm(page)
    BY <1>1, <1>4
  <2> QED BY <1>2, <2>1 DEF Patient, Busy
<1>5. \A r \in DOMAIN requests' : Open(r)' => Kindred(requests'[r])
  BY DEF HasteInv, Open
<1> QED BY <1>1, <1>3, <1>4, <1>5 DEF HasteInv

(* A page that saves or deletes goes on, in haste if it awaits anything. *)
LEMMA WaitedIsPatient ==
  ASSUME Inv, HasteInv, NEW p \in Page, NEW page, ui' = [ui EXCEPT ![p] = page],
         page.kind = ui[p].kind, page.editing = ui[p].editing,
         page.records = ui[p].records, page.loaded = ui[p].loaded,
         page.hasty <=> ui[p].hasty \/ Busy(p),
         NEW op \in {"create", "update", "delete"}, NEW k, NEW id, NEW payload, NEW shown,
         Send(p, op, k, id, payload, shown, ui[p].kind), op # "delete" => k = ui[p].kind
  PROVE  HasteInv'
<1>1. ui \in [Page -> PageState] /\ ui[p].hasty \in BOOLEAN
  BY OfPage DEF Inv, PagesInv, PageState
<1>2. ui'[p] = page /\ \A other \in Page : other # p => ui'[other] = ui[other]
  BY <1>1
<1>3. ASSUME page.hasty = FALSE
      PROVE  /\ Calm(page) /\ page.loaded # FALSE
             /\ \A r \in DOMAIN requests : ~Awaits(p, r)
  <2>1. ui[p].hasty = FALSE /\ ~Busy(p)
    BY <1>1, <1>3
  <2>2. Calm(ui[p])
    BY <2>1 DEF HasteInv, Patient
  <2>3. Calm(page)
    BY <2>2 DEF Calm
  <2> QED BY <2>1, <2>3 DEF Busy
<1> QED BY <1>2, <1>3, SendIsPatient

LEMMA PageIsPatient ==
  ASSUME Inv, HasteInv, NEW p \in Page,
         Load(p) \/ ChooseKind(p) \/ EditRecord(p) \/ Save(p) \/ RemoveRecord(p)
  PROVE  HasteInv'
<1>0. ui \in [Page -> PageState] /\ ui[p] \in PageState
  BY DEF Inv, PagesInv
<1>1. CASE Load(p)
  <2> DEFINE page == [ui[p] EXCEPT !.loading = TRUE]
  <2>1. ui' = [ui EXCEPT ![p] = page] /\ ui[p].loaded = FALSE /\ ui[p].loading = FALSE
    BY <1>0, <1>1 DEF Load, PageState
  <2>2. /\ page.kind = ui[p].kind /\ page.editing = ui[p].editing /\ page.hasty = ui[p].hasty
        /\ page.records = ui[p].records /\ page.loaded = ui[p].loaded /\ page.loading = TRUE
    BY <1>0 DEF PageState
  <2> HIDE DEF page
  <2>3. ui'[p] = page /\ \A other \in Page : other # p => ui'[other] = ui[other]
    BY <1>0, <2>1
  <2>4. ASSUME page.hasty = FALSE
        PROVE  Calm(page) /\ \A r \in DOMAIN requests : ~Awaits(p, r)
    <3>1. Patient(p)
      BY <2>2, <2>4 DEF HasteInv
    <3>2. Calm(page)
      BY <2>2, <3>1 DEF Patient, Calm
    <3>3. \A r \in DOMAIN requests : ~Awaits(p, r)
      BY <2>1, <3>1 DEF Patient, Due
    <3> QED BY <3>2, <3>3
  <2>5. Send(p, "load", ui[p].kind, NoId, NoPayload, NoShown, ui[p].kind)
    BY <1>1 DEF Load
  <2>6. ui'[p].hasty = FALSE =>
           /\ Calm(ui'[p]) /\ \A r \in DOMAIN requests : ~Awaits(p, r)
           /\ ui[p].kind = ui'[p].kind
           /\ "load" = "load" <=> ui'[p].loaded = FALSE
           /\ "load" = "load" => ui'[p].loading = TRUE
    BY <2>1, <2>2, <2>3, <2>4
  <2> QED BY <2>3, <2>5, <2>6, SendIsPatient
<1>2. CASE ChooseKind(p)
  <2>1. PICK k \in Kind : ui' = [ui EXCEPT ![p] = StartNew([@ EXCEPT !.hasty = Busy(p)], k)]
    BY <1>2 DEF ChooseKind
  <2> DEFINE page == StartNew([ui[p] EXCEPT !.hasty = Busy(p)], k)
  <2>2. page.editing = NotEditing /\ page.hasty = Busy(p)
    BY <1>0 DEF StartNew, PageState
  <2>3. ui' = [ui EXCEPT ![p] = page]
    BY <2>1
  <2> HIDE DEF page
  <2>4. page.hasty = FALSE => ~Busy(p) /\ Calm(page)
    BY <2>2 DEF Calm
  <2> QED BY <1>2, <2>3, <2>4, TurnIsPatient DEF ChooseKind
<1>3. CASE EditRecord(p)
  <2>1. PICK record \in ui[p].records :
          /\ record.row.kind = ui[p].kind
          /\ ui' = [ui EXCEPT ![p].editing = FormOf(record.row), ![p].form = FormOf(record.row),
                              ![p].hasty = Busy(p)]
    BY <1>3 DEF EditRecord
  <2> DEFINE page == [ui[p] EXCEPT !.editing = FormOf(record.row), !.form = FormOf(record.row),
                                   !.hasty = Busy(p)]
  <2>2. /\ page.editing = FormOf(record.row) /\ page.hasty = Busy(p)
        /\ page.kind = ui[p].kind /\ page.records = ui[p].records /\ page.loaded = ui[p].loaded
    BY <1>0 DEF PageState
  <2>3. ui' = [ui EXCEPT ![p] = page]
    BY <1>0, <2>1
  <2> HIDE DEF page
  <2>4. FormOf(record.row) = Key(record.row) /\ FormOf(record.row).kind = record.row.kind
    <3>1. record.row \in WholeRow
      BY <2>1, OfPage DEF Record
    <3> QED BY <3>1, FormIs
  <2>5. page.hasty = FALSE => ~Busy(p) /\ Calm(page)
    BY <2>1, <2>2, <2>4 DEF Calm, Busy
  <2> QED BY <1>3, <2>3, <2>5, TurnIsPatient DEF EditRecord
<1>4. CASE Save(p)
  <2>1. PICK id \in IF ui[p].editing = NotEditing THEN Id ELSE {ui[p].form.id} :
          ui' = [ui EXCEPT ![p] = [GoesOn(p) EXCEPT !.saving = TRUE, !.form.id = id]]
    BY <1>4 DEF Save
  <2> DEFINE page == [GoesOn(p) EXCEPT !.saving = TRUE, !.form.id = id]
  <2>2. id \in Id /\ (ui[p].editing # NotEditing => id = ui[p].form.id)
    BY <2>1, OfPage
  <2>3. /\ page.kind = ui[p].kind /\ page.editing = ui[p].editing
        /\ page.records = ui[p].records /\ page.loaded = ui[p].loaded
        /\ page.hasty <=> ui[p].hasty \/ Busy(p)
    BY <2>2, SavingFits
  <2>4. ui' = [ui EXCEPT ![p] = page]
    BY <2>1
  <2> HIDE DEF page
  <2>5. PICK op \in {"create", "update"} : \E to, payload :
          Send(p, op, ui[p].kind, to, payload, NoShown, ui[p].kind)
    BY <1>4 DEF Save
  <2>6. PICK to, payload : Send(p, op, ui[p].kind, to, payload, NoShown, ui[p].kind)
    BY <2>5
  <2> QED BY <2>3, <2>4, <2>6, WaitedIsPatient
<1>5. CASE RemoveRecord(p)
  <2>1. PICK record \in ui[p].records :
          Send(p, "delete", record.row.kind, record.row.id, NoPayload, record, ui[p].kind)
    BY <1>5 DEF RemoveRecord
  <2>2. ui' = [ui EXCEPT ![p] = GoesOn(p)]
    BY <1>5 DEF RemoveRecord
  <2> QED BY <2>1, <2>2, GoesOnFits, WaitedIsPatient
<1> QED BY <1>1, <1>2, <1>3, <1>4, <1>5

LEMMA CallIsPatient ==
  ASSUME Inv, HasteInv, Call
  PROVE  HasteInv'
<1>1. PICK s, op, k, id, payload : s \in Script /\ Send(s, op, k, id, payload, NoShown, k)
  BY DEF Call
<1>2. s \notin Page /\ ui' = ui
  BY <1>1, WorkspaceAssumption DEF Call
<1> QED BY <1>1, <1>2, SendIsPatient

LEMMA HasteStep ==
  ASSUME Inv, HasteInv, [Next]_vars
  PROVE  HasteInv'
<1>1. CASE User
  BY <1>1, PageIsPatient, CallIsPatient DEF User
<1>2. CASE Serve
  BY <1>2, AllArePatient, ServeIsPatient, DeliverIsPatient DEF Serve
<1>3. CASE Fault
  BY <1>3, AllArePatient, LoseIsPatient DEF Fault
<1>4. CASE UNCHANGED vars
  <2>1. ui' = ui /\ requests' = requests
    BY <1>4 DEF vars
  <2> QED BY <2>1, ServingIsPatient
<1> QED BY <1>1, <1>2, <1>3, <1>4 DEF Next

\* Whatever the order of the answers and whatever the user did meanwhile, the
\* list of a page shows an identity once and the form is that of the record
\* being edited, kind and id; while the user waits for every answer, the chosen
\* kind is that record's too, so that a save goes to it, and the list has it.
THEOREM EditorCorrect == Spec => []EditorIsOneRecord
<1>1. Init => HasteInv
  <2> SUFFICES ASSUME Init PROVE HasteInv
    OBVIOUS
  <2>1. DOMAIN requests = {}
    BY DEF Init
  <2>2. \A p \in Page : ui[p].editing = NotEditing
    BY DEF Init
  <2> QED BY <2>1, <2>2 DEF HasteInv, Patient, Calm
<1>2. Inv /\ HasteInv /\ [Next]_vars => HasteInv'
  BY HasteStep
<1>3. Inv /\ HasteInv => EditorIsOneRecord
  <2> SUFFICES ASSUME Inv, HasteInv, NEW p \in Page
               PROVE  /\ \A a, b \in ui[p].records : Key(a.row) = Key(b.row) => a = b
                      /\ IF ui[p].editing = NotEditing THEN ui[p].form.kind = ui[p].kind
                         ELSE ui[p].form = ui[p].editing
                      /\ ui[p].editing # NotEditing /\ ~ui[p].hasty =>
                           /\ ui[p].kind = ui[p].editing.kind
                           /\ \E record \in ui[p].records : Key(record.row) = ui[p].editing
    BY DEF EditorIsOneRecord
  <2>1. OneRecord(ui[p]) /\ ui[p].hasty \in BOOLEAN
    BY OfPage DEF PageState
  <2>2. ui[p].hasty = FALSE => Calm(ui[p])
    BY DEF HasteInv, Patient
  <2> QED BY <2>1, <2>2 DEF OneRecord, Calm
<1> QED BY <1>1, <1>2, <1>3, InvAlways, PTL DEF Spec
=============================================================================
