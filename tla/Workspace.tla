------------------------------- MODULE Workspace -------------------------------
(***************************************************************************)
(* The workspace records of the web application: pages with a data manager *)
(* (components/workspace-data-manager.tsx), the routes under api/workspace *)
(* and the store with its table in Postgres (lib/workspace-store.ts).      *)
(*                                                                         *)
(* A page sends requests and goes on before they are answered: the answer  *)
(* finds a page whose user may have moved on, and sets what the code says. *)
(* On the server the requests share one promise of the table's creation.   *)
(* A script stands for every other client of the routes.                   *)
(***************************************************************************)
EXTENDS Integers, Sequences, FiniteSets

CONSTANTS
  Page,         \* open pages
  Script,       \* other clients
  Kind, Id,     \* a record's identity is its kind and its id
  MaxRequests,  \* bound: requests of all clients
  MaxCalls,     \* bound: of these, requests of each script
  MaxCreates,   \* bound: attempts to create the table
  MaxFaults,    \* bound: faults of one behaviour
  Faults        \* subset of {"loss", "query", "create", "restart"}

NoId == "no id"

ASSUME WorkspaceAssumption ==
  /\ Page \cap Script = {} /\ Kind # {} /\ NoId \notin Id
  /\ MaxRequests \in Nat /\ MaxCalls \in Nat /\ MaxCreates \in Nat /\ MaxFaults \in Nat
  /\ Faults \subseteq {"loss", "query", "create", "restart"}

VARIABLES
  table,     \* the rows: [kind, id, payload], the payload with its own id
  exists,    \* whether the table was created
  promise,   \* schemaPromise: "none", "pending", "fulfilled" or "rejected"
  creates,   \* CREATE TABLE statements sent, counted for their bound
  requests,  \* all requests, in the order they were sent
  ui,        \* the state of each page, and a history: hasty, its user went on
             \* before an answer, since the form was last filled
  clean,     \* history: pages for which nothing was lost, late or hidden
  faults     \* faults so far, counted for their bound

server == <<table, exists, creates, promise>>
vars == <<server, requests, ui, clean, faults>>

OtherId == "other id"
NotEditing == [kind |-> "none", id |-> NoId]
(* A payload's id, and what else it says: nothing compares that, so each   *)
(* request says something new, known by the request's number.              *)
Payload == [id : Id \cup {OtherId}, text : 1..MaxRequests]
Typed(id) == [id |-> id, text |-> Len(requests) + 1]
NoPayload == [id |-> NoId, text |-> 0]
Row == [kind : Kind, id : Id, payload : Payload]
Key(row) == [kind |-> row.kind, id |-> row.id]

(* A record of the list is a row and the answer it came with: objects of   *)
(* two answers are never the same.                                         *)
Received(rows, answer) == {[row |-> row, answer |-> answer] : row \in rows}

(* A form is known by the record it was filled from, or it is empty.       *)
EmptyForm(kind) == [kind |-> kind, id |-> NoId]
FirstKind == CHOOSE k \in Kind : TRUE

Init ==
  /\ table = {} /\ exists = FALSE
  /\ creates = 0 /\ promise = "none"
  /\ requests = <<>>
  /\ ui = [p \in Page |-> [kind |-> FirstKind, form |-> EmptyForm(FirstKind),
                           editing |-> NotEditing, records |-> {}, saving |-> FALSE,
                           loading |-> FALSE, loaded |-> FALSE, hasty |-> FALSE]]
  /\ clean = Page /\ faults = 0

(* A fault happens, no more than MaxFaults in all. *)
Mishap(kind) == kind \in Faults /\ faults < MaxFaults /\ faults' = faults + 1

Open(r) == requests[r].stage # "over"
Quiet == \A r \in DOMAIN requests : ~Open(r)

(* Of a request that is over only its client is remembered. *)
Closed(request) == [by |-> request.by, stage |-> "over"]

Send(client, op, kind, id, payload, shown, at) ==
  /\ Len(requests) < MaxRequests
  /\ requests' = Append(requests,
       [by |-> client, op |-> op, kind |-> kind, id |-> id, payload |-> payload,
        shown |-> shown, at |-> at, stage |-> "sent", gone |-> FALSE,
        status |-> 0, rows |-> {}])
  /\ clean' = IF ~Quiet THEN {} ELSE IF op = "load" THEN clean ELSE clean \cap {client}

-----------------------------------------------------------------------------
(* A page. *)
NoShown == [row |-> NotEditing, answer |-> 0]

(* The page waits for an answer, or for its list. *)
Awaits(p, r) == Open(r) /\ requests[r].by = p /\ ~requests[r].gone
Busy(p) == ~ui[p].loaded \/ \E r \in DOMAIN requests : Awaits(p, r)

GoesOn(p) == [ui[p] EXCEPT !.hasty = @ \/ Busy(p)]

(* loadRecords, once after the page was mounted. *)
Load(p) ==
  /\ ~ui[p].loading /\ ~ui[p].loaded
  /\ ui' = [ui EXCEPT ![p].loading = TRUE]
  /\ Send(p, "load", ui[p].kind, NoId, NoPayload, NoShown, ui[p].kind)
  /\ UNCHANGED <<server, faults>>

(* Mutant: a new record takes its kind from the one being edited. *)
StartNewOfEdited(page, kind) ==
  [page EXCEPT !.kind = page.editing.kind, !.editing = NotEditing, !.form = EmptyForm(kind)]

StartNew(page, kind) ==
  [page EXCEPT !.kind = kind, !.editing = NotEditing, !.form = EmptyForm(kind)]

ChooseKind(p) ==
  /\ \E k \in Kind : ui' = [ui EXCEPT ![p] = StartNew([@ EXCEPT !.hasty = Busy(p)], k)]
  /\ UNCHANGED <<server, requests, clean, faults>>

(* toForm, and the identity it is edited under: that of the payload. *)
FormOf(row) == [kind |-> row.kind, id |-> row.payload.id]

EditRecord(p) ==
  /\ \E record \in ui[p].records :
        /\ record.row.kind = ui[p].kind
        /\ ui' = [ui EXCEPT ![p].editing = FormOf(record.row),
                            ![p].form = FormOf(record.row),
                            ![p].hasty = Busy(p)]
  /\ UNCHANGED <<server, requests, clean, faults>>

(* The user fills in the form and submits it (save): a record that is      *)
(* being edited is updated, its id is locked, and another is created.  Of  *)
(* the form only the identity is kept: what else was typed shows when it is *)
(* sent.                                                                   *)
Save(p) ==
  /\ ~ui[p].saving
  /\ \E id \in IF ui[p].editing = NotEditing THEN Id ELSE {ui[p].form.id} :
        /\ ui' = [ui EXCEPT ![p] = [GoesOn(p) EXCEPT !.saving = TRUE, !.form.id = id]]
        /\ Send(p, IF ui[p].editing = NotEditing THEN "create" ELSE "update", ui[p].kind,
                IF ui[p].editing = NotEditing THEN id ELSE ui[p].editing.id,
                Typed(id), NoShown, ui[p].kind)
  /\ UNCHANGED <<server, faults>>

(* The delete button, for the record that is being edited. *)
RemoveRecord(p) ==
  /\ \E record \in ui[p].records :
        /\ Key(record.row) = ui[p].editing
        /\ Send(p, "delete", record.row.kind, record.row.id, NoPayload, record, ui[p].kind)
  /\ ui' = [ui EXCEPT ![p] = GoesOn(p)]
  /\ UNCHANGED <<server, faults>>

(* A script sends what it likes, a payload with another id included. *)
Call ==
  /\ \E s \in Script, k \in Kind, id \in Id :
     /\ Cardinality({r \in DOMAIN requests : requests[r].by = s}) < MaxCalls
     /\ \/ Send(s, "create", k, id, Typed(id), NoShown, k)
        \/ \E other \in {id, OtherId} :
              Send(s, "update", k, id, Typed(other), NoShown, k)
        \/ Send(s, "delete", k, id, NoPayload, NoShown, k)
  /\ UNCHANGED <<server, ui, faults>>

-----------------------------------------------------------------------------
(* The server. *)
WithAnswer(request, status, rows) ==
  [request EXCEPT !.stage = "answered", !.status = status, !.rows = rows]

Answered(r, status, rows) ==
  requests' = [requests EXCEPT ![r] = WithAnswer(@, status, rows)]

(* A request goes on after the promise it awaited. *)
Awaited(request, outcome) ==
  IF outcome = "fulfilled" THEN [request EXCEPT !.stage = "querying"]
  ELSE WithAnswer(request, 500, {})

(* Mutant: the identity of an update's payload is not compared. *)
IdentityUnchecked(request) == TRUE

IdentityKept(request) == request.op = "update" => request.payload.id = request.id

(* A request is turned away: no session, another origin, too large, no     *)
(* JSON, or not a record; updateWorkspaceRecord throws for a payload with  *)
(* another identity, which the route takes for a failure of the storage.   *)
TurnAway(r) ==
  /\ requests[r].stage = "sent"
  /\ \/ Answered(r, 400, {})
     \/ ~IdentityKept(requests[r]) /\ Answered(r, 500, {})
  /\ UNCHANGED <<server, ui, clean, faults>>

(* preparedSql: the first request creates the table, the others share its  *)
(* promise.                                                                *)
Prepare(r) ==
  /\ requests[r].stage = "sent" /\ IdentityKept(requests[r])
  /\ CASE promise = "none" ->
            /\ creates < MaxCreates /\ creates' = creates + 1 /\ promise' = "pending"
            /\ requests' = [requests EXCEPT ![r].stage = "preparing"]
       [] promise = "pending" ->
            requests' = [requests EXCEPT ![r].stage = "preparing"] /\ UNCHANGED <<creates, promise>>
       [] OTHER ->
            requests' = [requests EXCEPT ![r] = Awaited(@, promise)] /\ UNCHANGED <<creates, promise>>
  /\ UNCHANGED <<table, exists, ui, clean, faults>>

(* Mutant: the promise that failed is kept. *)
AfterFailureKept == "rejected"

(* The promise that failed is forgotten. *)
AfterFailure == "none"

WaitersGoOn(outcome) ==
  requests' = [r \in DOMAIN requests |->
                 IF requests[r].stage = "preparing" THEN Awaited(requests[r], outcome)
                 ELSE requests[r]]

(* The answer to CREATE TABLE IF NOT EXISTS, and all who wait for it go on; *)
(* one that fails may have been carried out.                               *)
Settle ==
  /\ promise = "pending"
  /\ \/ /\ promise' = "fulfilled" /\ exists' = TRUE /\ WaitersGoOn("fulfilled")
        /\ UNCHANGED faults
     \/ /\ Mishap("create")
        /\ promise' = AfterFailure /\ exists' \in {exists, TRUE} /\ WaitersGoOn("rejected")
  /\ UNCHANGED <<table, creates, ui, clean>>

Same(request) == {row \in table : Key(row) = [kind |-> request.kind, id |-> request.id]}
NewRow(request) == [kind |-> request.kind, id |-> request.id, payload |-> request.payload]

(* The primary key refuses a second row of one kind and id. *)
InsertRow(request) ==
  IF Same(request) # {} THEN [table |-> table, status |-> 409, rows |-> {}]
  ELSE [table |-> table \cup {NewRow(request)}, status |-> 201, rows |-> {NewRow(request)}]

UpdateRow(request) ==
  IF Same(request) = {} THEN [table |-> table, status |-> 404, rows |-> {}]
  ELSE [table |-> (table \ Same(request)) \cup {NewRow(request)},
        status |-> 200, rows |-> {NewRow(request)}]

DeleteRow(request) ==
  [table |-> table \ Same(request), status |-> IF Same(request) = {} THEN 404 ELSE 200,
   rows |-> {}]

(* readRow leaves out what is not a record. *)
ListRows == [table |-> table, status |-> 200,
             rows |-> {row \in table : row.payload.id = row.id}]

Executed(request) ==
  CASE request.op = "create" -> InsertRow(request)
    [] request.op = "update" -> UpdateRow(request)
    [] request.op = "delete" -> DeleteRow(request)
    [] request.op = "load" -> ListRows

Query(r) ==
  /\ requests[r].stage = "querying"
  /\ LET done == Executed(requests[r])
     IN  table' = done.table /\ Answered(r, done.status, done.rows)
  /\ UNCHANGED <<exists, creates, promise, ui, clean, faults>>

(* A query whose answer is an error was not carried out, or it was. *)
QueryFails(r) ==
  /\ Mishap("query")
  /\ requests[r].stage = "querying"
  /\ table' \in {table, Executed(requests[r]).table}
  /\ Answered(r, 500, {})
  /\ clean' = {}
  /\ UNCHANGED <<exists, creates, promise, ui>>

-----------------------------------------------------------------------------
(* Mutant: the list is filtered by the id alone. *)
WithoutId(records, row) == {record \in records : record.row.id # row.id}

Without(records, row) == {record \in records : Key(record.row) # Key(row)}

(* What an answer makes of the page, as the page is by then: a save shows  *)
(* the record it was answered with but leaves the kind that is chosen, a   *)
(* delete removes the object that was clicked and starts a new record of   *)
(* the kind that was chosen then.  An answer without rows is one whose body *)
(* could not be read.                                                      *)
Loaded(page, records) == [page EXCEPT !.records = records, !.loaded = TRUE, !.loading = FALSE]

SaveFailed(page) == [page EXCEPT !.saving = FALSE]

(* Mutant: the form stays as the user left it. *)
SavedBelow(page, row, answer) ==
  [page EXCEPT !.records = Without(@, row) \cup Received({row}, answer),
               !.editing = FormOf(row), !.saving = FALSE]

Saved(page, row, answer) ==
  [page EXCEPT !.records = Without(@, row) \cup Received({row}, answer),
               !.editing = FormOf(row), !.form = FormOf(row), !.saving = FALSE]

Removed(page, record, kind) == StartNew([page EXCEPT !.records = @ \ {record}], kind)

Succeeded(request) == request.status \in {200, 201}
Accepted(request) == Succeeded(request) /\ request.rows # {}

Applied(page, request, r) ==
  CASE request.op = "load" /\ Succeeded(request) -> Loaded(page, Received(request.rows, r))
    [] request.op = "load" /\ ~Succeeded(request) -> Loaded(page, page.records)
    [] request.op \in {"create", "update"} /\ Accepted(request) ->
         Saved(page, CHOOSE row \in request.rows : TRUE, r)
    [] request.op \in {"create", "update"} /\ ~Accepted(request) -> SaveFailed(page)
    [] request.op = "delete" /\ Succeeded(request) ->
         Removed(page, request.shown, request.at)
    [] OTHER -> page

Deliver(r) ==
  /\ requests[r].stage = "answered"
  /\ requests' = [requests EXCEPT ![r] = Closed(@)]
  /\ ui' = IF requests[r].by \in Script \/ requests[r].gone THEN ui
           ELSE [ui EXCEPT ![requests[r].by] = Applied(@, requests[r], r)]
  /\ clean' = IF requests[r].op = "load" /\ ~Succeeded(requests[r])
              THEN clean \ {requests[r].by} ELSE clean
  /\ UNCHANGED <<server, faults>>

(* The connection breaks: the page is told so at once, the server may or   *)
(* may not receive what was sent and goes on with what it did.  Of an      *)
(* answer the page may have the status, and not the body.                  *)
Lose(r) ==
  /\ Mishap("loss")
  /\ Open(r) /\ ~requests[r].gone /\ requests[r].by \in Page
  /\ requests' = [requests EXCEPT ![r] = IF @.stage = "answered" THEN Closed(@)
                                         ELSE [@ EXCEPT !.gone = TRUE]]
  /\ \E heard \in {[requests[r] EXCEPT !.status = 0], [requests[r] EXCEPT !.rows = {}]} :
        ui' = [ui EXCEPT ![requests[r].by] = Applied(@, heard, r)]
  /\ clean' = {}
  /\ UNCHANGED server

(* The server's process is replaced: what it was doing is lost. *)
Restart ==
  /\ Mishap("restart") /\ promise # "none"
  /\ promise' = "none"
  /\ exists' \in {exists, exists \/ promise = "pending"}
  /\ requests' = [r \in DOMAIN requests |->
                    IF requests[r].stage \in {"preparing", "querying"}
                    THEN WithAnswer(requests[r], 500, {})
                    ELSE requests[r]]
  /\ clean' = {}
  /\ UNCHANGED <<table, creates, ui>>

-----------------------------------------------------------------------------
User == Call \/ \E p \in Page : Load(p) \/ ChooseKind(p) \/ EditRecord(p)
                                \/ Save(p) \/ RemoveRecord(p)

Serve ==
  \/ Settle
  \/ \E r \in DOMAIN requests : TurnAway(r) \/ Prepare(r) \/ Query(r)
                                \/ QueryFails(r) \/ Deliver(r)

Fault == Restart \/ \E r \in DOMAIN requests : Lose(r)

Next == User \/ Serve \/ Fault

Spec == Init /\ [][Next]_vars

-----------------------------------------------------------------------------
\* The state keeps its types.
TypeOK ==
  /\ table \subseteq Row /\ exists \in BOOLEAN
  /\ creates \in 0..MaxCreates /\ promise \in {"none", "pending", "fulfilled", "rejected"}
  /\ \A p \in Page :
        /\ ui[p].kind \in Kind /\ ui[p].form \in [kind : Kind, id : Id \cup {NoId}]
        /\ ui[p].editing \in [kind : Kind, id : Id] \cup {NotEditing}

\* The table keeps what its readers rely on: no two rows of one identity, and
\* the payload's own id is the row's, so that readRow never has to hide one.
RowsAreWhole ==
  /\ \A x, y \in table : Key(x) = Key(y) => x = y
  /\ \A row \in table : row.payload.id = row.id

\* No query runs before the table is there, and the promise the requests
\* share is never one that has failed: the request after a failure tries anew.
SchemaIsShared ==
  /\ \A r \in DOMAIN requests : requests[r].stage = "querying" => exists
  /\ promise # "rejected"
  /\ (\E r \in DOMAIN requests : requests[r].stage = "preparing") => promise = "pending"

\* Whatever the order of answers, a list shows an identity once, and the form
\* is that of the record being edited, its kind and its id, or an empty one of
\* the chosen kind.  A user who waited for every answer since the form was
\* filled saves to that very record, under the tab of its kind, and finds it on
\* the list, where its delete button looks it up.  One who did not may, after
\* another tab, save the form to the record of that tab's kind with its id.
EditorIsOneRecord ==
  \A p \in Page :
    LET page == ui[p]
    IN  /\ \A x, y \in page.records : Key(x.row) = Key(y.row) => x = y
        /\ IF page.editing = NotEditing THEN page.form.kind = page.kind
           ELSE page.form = page.editing
        /\ page.editing # NotEditing /\ ~page.hasty =>
             /\ page.kind = page.editing.kind
             /\ \E record \in page.records : Key(record.row) = page.editing

\* A page that waits for each answer before it sends again, loses none and is
\* alone in writing shows, whenever nothing is under way, just the table,
\* whatever its user clicks and types meanwhile.
ListIsTrue ==
  \A p \in clean : ui[p].loaded /\ Quiet => {record.row : record \in ui[p].records} = table
=============================================================================
