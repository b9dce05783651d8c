------------------------------ MODULE PortalPage ------------------------------
(***************************************************************************)
(* The portal "Meus dados" in one browser (sidecar/portal/app.ts) and the  *)
(* routes of the sidecar behind it (index.ts, portal.ts).                  *)
(*                                                                         *)
(* The page keeps no order between its requests: whatever answers last is  *)
(* shown last, whoever is signed in by then. A request carries the cookie  *)
(* of the moment it is sent; the sidecar checks session and role again for *)
(* each one.                                                               *)
(***************************************************************************)
EXTENDS Integers, Sequences, FiniteSets

CONSTANTS
    Accounts,       \* employees with a login
    Requests,       \* requests under way at once
    Dates,
    Fields,         \* the punches of a day
    MaxRequests,    \* bound: requests sent by a click
    MaxOdd,         \* bound: oddities in one behaviour
    PortalEnv       \* what else happens, a subset of Oddities

\* "crossing": a sign-in, sign-out or forgotten password while an answer is
\* awaited. "loads", "edits": two of a kind at once. "others": an administrator
\* changes a role or a preference elsewhere.
Oddities == {"crossing", "loads", "edits", "others"}

ASSUME PortalPageAssumption ==
    /\ "nobody" \notin Accounts
    /\ IsFiniteSet(Dates)
    /\ {MaxRequests, MaxOdd} \subseteq Nat
    /\ PortalEnv \subseteq Oddities

Nobody == "nobody"
NoDay == <<>>
Day == [Fields -> {"none", "kiosk", "portal"}] \cup {NoDay}
Days == Accounts \X Dates

NoData == [of |-> Nobody]
Data == [of : Accounts, hidden : BOOLEAN, admin : BOOLEAN]
TableRow == [of : Accounts, date : Dates]

\* A request: "sent", "merging" (setPunchField between its two statements), then
\* answered "ok" or "refused".
Idle == [kind |-> "idle"]
Stages == {"sent", "merging", "ok", "refused"}
Callers == Accounts \cup {Nobody}
Request ==
    [kind : {"sign-in"}, by : Accounts, stage : Stages]
    \cup [kind : {"sign-out", "employees"}, by : Callers, stage : Stages]
    \cup [kind : {"data"}, by : Callers, login : BOOLEAN, stage : Stages, data : Data \cup {NoData}]
    \cup [kind : {"visibility"}, by : Callers, hidden : BOOLEAN, stage : Stages]
    \cup [kind : {"punches"}, by : Callers, of : Accounts, found : SUBSET Dates, stage : Stages]
    \cup [kind : {"save"}, by : Callers, day : Days, field : Fields, sources : SUBSET Fields, stage : Stages]
    \cup [kind : {"delete"}, by : Callers, day : Days, stage : Stages]

VARIABLES
    days,       \* time_entries in PostgreSQL
    marks,      \* punch_sources: the fields marked portal_admin
    hidden,     \* employees: exclude_from_report
    admins,     \* accounts with the role administrator
    live,       \* accounts with a session of this browser that is not ended
    cookie,     \* the browser: whose session it sends
    view,       \* the page: which of login and forgot are shown
    export,     \* the page: exportData; portal and admin-panel show with it
    checked,    \* the page: report-visibility
    options,    \* the page: admin-employee has its options
    picked,     \* the page: admin-employee
    rows,       \* the page: admin-entries
    signing,    \* the page: login-submit is disabled
    req,        \* the requests under way
    sent,       \* requests sent by a click so far
    odd         \* history: the oddities that have happened

server == <<days, marks, hidden, admins, live>>
portalPage == <<view, export, checked, options, picked, rows, signing>>
portalVars == <<server, cookie, portalPage, req, sent, odd>>

PortalTypeOK ==
    /\ days \in [Days -> Day] /\ marks \in [Days -> SUBSET Fields]
    /\ hidden \in [Accounts -> BOOLEAN]
    /\ admins \subseteq Accounts /\ live \subseteq Accounts
    /\ cookie \in Callers
    /\ view \subseteq {"login", "forgot"}
    /\ export \in Data \cup {NoData}
    /\ checked \in BOOLEAN /\ options \in BOOLEAN /\ signing \in BOOLEAN
    /\ picked \in Callers
    /\ rows \in Seq(TableRow)
    /\ req \in [Requests -> Request \cup {Idle}]
    /\ sent \in Nat /\ odd \subseteq Oddities

AskData(by, login) ==
    [kind |-> "data", by |-> by, login |-> login, stage |-> "sent", data |-> NoData]

\* The page is opened, with a session or without; fetchData restores it.
PortalInit ==
    /\ days \in [Days -> {NoDay, [f \in Fields |-> "kiosk"]}]
    /\ marks = [d \in Days |-> {}]
    /\ hidden = [a \in Accounts |-> FALSE]
    /\ admins \in SUBSET Accounts
    /\ cookie \in Callers /\ live = {cookie} \ {Nobody}
    /\ view = {"login"} /\ export = NoData /\ checked = FALSE
    /\ options = FALSE /\ picked = Nobody /\ rows = <<>> /\ signing = FALSE
    /\ \E s \in Requests : req = [x \in Requests |-> IF x = s THEN AskData(cookie, FALSE) ELSE Idle]
    /\ sent = 0 /\ odd = {}

-----------------------------------------------------------------------------
Settled == \A s \in Requests : req[s] = Idle
IsOdd(what) == odd' = odd \cup what /\ what \subseteq PortalEnv /\ Cardinality(odd') <= MaxOdd
UnderWay(kinds) == \E s \in Requests : req[s].kind \in kinds
Crossing == IF Settled THEN {} ELSE {"crossing"}
Loads == IF UnderWay({"punches"}) THEN {"loads"} ELSE {}
Edits == IF UnderWay({"save", "delete"}) THEN {"edits"} ELSE {}

Goes(s, r) == req' = [req EXCEPT ![s] = r]
Sends(s, r) == req[s] = Idle /\ sent < MaxRequests /\ sent' = sent + 1 /\ Goes(s, r)
AnswerWith(s, stage) == Goes(s, [req[s] EXCEPT !.stage = stage])

InPortal == export # NoData
InPanel == InPortal /\ export.admin

-----------------------------------------------------------------------------
(* What the user does.                                                     *)

SubmitsLogin(s, a) ==
    /\ "login" \in view /\ ~signing
    /\ signing' = TRUE
    /\ Sends(s, [kind |-> "sign-in", by |-> a, stage |-> "sent"])
    /\ IsOdd(Crossing)
    /\ UNCHANGED <<server, cookie, view, export, checked, options, picked, rows>>

\* forgot-link-btn and forgot-back
Forgets ==
    /\ \/ "login" \in view /\ view' = (view \ {"login"}) \cup {"forgot"}
       \/ "forgot" \in view /\ view' = (view \ {"forgot"}) \cup {"login"}
    /\ IsOdd(Crossing)
    /\ UNCHANGED <<server, cookie, export, checked, options, picked, rows, signing, req, sent>>

SignsOut(s) ==
    /\ InPortal
    /\ Sends(s, [kind |-> "sign-out", by |-> cookie, stage |-> "sent"])
    /\ IsOdd(Crossing)
    /\ UNCHANGED <<server, cookie, portalPage>>

\* report-visibility changes: the box shows it before the sidecar knows it.
Toggles(s) ==
    /\ InPanel
    /\ checked' = ~checked
    /\ Sends(s, [kind |-> "visibility", by |-> cookie, hidden |-> ~checked, stage |-> "sent"])
    /\ UNCHANGED <<server, cookie, view, export, options, picked, rows, signing, odd>>

AskPunches(e) ==
    [kind |-> "punches", by |-> cookie, of |-> e, found |-> {}, stage |-> "sent"]

\* Mutant: the rows of the employee before stay.
PicksUncleared(s, e) ==
    /\ InPanel /\ options /\ picked # e
    /\ picked' = e
    /\ Sends(s, AskPunches(e)) /\ IsOdd(Loads)
    /\ UNCHANGED <<server, cookie, view, export, checked, options, rows, signing>>

\* admin-employee changes to e: loadAdminPunches.
Picks(s, e) ==
    /\ InPanel /\ options /\ picked # e
    /\ picked' = e /\ rows' = <<>>
    /\ Sends(s, AskPunches(e)) /\ IsOdd(Loads)
    /\ UNCHANGED <<server, cookie, view, export, checked, options, signing>>

\* admin-employee changes to "Selecione um funcionario".
PicksNobody ==
    /\ InPanel /\ picked # Nobody
    /\ picked' = Nobody /\ rows' = <<>>
    /\ UNCHANGED <<server, cookie, view, export, checked, options, signing, req, sent, odd>>

\* A time of a row changes: savePunch.
EditsTime(s, row, f) ==
    /\ InPanel
    /\ Sends(s, [kind |-> "save", by |-> cookie, day |-> <<row.of, row.date>>, field |-> f,
                 sources |-> {}, stage |-> "sent"])
    /\ IsOdd(Edits)
    /\ UNCHANGED <<server, cookie, portalPage>>

\* "Excluir dia": deletePunch.
DeletesDay(s, row) ==
    /\ InPanel
    /\ Sends(s, [kind |-> "delete", by |-> cookie, day |-> <<row.of, row.date>>, stage |-> "sent"])
    /\ IsOdd(Edits)
    /\ UNCHANGED <<server, cookie, portalPage>>

\* The page is loaded again.
Reloads(s) ==
    /\ Settled
    /\ view' = {"login"} /\ export' = NoData /\ checked' = FALSE
    /\ options' = FALSE /\ picked' = Nobody /\ rows' = <<>> /\ signing' = FALSE
    /\ Sends(s, AskData(cookie, FALSE))
    /\ UNCHANGED <<server, cookie, odd>>

-----------------------------------------------------------------------------
(* The sidecar.                                                            *)

Asked(s, kind) == req[s].kind = kind /\ req[s].stage = "sent"

\* requireAdmin: session and role as they are now.
Permitted(a) == a \in live \cap admins

ServesSignIn(s) ==
    /\ Asked(s, "sign-in")
    /\ live' = live \cup {req[s].by}
    /\ AnswerWith(s, "ok")
    /\ UNCHANGED <<days, marks, hidden, admins, cookie, portalPage, sent, odd>>

ServesSignOut(s) ==
    /\ Asked(s, "sign-out")
    /\ live' = live \ {req[s].by}
    /\ AnswerWith(s, "ok")
    /\ UNCHANGED <<days, marks, hidden, admins, cookie, portalPage, sent, odd>>

\* loadPortalExport: what the portal knows of the employee of an account.
ExportOf(a) == [of |-> a, hidden |-> hidden[a], admin |-> a \in admins]

\* GET /portal/data: of the session's own employee.
ServesData(s) ==
    /\ Asked(s, "data") /\ req[s].by \in live
    /\ Goes(s, [req[s] EXCEPT !.stage = "ok", !.data = ExportOf(req[s].by)])
    /\ UNCHANGED <<server, cookie, portalPage, sent, odd>>

\* loadEmployeePunches: the days of an employee that have a row.
DatesOf(e) == {d \in Dates : days[<<e, d>>] # NoDay}

\* GET /portal/admin/employees and /portal/admin/punches
ServesLists(s) ==
    /\ \/ Asked(s, "employees") /\ Permitted(req[s].by) /\ AnswerWith(s, "ok")
       \/ /\ Asked(s, "punches") /\ Permitted(req[s].by)
          /\ Goes(s, [req[s] EXCEPT !.stage = "ok", !.found = DatesOf(req[s].of)])
    /\ UNCHANGED <<server, cookie, portalPage, sent, odd>>

\* POST /portal/admin/report-visibility: setReportVisibility
ServesVisibility(s) ==
    /\ Asked(s, "visibility") /\ Permitted(req[s].by)
    /\ hidden' = [hidden EXCEPT ![req[s].by] = req[s].hidden]
    /\ AnswerWith(s, "ok")
    /\ UNCHANGED <<days, marks, admins, live, cookie, portalPage, sent, odd>>

\* POST /portal/admin/punch: what the page sends is well formed.
ServesPunch(s) == Asked(s, "save") /\ Permitted(req[s].by)

\* setPunchField reads punch_sources and merges them
ReadsSources(s) ==
    /\ ServesPunch(s)
    /\ Goes(s, [req[s] EXCEPT !.stage = "merging",
                !.sources = marks[req[s].day] \cup {req[s].field}])
    /\ UNCHANGED <<server, cookie, portalPage, sent, odd>>

\* setPunchField: INSERT ... ON CONFLICT DO UPDATE of the column and the marks.
Upserts(s) ==
    /\ req[s].kind = "save" /\ req[s].stage = "merging"
    /\ LET d == req[s].day
           day == IF days[d] = NoDay THEN [f \in Fields |-> "none"] ELSE days[d]
       IN  /\ days' = [days EXCEPT ![d] = [day EXCEPT ![req[s].field] = "portal"]]
           /\ marks' = [marks EXCEPT ![d] = req[s].sources]
    /\ AnswerWith(s, "ok")
    /\ UNCHANGED <<hidden, admins, live, cookie, portalPage, sent, odd>>

\* POST /portal/admin/punch/delete: deletePunchDay
ServesDelete(s) ==
    /\ Asked(s, "delete") /\ Permitted(req[s].by)
    /\ days' = [days EXCEPT ![req[s].day] = NoDay]
    /\ marks' = [marks EXCEPT ![req[s].day] = {}]
    /\ AnswerWith(s, "ok")
    /\ UNCHANGED <<hidden, admins, live, cookie, portalPage, sent, odd>>

\* 401, 403, 404, 429, 500, or no connection: nothing was done.
Refuses(s) ==
    /\ req[s] # Idle /\ req[s].stage = "sent"
    /\ AnswerWith(s, "refused")
    /\ UNCHANGED <<server, cookie, portalPage, sent, odd>>

-----------------------------------------------------------------------------
(* What the page does with the answers.                                    *)

Answered(s, kind) == req[s].kind = kind /\ req[s].stage = "ok"

\* The response of the sign-in sets the cookie; fetchData follows.
SignedIn(s) ==
    /\ Answered(s, "sign-in")
    /\ cookie' = req[s].by
    /\ Goes(s, AskData(req[s].by, TRUE))
    /\ UNCHANGED <<server, portalPage, sent, odd>>

\* render; an administrator's page asks for the employees.
Renders(s) ==
    /\ Answered(s, "data")
    /\ export' = req[s].data
    /\ view' = view \ {"login"}
    /\ signing' = (signing /\ ~req[s].login)
    /\ checked' = IF req[s].data.admin THEN req[s].data.hidden ELSE checked
    /\ Goes(s, IF req[s].data.admin THEN [kind |-> "employees", by |-> cookie, stage |-> "sent"]
                                    ELSE Idle)
    /\ UNCHANGED <<server, cookie, options, picked, rows, sent, odd>>

\* loadAdminEmployees replaces the options, and with them the selection.
ListsEmployees(s) ==
    /\ Answered(s, "employees")
    /\ options' = TRUE /\ picked' = Nobody
    /\ Goes(s, Idle)
    /\ UNCHANGED <<server, cookie, view, export, checked, rows, signing, sent, odd>>

\* loadAdminPunches adds a row for each day found.
ListsPunches(s) ==
    /\ Answered(s, "punches")
    /\ \E order \in [1..Cardinality(req[s].found) -> req[s].found] :
          /\ {order[i] : i \in DOMAIN order} = req[s].found
          /\ rows' = rows \o [i \in DOMAIN order |-> [of |-> req[s].of, date |-> order[i]]]
    /\ Goes(s, Idle)
    /\ UNCHANGED <<server, cookie, view, export, checked, options, picked, signing, sent, odd>>

Saved(s) ==
    /\ Answered(s, "save")
    /\ Goes(s, Idle)
    /\ UNCHANGED <<server, cookie, portalPage, sent, odd>>

\* The day is gone: loadAdminPunches of its employee, whoever is picked by now.
Deleted(s) ==
    /\ Answered(s, "delete")
    /\ rows' = <<>>
    /\ Goes(s, AskPunches(req[s].day[1]))
    /\ IsOdd(Loads)
    /\ UNCHANGED <<server, cookie, view, export, checked, options, picked, signing, sent>>

\* The preference is saved: exportData takes what the box shows now.
Preferred(s) ==
    /\ Answered(s, "visibility")
    /\ export' = IF InPortal THEN [export EXCEPT !.hidden = checked] ELSE export
    /\ Goes(s, Idle)
    /\ UNCHANGED <<server, cookie, view, checked, options, picked, rows, signing, sent, odd>>

\* Mutant: the portal stays until the next render.
SignedOutShown(s) ==
    /\ req[s].kind = "sign-out" /\ req[s].stage \in {"ok", "refused"}
    /\ cookie' = IF req[s].stage = "ok" THEN Nobody ELSE cookie
    /\ view' = view \cup {"login"}
    /\ Goes(s, Idle)
    /\ UNCHANGED <<server, export, checked, options, picked, rows, signing, sent, odd>>

\* Whatever the sidecar said, the page shows the login again.
SignedOut(s) ==
    /\ req[s].kind = "sign-out" /\ req[s].stage \in {"ok", "refused"}
    /\ cookie' = IF req[s].stage = "ok" THEN Nobody ELSE cookie
    /\ export' = NoData /\ view' = view \cup {"login"}
    /\ Goes(s, Idle)
    /\ UNCHANGED <<server, checked, options, picked, rows, signing, sent, odd>>

\* An error, or an answer that is lost: the box goes back, the button is enabled.
Fails(s) ==
    /\ req[s] # Idle /\ req[s].kind # "sign-out"
    /\ req[s].stage \in {"refused", "ok"}
    /\ signing' = (signing /\ ~(req[s].kind = "sign-in" \/ (req[s].kind = "data" /\ req[s].login)))
    /\ checked' = IF req[s].kind = "visibility" THEN ~checked ELSE checked
    /\ Goes(s, Idle)
    /\ UNCHANGED <<server, cookie, view, export, options, picked, rows, sent, odd>>

-----------------------------------------------------------------------------
\* Elsewhere a role or a preference changes, or the sessions of an account end.
OthersChange ==
    /\ "others" \notin odd /\ IsOdd({"others"})
    /\ \E a \in Accounts :
          \/ admins' = (admins \ {a}) \cup ({a} \ admins) /\ UNCHANGED <<hidden, live>>
          \/ hidden' = [hidden EXCEPT ![a] = ~@] /\ UNCHANGED <<admins, live>>
          \/ live' = live \ {a} /\ UNCHANGED <<admins, hidden>>
    /\ UNCHANGED <<days, marks, cookie, portalPage, req, sent>>

Serves(s) ==
    \/ ServesSignIn(s) \/ ServesSignOut(s) \/ ServesData(s) \/ ServesLists(s)
    \/ ServesVisibility(s) \/ ReadsSources(s) \/ Upserts(s) \/ ServesDelete(s) \/ Refuses(s)

PageShows(s) ==
    \/ SignedIn(s) \/ Renders(s) \/ ListsEmployees(s) \/ ListsPunches(s) \/ Saved(s)
    \/ Deleted(s) \/ Preferred(s) \/ SignedOut(s) \/ Fails(s)

Clicks(s) ==
    \/ \E a \in Accounts : SubmitsLogin(s, a) \/ Picks(s, a)
    \/ \E i \in DOMAIN rows : DeletesDay(s, rows[i]) \/ \E f \in Fields : EditsTime(s, rows[i], f)
    \/ SignsOut(s) \/ Toggles(s) \/ Reloads(s)

PortalNext ==
    \/ \E s \in Requests : Serves(s) \/ PageShows(s) \/ Clicks(s)
    \/ Forgets \/ PicksNobody \/ OthersChange

PortalSpec == PortalInit /\ [][PortalNext]_portalVars
FairPortalSpec == PortalSpec /\ \A s \in Requests : WF_portalVars(Serves(s) \/ PageShows(s))

-----------------------------------------------------------------------------
Calm(excluded) == odd \cap excluded = {}

\* Whose data the portal shows is who the browser is signed in as, and the portal
\* is shown alone: through failed and repeated sign-ins and sign-outs, sessions
\* that end, and everything that answers late, as long as nobody signs in or out,
\* or forgets a password, while an answer is awaited.
SeesOwn ==
    Calm({"crossing"}) /\ InPortal => export.of = cookie /\ view = {}

\* The table for punches holds the days of one employee, each once, whatever
\* fails, is deleted, edited or signed out meanwhile, unless two loads overlap:
\* every row edits and deletes the day of its own employee.
RowsOfOne ==
    Calm({"loads"}) =>
        \A i, j \in DOMAIN rows :
            rows[i].of = rows[j].of /\ (i # j => rows[i].date # rows[j].date)

\* punch_sources marks just the fields set through the portal, unless two edits of
\* a day overlap: setPunchField reads, merges and writes it in two statements, and
\* a deletion ends both.
MarksExact ==
    Calm({"edits"}) =>
        \A d \in Days :
            marks[d] = IF days[d] = NoDay THEN {} ELSE {f \in Fields : days[d][f] = "portal"}

\* Whoever signed out is signed out, when the page shows the login again.
SignedOutIsOut ==
    [][\A s \in Requests : SignedOut(s) => cookie' = Nobody]_portalVars

\* A day that was deleted, after every edit of it was sent, stays deleted.
DeletedStays ==
    [][\A s \in Requests : Upserts(s) => days[req[s].day] # NoDay]_portalVars

\* The table shows the employee that is picked.
RowsPicked == Settled /\ rows # <<>> => rows[1].of = picked

\* The login button is enabled again.
SigningEnds == signing ~> ~signing
=============================================================================
