---------------------------- MODULE EmployeeEditor ----------------------------
(***************************************************************************)
(* The administrator's pages over the list of employees: the dialog of one *)
(* employee (employees.tsx) and the change of a day for many (Admin.tsx).  *)
(*                                                                         *)
(* Three copies of a day exist: the mirror, the list "users", and the      *)
(* employee selected, which a save in the dialog does not refresh. Forms   *)
(* start from, and are compared with, the selected copy.                   *)
(***************************************************************************)
EXTENDS Integers, Sequences, FiniteSets

CONSTANTS
    Employees,
    Dates,          \* the days that may have punches
    Today,
    Keys,           \* the fields of a day, in the order of HourData
    Times,          \* times that can be typed
    Names, Phones,
    Pending,        \* saves under way at once
    MaxTyped,       \* bound: values typed
    MaxFlows,       \* bound: saves started
    MaxOdd,         \* bound: oddities in one behaviour
    Env             \* what else happens, a subset of Oddities

\* "overlap": a save, or a profile form, while another save is under way. "stale":
\* a form is taken from a selected employee who is recorded differently by now.
\* "fail": a command fails, or refuses a value. "others": a card, the portal or
\* another terminal changes a day.
Oddities == {"overlap", "stale", "fail", "others"}

ASSUME EmployeeEditorAssumption ==
    /\ Today \in Dates
    /\ Keys \in Seq(STRING) /\ Times # {}
    /\ {MaxTyped, MaxFlows, MaxOdd} \subseteq Nat
    /\ Env \subseteq Oddities

NA == "N/A"
Fields == {Keys[i] : i \in DOMAIN Keys}
NoDay == <<>>
BlankDay == [f \in Fields |-> NA]
Empty == [f \in Fields |-> ""]
Day == [Fields -> Times \cup {NA}]
Form == [Fields -> Times \cup {NA, ""}]
Profile == [name : Names, phone : Phones]

\* What get_cache returns of an employee.
View == [profile : Profile, days : [Dates -> Form \cup {NoDay}]]
List == UNION {[S -> View] : S \in SUBSET Employees}
NoUser == [of |-> "nobody"]
NoForm == [for |-> "nobody"]

NoSave == [kind |-> "idle"]
Flow ==
    [kind : {"edit"}, of : Employees, date : Dates, form : Form, todo : SUBSET Fields, ok : BOOLEAN]
    \cup [kind : {"delete"}, of : Employees, was : View, date : Dates, done : BOOLEAN]
    \cup [kind : {"profile"}, of : Employees, base : Profile, form : Profile, list : List,
          stage : {"asked", "updated", "got"}, got : List]
    \cup [kind : {"mass"}, todo : SUBSET (Employees \X Fields), time : Times, ok : BOOLEAN,
          stage : {"asked", "got"}, got : List]

VARIABLES
    row,        \* time_entries in the mirror
    profile,    \* employees in the mirror
    users,      \* React state: users
    open,       \* the dialog of an employee is open
    sel,        \* React state: selectedEmployee
    date,       \* React state: selectedDate
    form,       \* React state: hourData
    editing,    \* React state: enableEdit, negated
    modal,      \* React state: editUserForm; base is history, where it started
    flow,       \* the saves under way
    keyed, started,
    odd         \* history: the oddities that have happened

editorVars ==
    <<row, profile, users, open, sel, date, form, editing, modal, flow, keyed, started, odd>>
dialogState == <<open, sel, date, form, editing, modal>>

EditorTypeOK ==
    /\ row \in [Employees \X Dates -> Day \cup {NoDay}]
    /\ profile \in [Employees -> Profile]
    /\ users \in List
    /\ open \in BOOLEAN /\ editing \in BOOLEAN
    /\ sel \in [of : Employees, was : View] \cup {NoUser}
    /\ date \in Dates \cup {""}
    /\ form \in Form
    /\ modal \in [base : Profile, form : Profile] \cup {NoForm}
    /\ flow \in [Pending -> Flow \cup {NoSave}]
    /\ keyed \in Nat /\ started \in Nat /\ odd \subseteq Oddities

-----------------------------------------------------------------------------
Recorded(e) == [profile |-> profile[e], days |-> [d \in Dates |-> row[<<e, d>>]]]

\* get_cache collects the employees into a map by name: of several with one name
\* the last stays.
Listings ==
    {[e \in S |-> Recorded(e)] : S \in {S \in SUBSET Employees :
        \A e \in Employees : Cardinality({x \in S : profile[x].name = profile[e].name}) = 1}}

Settled == \A s \in Pending : flow[s] = NoSave
IsOdd(what) == odd' = odd \cup what /\ what \subseteq Env /\ Cardinality(odd') <= MaxOdd
Stale == IF sel.was = Recorded(sel.of) THEN {} ELSE {"stale"}
Starts(s, f) ==
    /\ flow[s] = NoSave /\ started < MaxFlows /\ started' = started + 1
    /\ flow' = [flow EXCEPT ![s] = f]
Goes(s, f) == flow' = [flow EXCEPT ![s] = f]
Overlap == IF Settled THEN {} ELSE {"overlap"}

\* The effect on selectedDate and selectedEmployee: hourData starts from them.
Loaded(u, d) ==
    IF u = NoUser \/ d = "" THEN Empty
    ELSE IF u.was.days[d] = NoDay THEN Empty ELSE u.was.days[d]

\* A new object with the same contents may, or may not, run the effect.
Selects(u, d) ==
    /\ sel' = u /\ date' = d
    /\ form' \in {Loaded(u, d)} \cup (IF <<u, d>> = <<sel, date>> THEN {form} ELSE {})

EditorInit ==
    /\ row \in [Employees \X Dates ->
                    {NoDay, [f \in Fields |-> IF f = Keys[1] THEN CHOOSE t \in Times : TRUE ELSE NA]}]
    /\ profile \in [Employees -> Profile]
    /\ \A e, x \in Employees : e # x => profile[e].name # profile[x].name
    /\ users \in Listings
    /\ open = FALSE /\ sel = NoUser /\ date = "" /\ form = Empty
    /\ editing = FALSE /\ modal = NoForm
    /\ flow = [s \in Pending |-> NoSave]
    /\ keyed = 0 /\ started = 0 /\ odd = {}

-----------------------------------------------------------------------------
(* The dialog of an employee.                                              *)

\* The dialog of the employee is in front.
InFront == open /\ modal = NoForm

\* The effect on selectedEmployee: the days that can be selected.
SortedDates == {d \in Dates : sel.was.days[d] # NoDay}
HasDayData == date \in SortedDates

\* A click on an employee: getUserData. What was selected, typed or enabled in
\* the dialog before is still there.
Opens(e) ==
    /\ ~open /\ e \in DOMAIN users
    /\ open' = TRUE
    /\ Selects([of |-> e, was |-> users[e]], date)
    /\ UNCHANGED <<row, profile, users, editing, modal, flow, keyed, started, odd>>

\* Escape leaves the state as it is; a click outside resets the day and the form.
Closes ==
    /\ InFront
    /\ open' = FALSE
    /\ \/ date' = "" /\ form' = Empty
       \/ UNCHANGED <<date, form>>
    /\ UNCHANGED <<row, profile, users, sel, editing, modal, flow, keyed, started, odd>>

SelectsDate(d) ==
    /\ InFront /\ date # d /\ d \in SortedDates
    /\ Selects(sel, d)
    /\ UNCHANGED <<row, profile, users, open, editing, modal, flow, keyed, started, odd>>

\* "Editar"
Enables ==
    /\ InFront /\ date # ""
    /\ editing' = ~editing
    /\ UNCHANGED <<row, profile, users, open, sel, date, form, modal, flow, keyed, started, odd>>

Types(f, text) ==
    /\ InFront /\ editing /\ date # ""
    /\ form[f] # text /\ keyed < MaxTyped /\ keyed' = keyed + 1
    /\ form' = [form EXCEPT ![f] = text]
    /\ UNCHANGED <<row, profile, users, open, sel, date, editing, modal, flow, started, odd>>

\* HandleEdit finds the keys that differ from the selected employee; a value that
\* was cleared is "N/A". The button stays enabled while a save is under way.
Saves(s) ==
    /\ InFront /\ editing /\ HasDayData
    /\ LET modified == {f \in Fields : form[f] # sel.was.days[date][f]}
           sent == [f \in Fields |-> IF f \in modified /\ form[f] = "" THEN NA ELSE form[f]]
       IN  /\ modified # {}
           /\ form' = sent
           /\ Starts(s, [kind |-> "edit", of |-> sel.of, date |-> date, form |-> sent,
                         todo |-> modified, ok |-> TRUE])
    /\ IsOdd(Overlap \cup Stale)
    /\ UNCHANGED <<row, profile, users, open, sel, date, editing, modal, keyed>>

\* set_field: one field of a day, which is made if there is none.
With(day, f, t) == [IF day = NoDay THEN BlankDay ELSE day EXCEPT ![f] = t]

First(fields) == Keys[CHOOSE i \in DOMAIN Keys :
                        Keys[i] \in fields /\ \A j \in 1..(i - 1) : Keys[j] \notin fields]

\* Mutant: a field that was refused does not count.
WritesFieldAnyway(s) ==
    /\ flow[s].kind = "edit" /\ flow[s].todo # {}
    /\ LET f == First(flow[s].todo)
           day == <<flow[s].of, flow[s].date>>
       IN  /\ \/ /\ flow[s].form[f] # NA
                 /\ row' = [row EXCEPT ![day] = With(@, f, flow[s].form[f])]
                 /\ UNCHANGED odd
              \/ IsOdd({"fail"}) /\ UNCHANGED row
           /\ Goes(s, [flow[s] EXCEPT !.todo = @ \ {f}])
    /\ UNCHANGED <<profile, users, dialogState, keyed, started>>

\* update_cache_hour_data for the next key: set_field, also of a day that is gone.
\* "N/A" is no time and is refused; the loop goes on with the next key.
WritesField(s) ==
    /\ flow[s].kind = "edit" /\ flow[s].todo # {}
    /\ LET f == First(flow[s].todo)
           day == <<flow[s].of, flow[s].date>>
       IN  \/ /\ flow[s].form[f] # NA
              /\ row' = [row EXCEPT ![day] = With(@, f, flow[s].form[f])]
              /\ Goes(s, [flow[s] EXCEPT !.todo = @ \ {f}])
              /\ UNCHANGED odd
           \/ /\ IsOdd({"fail"})
              /\ Goes(s, [flow[s] EXCEPT !.todo = @ \ {f}, !.ok = FALSE])
              /\ UNCHANGED row
    /\ UNCHANGED <<profile, users, dialogState, keyed, started>>

\* Mutant: the list keeps the other fields as it had them.
EndsEditUnlisted(s) ==
    /\ flow[s].kind = "edit" /\ flow[s].todo = {}
    /\ editing' = (editing /\ ~flow[s].ok)
    /\ Goes(s, NoSave)
    /\ UNCHANGED <<row, profile, users, open, sel, date, form, modal, keyed, started, odd>>

\* When every key was written the whole form goes into the list, not into the
\* selected employee. (Left out: total_hours, which is shown as it was when the
\* date was selected.)
EndsEdit(s) ==
    /\ flow[s].kind = "edit" /\ flow[s].todo = {}
    /\ LET f == flow[s] IN
          users' = IF f.ok /\ f.of \in DOMAIN users
                   THEN [users EXCEPT ![f.of].days[f.date] = f.form] ELSE users
    /\ editing' = (editing /\ ~flow[s].ok)
    /\ Goes(s, NoSave)
    /\ UNCHANGED <<row, profile, open, sel, date, form, modal, keyed, started, odd>>

-----------------------------------------------------------------------------
\* "Excluir dia": handleDeleteDay.
Deletes(s) ==
    /\ InFront /\ ~editing /\ HasDayData
    /\ \A x \in Pending : flow[x].kind # "delete"
    /\ Starts(s, [kind |-> "delete", of |-> sel.of, was |-> sel.was, date |-> date, done |-> FALSE])
    /\ IsOdd(Overlap \cup Stale)
    /\ UNCHANGED <<row, profile, users, dialogState, keyed>>

\* delete_time_entry_day; a day that is gone already is an error.
DeletesDay(s) ==
    /\ flow[s].kind = "delete" /\ ~flow[s].done
    /\ LET day == <<flow[s].of, flow[s].date>> IN
          \/ /\ row[day] # NoDay
             /\ row' = [row EXCEPT ![day] = NoDay]
             /\ Goes(s, [flow[s] EXCEPT !.done = TRUE])
             /\ UNCHANGED odd
          \/ /\ IsOdd({"fail"})
             /\ Goes(s, NoSave)
             /\ UNCHANGED row
    /\ UNCHANGED <<profile, users, dialogState, keyed, started>>

\* The list and the selection both get the employee as selected at the click,
\* without the day.
EndsDelete(s) ==
    /\ flow[s].kind = "delete" /\ flow[s].done
    /\ LET f == flow[s]
           left == [f.was EXCEPT !.days[f.date] = NoDay]
       IN  /\ users' = IF f.of \in DOMAIN users THEN [users EXCEPT ![f.of] = left] ELSE users
           /\ sel' = [of |-> f.of, was |-> left]
    /\ date' = "" /\ form' = Empty /\ editing' = FALSE
    /\ Goes(s, NoSave)
    /\ UNCHANGED <<row, profile, open, modal, keyed, started, odd>>

-----------------------------------------------------------------------------
\* "Editar perfil": the form starts from the selected employee.
OpensProfile(p) ==
    /\ InFront /\ p # sel.was.profile
    /\ keyed < MaxTyped /\ keyed' = keyed + 1
    /\ modal' = [base |-> sel.was.profile, form |-> p]
    /\ IsOdd(Overlap \cup Stale)
    /\ UNCHANGED <<row, profile, users, open, sel, date, form, editing, flow, started>>

CancelsProfile ==
    /\ modal # NoForm /\ \A s \in Pending : flow[s].kind # "profile"
    /\ modal' = NoForm
    /\ UNCHANGED <<row, profile, users, open, sel, date, form, editing, flow, keyed, started, odd>>

\* handleSaveProfile, with the list of the moment.
SavesProfile(s) ==
    /\ modal # NoForm /\ \A x \in Pending : flow[x].kind # "profile"
    /\ Starts(s, [kind |-> "profile", of |-> sel.of, base |-> modal.base, form |-> modal.form,
                  list |-> users, stage |-> "asked", got |-> users])
    /\ IsOdd(Overlap \cup Stale)
    /\ UNCHANGED <<row, profile, users, dialogState, keyed>>

\* Mutant: what the form does not say is set to nothing in particular.
UpdatesAll(s) ==
    /\ flow[s].kind = "profile" /\ flow[s].stage = "asked"
    /\ \/ /\ profile' = [profile EXCEPT ![flow[s].of] =
                            [flow[s].form EXCEPT !.phone = CHOOSE p \in Phones : p # flow[s].form.phone]]
          /\ Goes(s, [flow[s] EXCEPT !.stage = "updated"])
          /\ UNCHANGED odd
       \/ /\ IsOdd({"fail"}) /\ Goes(s, NoSave) /\ UNCHANGED profile
    /\ UNCHANGED <<row, users, dialogState, keyed, started>>

\* update_employee writes every field of the form. After an error the form stays.
\* (The access level goes to Better Auth: Accounts!SetsRoleOf.)
UpdatesProfile(s) ==
    /\ flow[s].kind = "profile" /\ flow[s].stage = "asked"
    /\ \/ /\ profile' = [profile EXCEPT ![flow[s].of] = flow[s].form]
          /\ Goes(s, [flow[s] EXCEPT !.stage = "updated"])
          /\ UNCHANGED odd
       \/ /\ IsOdd({"fail"}) /\ Goes(s, NoSave) /\ UNCHANGED profile
    /\ UNCHANGED <<row, users, dialogState, keyed, started>>

\* refreshUsers: get_cache answers.
GetsList(s) ==
    /\ flow[s].kind = "profile" /\ flow[s].stage = "updated"
    /\ \E list \in Listings : Goes(s, [flow[s] EXCEPT !.stage = "got", !.got = list])
    /\ UNCHANGED <<row, profile, users, dialogState, keyed, started, odd>>

\* setUsers, then getUserData of the render in which the save was clicked: the
\* employee is selected as the list had it before the save.
EndsProfile(s) ==
    /\ flow[s].kind = "profile" /\ flow[s].stage = "got"
    /\ users' = flow[s].got
    /\ LET f == flow[s] IN
          IF f.of \in DOMAIN f.list THEN Selects([of |-> f.of, was |-> f.list[f.of]], date)
                                    ELSE UNCHANGED <<sel, date, form>>
    /\ modal' = NoForm
    /\ Goes(s, NoSave)
    /\ UNCHANGED <<row, profile, open, editing, keyed, started, odd>>

-----------------------------------------------------------------------------
\* "Mudanca em massa": handleMassChange of one time for the chosen employees; all
\* commands are sent at once.
ChangesMany(s, chosen, f, t) ==
    /\ ~open /\ chosen # {} /\ chosen \subseteq DOMAIN users
    /\ keyed < MaxTyped /\ keyed' = keyed + 1
    /\ Starts(s, [kind |-> "mass", todo |-> chosen \X {f}, time |-> t, ok |-> TRUE,
                  stage |-> "asked", got |-> users])
    /\ IsOdd(Overlap)
    /\ UNCHANGED <<row, profile, users, dialogState>>

WritesOne(s) ==
    /\ flow[s].kind = "mass"
    /\ \E c \in flow[s].todo :
          LET day == <<c[1], Today>> IN
          \/ /\ row' = [row EXCEPT ![day] = With(@, c[2], flow[s].time)]
             /\ Goes(s, [flow[s] EXCEPT !.todo = @ \ {c}])
             /\ UNCHANGED odd
          \/ /\ IsOdd({"fail"})
             /\ Goes(s, [flow[s] EXCEPT !.todo = @ \ {c}, !.ok = FALSE])
             /\ UNCHANGED row
    /\ UNCHANGED <<profile, users, dialogState, keyed, started>>

\* The list is read again when all succeeded, and only then.
EndsMany(s) ==
    /\ flow[s].kind = "mass" /\ flow[s].todo = {}
    /\ \/ ~flow[s].ok /\ Goes(s, NoSave) /\ UNCHANGED users
       \/ /\ flow[s].ok /\ flow[s].stage = "asked" /\ UNCHANGED users
          /\ \E list \in Listings : Goes(s, [flow[s] EXCEPT !.stage = "got", !.got = list])
       \/ /\ flow[s].stage = "got" /\ users' = flow[s].got /\ Goes(s, NoSave)
    /\ UNCHANGED <<row, profile, dialogState, keyed, started, odd>>

-----------------------------------------------------------------------------
\* A card, the portal or another terminal writes a day.
OthersWrite ==
    /\ "others" \notin odd /\ IsOdd({"others"})
    /\ \E day \in Employees \X Dates, f \in Fields, t \in Times :
          row' = [row EXCEPT ![day] = With(@, f, t)]
    /\ UNCHANGED <<profile, users, dialogState, flow, keyed, started>>

\* The page is opened again: refreshUsers of AppProvider.
Refreshes ==
    /\ Settled /\ ~open
    /\ users' \in Listings
    /\ sel' = NoUser /\ date' = "" /\ form' = Empty /\ editing' = FALSE
    /\ UNCHANGED <<row, profile, open, modal, flow, keyed, started, odd>>

Proceeds(s) ==
    \/ WritesField(s) \/ EndsEdit(s) \/ DeletesDay(s) \/ EndsDelete(s)
    \/ UpdatesProfile(s) \/ GetsList(s) \/ EndsProfile(s) \/ WritesOne(s) \/ EndsMany(s)

Clicks(s) ==
    \/ Saves(s) \/ Deletes(s) \/ SavesProfile(s)
    \/ \E chosen \in SUBSET Employees, f \in Fields, t \in Times : ChangesMany(s, chosen, f, t)

EditorNext ==
    \/ \E s \in Pending : Proceeds(s) \/ Clicks(s)
    \/ \E e \in Employees : Opens(e)
    \/ \E d \in Dates : SelectsDate(d)
    \/ \E f \in Fields, text \in Times \cup {""} : Types(f, text)
    \/ \E p \in Profile : OpensProfile(p)
    \/ Closes \/ Enables \/ CancelsProfile \/ OthersWrite \/ Refreshes

EditorSpec == EditorInit /\ [][EditorNext]_editorVars

-----------------------------------------------------------------------------
Calm(excluded) == odd \cap excluded = {}

\* When nothing is under way the list says what is recorded of every employee in
\* it, after edits, deletions, profile changes and changes for many in any order,
\* unless one of the oddities happened: each of them leaves the list wrong.
ListTrue ==
    odd = {} /\ Settled => \A e \in DOMAIN users : users[e] = Recorded(e)

\* An edit that is to end with success has stored what the form shows, field by
\* field, also after a refused or failed field: HandleEdit writes only the keys
\* that differ from the selected employee, and then shows the whole form.
SavedIsStored ==
    Calm({"overlap", "stale", "others"}) =>
        \A s \in Pending : flow[s].kind = "edit" /\ flow[s].todo = {} /\ flow[s].ok =>
            row[<<flow[s].of, flow[s].date>>] = flow[s].form

\* Saving a profile changes what was changed in the form and nothing else, as long
\* as the form was taken from an employee who is selected as recorded:
\* update_employee writes every field, and the form starts from the selection.
ProfileKept ==
    [][Calm({"overlap", "stale"})' =>
          \A s \in Pending : flow[s].kind = "profile" /\ flow[s].stage = "asked" =>
              \A k \in {"name", "phone"} : flow[s].form[k] = flow[s].base[k] =>
                  profile'[flow[s].of][k] = profile[flow[s].of][k]]_editorVars

\* The list has every employee: get_cache "returns every employee with their
\* punches".
ListsEveryone == Settled => DOMAIN users = Employees

\* The same as SavedIsStored and ProfileKept, without conditions.
SavedAlways ==
    \A s \in Pending : flow[s].kind = "edit" /\ flow[s].todo = {} /\ flow[s].ok =>
        row[<<flow[s].of, flow[s].date>>] = flow[s].form
ProfileKeptAlways ==
    [][\A s \in Pending : flow[s].kind = "profile" /\ flow[s].stage = "asked" =>
          \A k \in {"name", "phone"} : flow[s].form[k] = flow[s].base[k] =>
              profile'[flow[s].of][k] = profile[flow[s].of][k]]_editorVars
=============================================================================
