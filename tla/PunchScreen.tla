------------------------------ MODULE PunchScreen ------------------------------
(***************************************************************************)
(* The punch screen of one terminal during one day (Home.tsx, home.ts).    *)
(*                                                                         *)
(* Reading a card, verifying a code and recording a punch are promises: a  *)
(* flow keeps the list of employees it captured at the click, and every    *)
(* setUsers replaces the whole list by one made from that capture.         *)
(* CardService (card/service.rs) runs one operation at a time, in the      *)
(* order of the calls, and clears its cancel flag when an operation starts.*)
(***************************************************************************)
EXTENDS Integers, Sequences, FiniteSets

CONSTANTS
    Employees,
    NoLunch,        \* employees without lunch_time
    Flows,          \* flows under way at once
    Entry, Lunch, Hour, Exit, Tolerance,    \* the working hours, in ticks
    MaxBegun,       \* bound: punches of a day made before the screen starts
    LastHour,       \* bound: the highest value of the clock
    MaxFlows,       \* bound: flows started
    MaxOdd,         \* bound: oddities in one day
    ScreenEnv       \* what else happens, a subset of Oddities

\* "overlap": a click starts a flow while another is under way.
\* "others": the portal or another terminal changes the day.
\* "half": update_cache_hour_data fails after it, or the call before it, has
\* written the mirror.
\* "release": the dialog's "Ponto de Saida" ends the day before its order.
Oddities == {"overlap", "others", "half", "release"}

ASSUME PunchScreenAssumption ==
    /\ NoLunch \subseteq Employees
    /\ {Entry, Lunch, Hour, Exit, Tolerance, LastHour, MaxFlows, MaxOdd} \subseteq Nat
    /\ MaxBegun \in 0..4
    /\ ScreenEnv \subseteq Oddities
    /\ "status" \notin Flows

Order == <<"clock_in", "lunch_break_out", "lunch_break_return", "clocked_out">>
Fields == {Order[i] : i \in 1..4}
Unset == -1
Hours == 0..LastHour
NoDay == <<>>
Blank == [f \in Fields |-> Unset]

\* A day of hour_data, or none; the list of employees as the screen knows it.
Day == [Fields -> Hours \cup {Unset}] \cup {NoDay}
Users == [Employees -> Day]

Nobody == "nobody"
NoUser == [of |-> Nobody]
Sources == {"card", "manual_otp"}
Types == {"", "success", "destroy", "warning", "release", "info",
          "bypass-clock-out", "bypass-clock-lunch-return"}

\* messageDialog; "release" is a warning with the button "Ponto de Saida". The
\* last two fields are history: whose reading it answers, and how it was read.
Dialog == [open : BOOLEAN, type : Types, of : Employees \cup {Nobody}, how : Sources]
Hidden == [open |-> FALSE, type |-> "", of |-> Nobody, how |-> "card"]

NoFlow == [pc |-> "idle"]
Reading == [pc : {"queued", "waiting", "verifying"}, seen : Users]
Identified == [pc : {"identified"}, seen : Users, of : Employees \cup {Nobody}]
Calls == {"only", "first", "second"}

\* A punch on its way. handleSkipValidation calls UpdateUser ("first") and then
\* updateUserHourData, which calls it again ("second") or is the only one to do so.
\* The last two fields are history.
Recording == [pc : {"updating", "written"}, seen : Users, of : Employees, check : Day,
              field : Fields, hour : Hours, source : Sources, call : Calls,
              asked : Employees \cup {Nobody}, how : Sources]

VARIABLES
    row,        \* time_entries of the day in the mirror
    users,      \* React state: users
    asking,     \* React state: openPunchDialog
    noCard,     \* React state: the dialog "Ponto sem cartao"
    dialog,     \* React state: messageDialogOpen, dialogMessage
    clockUser,  \* React state: clockUser, the employee with the day captured
    source,     \* React state: activePunchSource
    flow,       \* the promises under way
    queue,      \* CardService: the callers of with_ctx; the first holds op_lock
    cancel,     \* CardService: the cancel flag
    clock,
    begun,      \* flows started so far
    odd         \* history: the oddities that have happened

screenVars == <<row, users, asking, noCard, dialog, clockUser, source, flow, queue, cancel,
                clock, begun, odd>>
screen == <<asking, noCard, dialog, clockUser, source>>
service == <<queue, cancel>>

ScreenTypeOK ==
    /\ row \in Users /\ users \in Users
    /\ asking \in BOOLEAN
    /\ noCard \in {"closed", "email", "otp", "verifying"}
    /\ dialog \in Dialog
    /\ clockUser \in [of : Employees, check : Day] \cup {NoUser}
    /\ source \in Sources
    /\ flow \in [Flows -> {NoFlow} \cup Reading \cup Identified \cup Recording]
    /\ queue \in Seq(Flows \cup {"status"})
    /\ cancel \in BOOLEAN
    /\ clock \in Nat /\ begun \in Nat
    /\ odd \subseteq Oddities

\* The days with which the screen may start: the first n punches were made at 0.
Begun == {NoDay} \cup {[f \in Fields |-> IF \E i \in 1..n : Order[i] = f THEN 0 ELSE Unset] : n \in 1..MaxBegun}

ScreenInit ==
    /\ row \in [Employees -> Begun] /\ users = row
    /\ asking = FALSE /\ noCard = "closed" /\ dialog = Hidden
    /\ clockUser = NoUser /\ source = "card"
    /\ flow = [s \in Flows |-> NoFlow]
    /\ queue = <<>> /\ cancel = FALSE
    /\ clock = 0 /\ begun = 0 /\ odd = {}

-----------------------------------------------------------------------------
(* The day's logic: handleRegularDayLogic.                                 *)

\* The first field without a value; "none" when the day is complete.
NextField(day) ==
    IF \A f \in Fields : day[f] # Unset THEN "none"
    ELSE Order[CHOOSE i \in 1..4 : day[Order[i]] = Unset
                                   /\ \A j \in 1..(i - 1) : day[Order[j]] # Unset]

Around(t, hour) == t \in (hour - Tolerance)..(hour + Tolerance)

\* Mutant: within the hours of entry every tap is an entry.
RecordsEntry(e, day, t, f) == f = "clock_in" /\ (day = NoDay \/ t >= Entry - Tolerance)

\* Employee e, whose day is known as "day", records field f at time t.
Records(e, day, t, f) ==
    \/ day = NoDay /\ f = "clock_in"
    \/ /\ day # NoDay /\ f = NextField(day)
       /\ \/ f = "clock_in" /\ t >= Entry - Tolerance
          \/ f = "lunch_break_out" /\ e \notin NoLunch /\ Around(t, Lunch)
          \/ f = "lunch_break_return" /\ Around(t, day["lunch_break_out"] + Hour)
          \/ f = "clocked_out" /\ t >= Exit

\* The dialog that answers when no field is recorded.
Refusal(day, t) ==
    CASE NextField(day) = "clock_in" -> "warning"
      [] NextField(day) = "lunch_break_out" -> "release"
      [] NextField(day) = "lunch_break_return" ->
            IF t > day["lunch_break_out"] + Hour + Tolerance
            THEN "release" ELSE "bypass-clock-lunch-return"
      [] NextField(day) = "clocked_out" -> "bypass-clock-out"
      [] OTHER -> "info"

With(day, f, t) == [IF day = NoDay THEN Blank ELSE day EXCEPT ![f] = t]
Shows(type, e, how) == [open |-> TRUE, type |-> type, of |-> e, how |-> how]

\* setDialogMessage alone: what it says is seen when the dialog is open already,
\* and is replaced before the dialog opens again.
Replaces(type) ==
    dialog' = IF dialog.open THEN [dialog EXCEPT !.type = type] ELSE dialog

Settled == \A s \in Flows : flow[s] = NoFlow
Starts == begun < MaxFlows /\ begun' = begun + 1
IsOdd(what) == odd' = odd \cup what /\ what \subseteq ScreenEnv /\ Cardinality(odd') <= MaxOdd
Overlap == IF Settled THEN {} ELSE {"overlap"}
FlowTo(s, f) == flow' = [flow EXCEPT ![s] = f]

\* HandleClockIn without skipValidation, for the employee as the flow captured it.
ClocksIn(s, seen, e, how) ==
    \/ \E f \in Fields :
          /\ Records(e, seen[e], clock, f)
          /\ FlowTo(s, [pc |-> "updating", seen |-> seen, of |-> e, check |-> seen[e],
                        field |-> f, hour |-> clock, source |-> how, call |-> "only",
                        asked |-> e, how |-> how])
          /\ UNCHANGED dialog
    \/ /\ \A f \in Fields : ~Records(e, seen[e], clock, f)
       /\ dialog' = Shows(Refusal(seen[e], clock), e, how)
       /\ FlowTo(s, NoFlow)

-----------------------------------------------------------------------------
(* Cards: HandleGetUser over card_await_tap.                               *)

\* "Bater Ponto": no dialog covers the button.
Clicks(s) ==
    /\ flow[s] = NoFlow
    /\ ~asking /\ ~dialog.open /\ noCard = "closed"
    /\ asking' = TRUE /\ source' = "card"
    /\ FlowTo(s, [pc |-> "queued", seen |-> users])
    /\ queue' = Append(queue, s)
    /\ Starts
    /\ IsOdd(Overlap)
    /\ UNCHANGED <<row, users, noCard, dialog, clockUser, cancel, clock>>

\* reader_status, every 15 seconds.
Polls ==
    /\ \A i \in 1..Len(queue) : queue[i] # "status"
    /\ queue' = Append(queue, "status")
    /\ UNCHANGED <<row, users, screen, flow, cancel, clock, begun, odd>>

\* reader_status gets op_lock: with_ctx clears the flag.
Polled ==
    /\ queue # <<>> /\ Head(queue) = "status"
    /\ queue' = Tail(queue) /\ cancel' = FALSE
    /\ UNCHANGED <<row, users, screen, flow, clock, begun, odd>>

\* await_card_uid gets op_lock.
Waits(s) ==
    /\ flow[s].pc = "queued" /\ queue # <<>> /\ Head(queue) = s
    /\ cancel' = FALSE
    /\ FlowTo(s, [flow[s] EXCEPT !.pc = "waiting"])
    /\ UNCHANGED <<row, users, screen, queue, clock, begun, odd>>

\* wait_for_card sees a card, even one that comes with the cancel; what the
\* terminal makes of it is known when tap returns.
SeesCard(s) ==
    /\ flow[s].pc = "waiting"
    /\ \E e \in Employees \cup {Nobody} :
          FlowTo(s, [pc |-> "identified", seen |-> flow[s].seen, of |-> e])
    /\ queue' = Tail(queue)
    /\ UNCHANGED <<row, users, screen, cancel, clock, begun, odd>>

\* wait_for_card is cancelled or times out: HandleGetUser's catch sets the
\* message, and opens nothing.
GivesUp(s) ==
    /\ flow[s].pc = "waiting"
    /\ queue' = Tail(queue)
    /\ FlowTo(s, NoFlow)
    /\ Replaces("destroy")
    /\ UNCHANGED <<row, users, asking, noCard, clockUser, source, cancel, clock, begun, odd>>

\* card_await_tap returns "ok".
TapOk(s) ==
    /\ flow[s].pc = "identified" /\ flow[s].of # Nobody
    /\ clockUser' = [of |-> flow[s].of, check |-> flow[s].seen[flow[s].of]]
    /\ ClocksIn(s, flow[s].seen, flow[s].of, "card")
    /\ UNCHANGED <<row, users, asking, noCard, source, service, clock, begun, odd>>

\* Any other outcome, or an employee that is not in the list; HandleCloseRead.
TapRefused(s) ==
    /\ flow[s].pc = "identified" /\ flow[s].of = Nobody
    /\ dialog' = Shows("destroy", Nobody, "card")
    /\ clockUser' = NoUser /\ cancel' = TRUE
    /\ FlowTo(s, NoFlow)
    /\ UNCHANGED <<row, users, asking, noCard, source, queue, clock, begun, odd>>

\* "Cancelar" of the reading dialog; HandleCloseRead.
Cancels ==
    /\ asking /\ ~dialog.open
    /\ asking' = FALSE /\ clockUser' = NoUser /\ cancel' = TRUE
    /\ UNCHANGED <<row, users, noCard, dialog, source, flow, queue, clock, begun, odd>>

-----------------------------------------------------------------------------
(* Codes: the dialog "Ponto sem cartao".                                   *)

\* openNoCardFlow
OpensNoCard ==
    /\ asking /\ ~dialog.open
    /\ asking' = FALSE /\ clockUser' = NoUser /\ cancel' = TRUE /\ noCard' = "email"
    /\ UNCHANGED <<row, users, dialog, source, flow, queue, clock, begun, odd>>

\* handleRequestOtp: the code was sent; an error leaves the dialog as it is.
RequestsOtp ==
    /\ ~dialog.open
    /\ noCard = "email" /\ noCard' = "otp"
    /\ UNCHANGED <<row, users, asking, dialog, clockUser, source, flow, service, clock,
                   begun, odd>>

\* "Voltar"; closing the dialog, by Escape also while a verification is under way.
NoCardMoves ==
    /\ ~dialog.open
    /\ \/ noCard = "otp" /\ noCard' = "email"
       \/ noCard # "closed" /\ noCard' = "closed"
    /\ UNCHANGED <<row, users, asking, dialog, clockUser, source, flow, service, clock,
                   begun, odd>>

\* handleVerifyOtp
Verifies(s) ==
    /\ flow[s] = NoFlow
    /\ noCard = "otp" /\ ~dialog.open
    /\ noCard' = "verifying"
    /\ FlowTo(s, [pc |-> "verifying", seen |-> users])
    /\ Starts
    /\ IsOdd(Overlap)
    /\ UNCHANGED <<row, users, asking, dialog, clockUser, source, service, clock>>

\* Mutant: the source of the next dialogs stays the one before.
VerifiedUnmarked(s) ==
    /\ flow[s].pc = "verifying"
    /\ \E e \in Employees :
          /\ clockUser' = [of |-> e, check |-> flow[s].seen[e]]
          /\ ClocksIn(s, flow[s].seen, e, "manual_otp")
    /\ noCard' = "closed"
    /\ UNCHANGED <<row, users, asking, source, service, clock, begun, odd>>

\* VerifyPunchOtp returns an employee.
Verified(s) ==
    /\ flow[s].pc = "verifying"
    /\ \E e \in Employees :
          /\ clockUser' = [of |-> e, check |-> flow[s].seen[e]]
          /\ ClocksIn(s, flow[s].seen, e, "manual_otp")
    /\ source' = "manual_otp" /\ noCard' = "closed"
    /\ UNCHANGED <<row, users, asking, service, clock, begun, odd>>

\* VerifyPunchOtp fails: the error shows in the dialog.
VerifyFails(s) ==
    /\ flow[s].pc = "verifying"
    /\ FlowTo(s, NoFlow)
    /\ noCard' = IF noCard = "verifying" THEN "otp" ELSE noCard
    /\ UNCHANGED <<row, users, asking, dialog, clockUser, source, service, clock, begun, odd>>

-----------------------------------------------------------------------------
(* Recording a punch: updateUserHourData, handleSkipValidation.            *)

\* update_cache_hour_data writes the mirror.
Writes(s) ==
    /\ flow[s].pc = "updating"
    /\ row' = [row EXCEPT ![flow[s].of] = With(@, flow[s].field, flow[s].hour)]
    /\ FlowTo(s, [flow[s] EXCEPT !.pc = "written"])
    /\ UNCHANGED <<users, screen, service, clock, begun, odd>>

\* Mutant: the list on the screen is left as it was.
ResolvesUnseen(s) ==
    /\ flow[s].pc = "written"
    /\ dialog' = Shows("success", flow[s].of, flow[s].source)
    /\ IF flow[s].call = "first" THEN FlowTo(s, [flow[s] EXCEPT !.pc = "updating", !.call = "second"])
                                 ELSE FlowTo(s, NoFlow)
    /\ UNCHANGED <<row, users, asking, noCard, clockUser, source, service, clock, begun, odd>>

\* UpdateUser resolves. handleSkipValidation shows the success and lets
\* updateUserHourData record the same field again; only that one sets the users.
Resolves(s) ==
    /\ flow[s].pc = "written"
    /\ dialog' = Shows("success", flow[s].of, flow[s].source)
    /\ LET f == flow[s] IN
          IF f.call = "first"
          THEN /\ FlowTo(s, [f EXCEPT !.pc = "updating", !.call = "second"])
               /\ UNCHANGED users
          ELSE /\ FlowTo(s, NoFlow)
               /\ users' = [f.seen EXCEPT ![f.of] = With(f.check, f.field, f.hour)]
    /\ UNCHANGED <<row, asking, noCard, clockUser, source, service, clock, begun, odd>>

\* UpdateUser rejects; handleSkipValidation's catch opens no dialog.
UpdateFails(s) ==
    /\ flow[s].pc \in {"updating", "written"}
    /\ IsOdd(IF flow[s].pc = "updating" /\ flow[s].call # "second" THEN {} ELSE {"half"})
    /\ IF flow[s].call = "first" THEN Replaces("destroy")
       ELSE dialog' = Shows("destroy", flow[s].of, flow[s].source)
    /\ FlowTo(s, NoFlow)
    /\ UNCHANGED <<row, users, asking, noCard, clockUser, source, service, clock, begun>>

-----------------------------------------------------------------------------
(* The message dialog.                                                     *)

Bypass == [type \in {"bypass-clock-out", "bypass-clock-lunch-return", "release"} |->
             IF type = "bypass-clock-lunch-return" THEN "lunch_break_return" ELSE "clocked_out"]

\* "Confirmar", "Ponto de Saida": HandleClockIn with skipValidation, for clockUser
\* and with the source of the moment. Without a clockUser nothing is recorded.
Confirms(s) ==
    /\ dialog.open /\ dialog.type \in DOMAIN Bypass
    /\ flow[s] = NoFlow
    /\ dialog' = Hidden
    /\ IF clockUser = NoUser
       THEN /\ asking' = IF dialog.type = "release" THEN FALSE ELSE asking
            /\ UNCHANGED <<flow, begun, odd>>
       ELSE /\ asking' = FALSE
            /\ Starts
            /\ FlowTo(s, [pc |-> "updating", seen |-> users, of |-> clockUser.of,
                          check |-> clockUser.check, field |-> Bypass[dialog.type],
                          hour |-> clock, source |-> source, call |-> "first",
                          asked |-> dialog.of, how |-> dialog.how])
            /\ IsOdd(Overlap \cup ({dialog.type} \cap {"release"}))
    /\ UNCHANGED <<row, users, noCard, clockUser, source, service, clock>>

\* The buttons that close both dialogs, and Escape, which closes this one only.
Dismisses ==
    /\ dialog.open
    /\ dialog' = Hidden
    /\ asking' \in {asking, FALSE}
    /\ UNCHANGED <<row, users, noCard, clockUser, source, flow, service, clock, begun, odd>>

-----------------------------------------------------------------------------
\* The screen is opened again: refreshUsers.
Refreshes ==
    /\ Settled /\ ~asking /\ ~dialog.open /\ noCard = "closed"
    /\ users' = row
    /\ UNCHANGED <<row, screen, flow, service, clock, begun, odd>>

\* A pull brings what the portal or another terminal wrote.
OthersWrite ==
    /\ "others" \notin odd /\ IsOdd({"others"})
    /\ \E e \in Employees, f \in Fields : row' = [row EXCEPT ![e] = With(@, f, clock)]
    /\ UNCHANGED <<users, screen, flow, service, clock, begun>>

HourPasses ==
    /\ clock < LastHour
    /\ clock' = clock + 1
    /\ UNCHANGED <<row, users, screen, flow, service, begun, odd>>

\* The steps nobody decides on: the service and the promises go on.
Proceeds(s) ==
    \/ Waits(s) \/ SeesCard(s) \/ GivesUp(s) \/ TapOk(s) \/ TapRefused(s)
    \/ Verified(s) \/ VerifyFails(s) \/ Writes(s) \/ Resolves(s) \/ UpdateFails(s)

ScreenNext ==
    \/ \E s \in Flows : Proceeds(s) \/ Clicks(s) \/ Verifies(s) \/ Confirms(s)
    \/ Polls \/ Polled \/ Cancels \/ OpensNoCard \/ RequestsOtp \/ NoCardMoves
    \/ Dismisses
    \/ Refreshes \/ OthersWrite \/ HourPasses

ScreenSpec == ScreenInit /\ [][ScreenNext]_screenVars

\* wait_for_card has a deadline, commands and requests end, op_lock is fair.
FairScreenSpec == ScreenSpec /\ WF_screenVars(Polled) /\ \A s \in Flows : WF_screenVars(Proceeds(s))

-----------------------------------------------------------------------------
Calm(excluded) == odd \cap excluded = {}

\* A punch is recorded once: no later tap, code or confirmed dialog changes a
\* field that has a value, as long as no flow overlaps another, nobody else
\* writes the day, no command fails half-way and no dialog's "Ponto de Saida" was
\* used. handleRegularDayLogic decides on what the flow captured, and set_field
\* overwrites whatever is there.
PunchStays ==
    [][\A e \in Employees, f \in Fields :
          /\ row[e] # NoDay /\ row[e][f] # Unset
          /\ odd' = {}
          => row'[e][f] = row[e][f]]_screenVars

\* The status of an employee in the list of the day.
PunchStatus(day) ==
    CASE day = NoDay -> "absent"
      [] day["clock_in"] = Unset -> "absent"
      [] day["clocked_out"] # Unset -> "done"
      [] day["lunch_break_out"] # Unset /\ day["lunch_break_return"] = Unset -> "lunch"
      [] OTHER -> "working"

\* "Pontos do dia": each employee with the status, and the dialog of its punches.
Listed(list) == [e \in Employees |-> [status |-> PunchStatus(list[e]), punches |-> list[e]]]

\* When nothing is under way the list of the day shows what is recorded.
ScreenIsTrue == Settled /\ Calm({"overlap", "others", "half"}) => Listed(users) = Listed(row)

\* A confirmed dialog acts for the employee whose reading it answered, and marks
\* how that employee was read, although it takes both from state that any
\* other flow may have set since.
ActsForAsked ==
    Calm({"overlap"}) =>
        \A s \in Flows : flow[s].pc \in {"updating", "written"} =>
            flow[s].of = flow[s].asked /\ flow[s].source = flow[s].how

\* Every flow ends, whatever was cancelled and whichever cancel was lost.
FlowsEnd == \A s \in Flows : flow[s] # NoFlow ~> flow[s] = NoFlow

\* A punch once recorded stays, without conditions.
PunchOnce ==
    [][\A e \in Employees, f \in Fields :
          row[e] # NoDay /\ row[e][f] # Unset => row'[e][f] = row[e][f]]_screenVars

\* While the screen asks for a card, somebody waits for it or the message that
\* ended the wait is shown.
AskedIsHeard == asking /\ ~dialog.open => \E s \in Flows : flow[s] # NoFlow

\* A punch that fails is told.
FailureShown == [][\A s \in Flows : UpdateFails(s) => dialog'.open]_screenVars

\* Nothing is recorded after the end of the day.
DayEnds ==
    [][\A e \in Employees :
          row[e] # NoDay /\ row[e]["clocked_out"] # Unset => row'[e] = row[e]]_screenVars
=============================================================================
