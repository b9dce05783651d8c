----------------------------- MODULE MissedPunch -----------------------------
(***************************************************************************)
(* The reminders of one sidecar (missed-punch.ts): a timer of a minute     *)
(* looks for punches that are missing some time after the end of the day,  *)
(* or after the lunch of an employee, and mails their owners.              *)
(*                                                                         *)
(* A tick waits for PostgreSQL and for the mail server, so that ticks      *)
(* overlap and outlive the day they started in; what was sent is kept in   *)
(* memory under the date of the moment it is written.                      *)
(***************************************************************************)
EXTENDS Integers, FiniteSets

CONSTANTS
    Staff,
    Addressed,      \* those of them with an e-mail
    LunchTimes,     \* minutes of the day
    Exits, Halves,  \* of a schedule: toMinutes(exit), half the tolerance
    Minutes,        \* bound: minutes of a day
    LastMinutes,    \* bound: minutes in all, from the first midnight
    Slots,          \* bound: ticks under way at once
    Env             \* what else happens, a subset of Oddities

\* "restart": the sidecar ends and is started again. "failure": a query or a mail
\* fails. "asleep": a minute passes without a tick. "edit": an employee gets another
\* lunch time, or is terminated.
Oddities == {"restart", "failure", "asleep", "edit"}

ASSUME MissedPunchAssumption ==
    /\ Addressed \subseteq Staff
    /\ LunchTimes \subseteq Nat /\ Exits \subseteq Nat /\ Halves \subseteq Nat
    /\ Minutes \in Nat \ {0} /\ LastMinutes \in Nat
    /\ Env \subseteq Oddities

Days == 0..(LastMinutes \div Minutes)
ExitCheck(d) == [kind |-> "exit", day |-> d, lunch |-> 0]

\* Mutant: one check for all lunches.
OneLunchCheck(d, l) == [kind |-> "lunch", day |-> d, lunch |-> 0]

LunchCheck(d, l) == [kind |-> "lunch", day |-> d, lunch |-> l]
Checks == {ExitCheck(d) : d \in Days} \cup {LunchCheck(d, l) : d \in Days, l \in LunchTimes}

VARIABLES
    day, minute,    \* the clock of the machine
    hours,          \* the schedule the terminal has to push
    pushed,         \* what was pushed: a subset of {"hours", "smtp"}
    fired,          \* the timer has fired in this minute
    sent,           \* sentChecks: pairs of a date and a check
    tick,           \* the ticks under way
    entry,          \* time_entries: the punches of each day
    lunchOf,        \* employees.lunch_time
    active,         \* employees whose status is active
    reminded,       \* history: reminders mailed since the sidecar was started
    twice,          \* history: those mailed a second time
    waiting,        \* history: punches missing since the time of their check, not reminded of
    ticked,         \* history: days in whose last minute a tick found all it needs
    spoilt,         \* history: days with a failure
    crossed         \* history: days of ticks that went on after midnight

clock == <<day, minute, fired>>
config == <<hours, pushed>>
data == <<entry, lunchOf, active>>
history == <<reminded, twice, waiting, ticked, spoilt, crossed>>
vars == <<clock, config, sent, tick, data, history>>

Idle == [at |-> "idle"]
Stages == {"exit", "times", "lunch", "mail"}
TickState == {Idle} \cup
    [at : Stages, day : Days, now : 0..(Minutes - 1), check : Checks,
     left : SUBSET LunchTimes, rows : SUBSET Staff]

\* A day as a terminal or the portal can leave it; "left": gone without the return
\* from lunch.
Punches == {"none", "in", "lunch", "back", "out", "left"}

TypeOK ==
    /\ day \in Days /\ minute \in 0..(Minutes - 1) /\ fired \in BOOLEAN
    /\ hours \in [exit : Exits, half : Halves] /\ pushed \subseteq {"hours", "smtp"}
    /\ sent \subseteq Days \X Checks
    /\ tick \in [Slots -> TickState]
    /\ entry \in [Days -> [Staff -> Punches]]
    /\ lunchOf \in [Staff -> LunchTimes] /\ active \subseteq Staff
    /\ reminded \subseteq Checks \X Staff /\ twice \subseteq reminded
    /\ waiting \subseteq Checks \X Staff
    /\ {ticked, spoilt, crossed} \subseteq SUBSET Days

Init ==
    /\ day = 0 /\ minute = 0 /\ fired = FALSE
    /\ hours \in [exit : Exits, half : Halves]
    /\ pushed = {"hours", "smtp"}
    /\ sent = {} /\ tick = [i \in Slots |-> Idle]
    /\ entry = [d \in Days |-> [e \in Staff |-> "none"]]
    /\ lunchOf \in [Staff -> LunchTimes] /\ active = Staff
    /\ reminded = {} /\ twice = {} /\ waiting = {}
    /\ ticked = {} /\ spoilt = {} /\ crossed = {}

-----------------------------------------------------------------------------
Running == {i \in Slots : tick[i] # Idle}
LastMinute == minute = Minutes - 1

\* The WHERE of the two queries.
ExitRows(d) == {e \in Staff : entry[d][e] \in {"in", "lunch", "back", "left"}}
LunchRows(d, l) == {e \in Staff : lunchOf[e] = l /\ entry[d][e] \in {"lunch", "left"}}

ExitDue == hours.exit + hours.half
LunchDue(l) == l + hours.half

\* alreadySent looks under the date of now, whatever day the check is of.
AlreadySent(check) == <<day, check>> \in sent

\* Mutant: the condition is the other way round.
OnlyStale == {s \in sent : s[1] # day}

\* clearStale
Fresh == {s \in sent : s[1] = day}

Becomes(i, t) == tick' = [tick EXCEPT ![i] = t]

\* The callback of setInterval, up to its first await.
Ticks(i) ==
    /\ ~fired /\ fired' = TRUE
    /\ IF pushed # {"hours", "smtp"}
       THEN UNCHANGED <<sent, tick, ticked>>
       ELSE LET check == ExitCheck(day)
                due == minute >= ExitDue /\ <<day, check>> \notin Fresh
            IN  /\ tick[i] = Idle
                /\ sent' = IF due THEN Fresh \cup {<<day, check>>} ELSE Fresh
                /\ Becomes(i, [at |-> IF due THEN "exit" ELSE "times", day |-> day, now |-> minute,
                               check |-> check, left |-> {}, rows |-> {}])
                /\ ticked' = IF LastMinute THEN ticked \cup {day} ELSE ticked
    /\ UNCHANGED <<day, minute, config, data, reminded, twice, waiting, spoilt, crossed>>

Mailing(t, rows) == [t EXCEPT !.at = "mail", !.rows = rows \cap Addressed]

\* runExitCheck: the query.
ReadsExit(i) ==
    /\ tick[i].at = "exit"
    /\ Becomes(i, Mailing(tick[i], ExitRows(tick[i].day)))
    /\ UNCHANGED <<clock, config, sent, data, history>>

\* runLunchChecks: the loop, up to its next await or its end. The employees come in
\* any order; those whose check is not due or was sent are passed over.
GoesOn(i, left) ==
    LET t == tick[i]
        firing == {l \in left : t.now >= LunchDue(l) /\ ~AlreadySent(LunchCheck(t.day, l))}
    IN  IF firing = {} THEN Becomes(i, Idle) /\ UNCHANGED <<sent, crossed>>
        ELSE \E l \in firing, passed \in SUBSET (left \ firing) :
                LET check == LunchCheck(t.day, l) IN
                /\ sent' = sent \cup {<<day, check>>}
                /\ Becomes(i, [t EXCEPT !.at = "lunch", !.check = check, !.left = left \ (passed \cup {l})])
                /\ crossed' = IF t.day = day THEN crossed ELSE crossed \cup {t.day}

\* runLunchChecks: the lunch times of active employees.
ReadsTimes(i) ==
    /\ tick[i].at = "times"
    /\ GoesOn(i, {lunchOf[e] : e \in active})
    /\ UNCHANGED <<clock, config, data, reminded, twice, waiting, ticked, spoilt>>

\* The employees of one lunch time, whatever their status.
ReadsLunch(i) ==
    /\ tick[i].at = "lunch"
    /\ Becomes(i, Mailing(tick[i], LunchRows(tick[i].day, tick[i].check.lunch)))
    /\ UNCHANGED <<clock, config, sent, data, history>>

\* sendMissedPunchEmail to one of the rows.
Mails(i, e) ==
    /\ tick[i].at = "mail" /\ e \in tick[i].rows
    /\ Becomes(i, [tick[i] EXCEPT !.rows = @ \ {e}])
    /\ LET reminder == <<tick[i].check, e>> IN
       \/ /\ reminded' = reminded \cup {reminder}
          /\ twice' = IF reminder \in reminded THEN twice \cup {reminder} ELSE twice
          /\ waiting' = waiting \ {reminder}
          /\ UNCHANGED spoilt
       \/ /\ "failure" \in Env
          /\ spoilt' = spoilt \cup {tick[i].day}
          /\ UNCHANGED <<reminded, twice, waiting>>
    /\ UNCHANGED <<clock, config, sent, data, ticked, crossed>>

\* After the last mail.
MailsDone(i) ==
    /\ tick[i].at = "mail" /\ tick[i].rows = {}
    /\ IF tick[i].check.kind = "exit"
       THEN Becomes(i, [tick[i] EXCEPT !.at = "times"]) /\ UNCHANGED <<sent, crossed>>
       ELSE GoesOn(i, tick[i].left)
    /\ UNCHANGED <<clock, config, data, reminded, twice, waiting, ticked, spoilt>>

\* A query fails: the exit check goes on to the lunches, a lunch check ends the tick.
\* What was marked stays marked.
QueryFails(i) ==
    /\ "failure" \in Env
    /\ tick[i].at \in {"exit", "times", "lunch"}
    /\ Becomes(i, IF tick[i].at = "exit" THEN [tick[i] EXCEPT !.at = "times"] ELSE Idle)
    /\ spoilt' = spoilt \cup {tick[i].day}
    /\ UNCHANGED <<clock, config, sent, data, reminded, twice, waiting, ticked, crossed>>

TickStep(i) ==
    \/ ReadsExit(i) \/ ReadsTimes(i) \/ ReadsLunch(i) \/ MailsDone(i) \/ QueryFails(i)
    \/ \E e \in Staff : Mails(i, e)

-----------------------------------------------------------------------------
(* Around it.                                                              *)

\* The punches a person still may do, in the kiosk's order.
After == [none |-> {"in"}, in |-> {"lunch", "out"}, lunch |-> {"back", "left"},
          back |-> {"out"}, out |-> {}, left |-> {}]

PersonPunches(e) ==
    /\ \E p \in After[entry[day][e]] : entry' = [entry EXCEPT ![day][e] = p]
    /\ UNCHANGED <<clock, config, sent, tick, lunchOf, active, history>>

\* employee_update, employee_terminate
EmployeeEdited(e) ==
    /\ "edit" \in Env
    /\ \/ \E l \in LunchTimes \ {lunchOf[e]} : lunchOf' = [lunchOf EXCEPT ![e] = l] /\ UNCHANGED active
       \/ e \in active /\ active' = active \ {e} /\ UNCHANGED lunchOf
    /\ waiting' = {w \in waiting : w[2] # e \/ w[1].kind = "exit"}
    /\ UNCHANGED <<clock, config, sent, tick, entry, reminded, twice, ticked, spoilt, crossed>>

\* The punches missing at the minute m of day d when it begins.
MissingAt(d, m) ==
    (IF m = ExitDue THEN {ExitCheck(d)} \X ExitRows(d) ELSE {})
    \cup {<<LunchCheck(d, lunchOf[e]), e>> :
            e \in {x \in active : m = LunchDue(lunchOf[x]) /\ x \in LunchRows(d, lunchOf[x])}}

\* The timer fires once a minute.
MinutePasses ==
    /\ fired \/ "asleep" \in Env
    /\ fired' = FALSE
    /\ day * Minutes + minute < LastMinutes
    /\ IF LastMinute
       THEN day' = day + 1 /\ minute' = 0
       ELSE minute' = minute + 1 /\ UNCHANGED day
    /\ waiting' = waiting \cup MissingAt(day', minute')
    /\ UNCHANGED <<config, sent, tick, data, reminded, twice, ticked, spoilt, crossed>>

\* The sidecar ends and is started; its first tick is a minute away. What it was
\* sending about a day that is over is lost.
Restarts ==
    /\ "restart" \in Env
    /\ pushed' = {} /\ sent' = {} /\ tick' = [i \in Slots |-> Idle] /\ fired' = TRUE
    /\ reminded' = {} /\ twice' = {}
    /\ ticked' = ticked \ {day}
    /\ spoilt' = spoilt \cup ({tick[i].day : i \in Running} \ {day})
    /\ UNCHANGED <<day, minute, hours, data, waiting, crossed>>

\* start() of the terminal, once the sidecar answers: the mail server, then the hours.
Pushes ==
    /\ \/ pushed = {} /\ pushed' = {"smtp"}
       \/ pushed = {"smtp"} /\ pushed' = {"hours", "smtp"}
    /\ UNCHANGED <<clock, hours, sent, tick, data, history>>

Next ==
    \/ \E i \in Slots : Ticks(i) \/ TickStep(i)
    \/ \E e \in Staff : PersonPunches(e) \/ EmployeeEdited(e)
    \/ MinutePasses \/ Restarts \/ Pushes

Spec == Init /\ [][Next]_vars

-----------------------------------------------------------------------------
(* "Tracks sent checks per day to prevent duplicate notifications"          *)
(* (missed-punch.ts): a run of the sidecar reminds nobody twice of the same *)
(* punch, however ticks overlap, except after midnight.                     *)
RemindsOnce == \A r \in twice : r[1].day \in crossed

(* The scheduler "knows when to fire" (sidecar.rs): who missed a punch when  *)
(* its time came, and still does when the day is over, was reminded of it,  *)
(* unless something failed or nothing ticked at the end of that day.        *)
NobodyForgotten ==
    \A w \in waiting :
        LET d == w[1].day IN
        \/ d = day \/ d \notin ticked \/ d \in spoilt
        \/ \E i \in Running : tick[i].day = d
        \/ w[2] \notin Addressed
        \/ entry[d][w[2]] \in (IF w[1].kind = "exit" THEN {"out"} ELSE {"back", "out"})

\* RemindsOnce without its exemption. False: a tick that is still in its loop at
\* midnight looks for its checks under the new date.
NeverTwice == twice = {}

\* False: neither query of the rows looks at the status.
OnlyActive == \A i \in Running : tick[i].at = "mail" => tick[i].rows \subseteq active
=============================================================================
