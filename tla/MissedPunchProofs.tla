-------------------------- MODULE MissedPunchProofs --------------------------
(* What holds of MissedPunch for any staff, schedules, ticks at once and Env, *)
(* and for any length of the day and of the run; in the second part, what     *)
(* holds of WorkHours, whose hours the sidecar fires by, for any hours and    *)
(* numbers of starts, choices and commands at once.                           *)
EXTENDS MissedPunch, WorkHours, SequenceTheorems, TLAPS

-----------------------------------------------------------------------------
\* The inductive invariant. A tick is busy with a check from the moment it marked
\* the check as sent until the last of its mails.
Busy(i, c) == tick[i].at \in {"exit", "lunch", "mail"} /\ tick[i].check = c

TicksStarted == \A i \in Running : tick[i].day <= day

\* A check is of its tick's day, and while that day lasts it is marked.
BusyMarked ==
    \A i \in Slots, c \in Checks : Busy(i, c) =>
        /\ c.day = tick[i].day
        /\ c.day = day => <<day, c>> \in sent

\* After a reminder its check stays marked until midnight.
RemindedMarked ==
    \A r \in reminded :
        /\ r[1].day <= day
        /\ r[1].day = day => <<day, r[1]>> \in sent

\* Only a tick that crossed midnight does a check that another one is busy with.
OneBusy ==
    \A i, j \in Slots, c \in Checks :
        Busy(i, c) /\ Busy(j, c) /\ i # j => c.day \in crossed

\* Whom a check has reminded, it has no mail left for.
NoMailLeft ==
    \A i \in Slots, c \in Checks, e \in Staff :
        Busy(i, c) /\ <<c, e>> \in reminded /\ c.day \notin crossed =>
            tick[i].at = "mail" /\ e \notin tick[i].rows

\* Of what was marked, and of the ticks, the clock has passed the time; only the
\* last minute makes a day a ticked one.
Due(c) == IF c.kind = "exit" THEN ExitDue ELSE LunchDue(c.lunch)
OnTime ==
    /\ \A s \in sent : s[1] <= day
    /\ \A c \in Checks : c.day = day /\ <<day, c>> \in sent => Due(c) <= minute
    /\ \A i \in Running : tick[i].day = day => tick[i].now <= minute
    /\ \A d \in ticked : d <= day /\ (d = day => LastMinute)

\* A tick's query is the one of its check.
QueryOfCheck ==
    \A i \in Slots : tick[i].at \in {"exit", "lunch"} => tick[i].check.kind = tick[i].at

\* A punch that is waited for was due that day; a lunch is its owner's.
DoneBy(c) == IF c.kind = "exit" THEN {"out"} ELSE {"back", "out"}
RowsOf(c) == IF c.kind = "exit" THEN ExitRows(c.day) ELSE LunchRows(c.day, c.lunch)
WaitsDuly ==
    \A w \in waiting :
        /\ Due(w[1]) < Minutes
        /\ entry[w[1].day][w[2]] \notin DoneBy(w[1]) => w[2] \in RowsOf(w[1])
        /\ w[1].kind # "exit" => lunchOf[w[2]] = w[1].lunch /\ w[2] \in active

\* Nobody has to be reminded of it any more, or can be.
DoneWith(w) ==
    \/ w[1].day \in spoilt
    \/ w[2] \notin Addressed
    \/ entry[w[1].day][w[2]] \in DoneBy(w[1])

\* The tick is at the check of w, and has still to mail its owner.
Serves(i, w) == Busy(i, w[1]) /\ (tick[i].at = "mail" => w[2] \in tick[i].rows)

\* The tick will get to the lunch check of w.
WillServe(i, w) ==
    /\ w[1].kind = "lunch" /\ i \in Running /\ tick[i].day = w[1].day
    /\ Due(w[1]) <= tick[i].now
    /\ \/ tick[i].at \in {"exit", "times"}
       \/ tick[i].at = "mail" /\ tick[i].check.kind = "exit"
       \/ w[1].lunch \in tick[i].left

\* What is waited for is served once its check is marked, and on a ticked day at
\* the latest before its last tick ends.
Attended ==
    \A w \in waiting : ~DoneWith(w) =>
        /\ <<day, w[1]>> \in sent => \E i \in Slots : Serves(i, w)
        /\ w[1].day \in ticked => \E i \in Slots : Serves(i, w) \/ WillServe(i, w)

IInv ==
    /\ TypeOK /\ TicksStarted
    /\ BusyMarked /\ RemindedMarked
    /\ OneBusy /\ NoMailLeft /\ RemindsOnce
    /\ OnTime /\ QueryOfCheck /\ WaitsDuly /\ Attended

-----------------------------------------------------------------------------
(* Type correctness.                                                       *)

LEMMA DayBelow ==
    ASSUME NEW a \in Nat, NEW b \in Nat \ {0}, NEW n \in Nat, n * b <= a
    PROVE  n <= a \div b /\ a \div b \in Nat
  OBVIOUS

LEMMA DaysAreNat == Days \subseteq Nat
  BY MissedPunchAssumption, DayBelow DEF Days

LEMMA ChecksOfDays ==
    /\ \A d \in Days : ExitCheck(d) \in Checks
    /\ \A d \in Days, l \in LunchTimes : LunchCheck(d, l) \in Checks
    /\ \A c \in Checks : c.day \in Days
  <1>1. \A d \in Days : ExitCheck(d) \in Checks
    BY DEF Checks
  <1>2. \A d \in Days, l \in LunchTimes : LunchCheck(d, l) \in Checks
    BY DEF Checks
  <1>3. ASSUME NEW c \in Checks PROVE c.day \in Days
    <2>1. CASE \E d \in Days : c = ExitCheck(d)
      BY <2>1 DEF ExitCheck
    <2>2. CASE \E d \in Days, l \in LunchTimes : c = LunchCheck(d, l)
      BY <2>2 DEF LunchCheck
    <2> QED
      BY <2>1, <2>2 DEF Checks
  <1> QED
    BY <1>1, <1>2, <1>3

LEMMA RunningType ==
    ASSUME TypeOK, NEW i \in Slots, tick[i].at # "idle"
    PROVE  /\ tick[i] \in TickState \ {Idle} /\ i \in Running
           /\ tick[i].at \in Stages /\ tick[i].day \in Days
           /\ tick[i].now \in 0..(Minutes - 1) /\ tick[i].check \in Checks
           /\ tick[i].left \subseteq LunchTimes /\ tick[i].rows \subseteq Staff
  BY DEF TypeOK, TickState, Idle, Running

LEMMA IdleType == Idle \in TickState /\ Idle.at = "idle"
  BY DEF TickState, Idle

\* Where the loop over the lunches takes a tick: to its end, or to a check that it
\* has just marked. It passes over lunches that are not due or are marked.
PassesOver(i, l) ==
    LunchDue(l) <= tick[i].now => <<day, LunchCheck(tick[i].day, l)>> \in sent

StartsLunch(i, check, left) ==
    /\ check \in Checks /\ check.day = tick[i].day
    /\ check.kind = "lunch" /\ Due(check) <= tick[i].now
    /\ tick'[i].now = tick[i].now
    /\ \A l \in left : l = check.lunch \/ l \in tick'[i].left \/ PassesOver(i, l)
    /\ <<day, check>> \notin sent
    /\ sent' = sent \cup {<<day, check>>}
    /\ tick'[i].at = "lunch" /\ tick'[i].check = check /\ tick'[i].day = tick[i].day
    /\ crossed' = IF tick[i].day = day THEN crossed ELSE crossed \cup {tick[i].day}

LEMMA GoesOnEffect ==
    ASSUME TypeOK, NEW i \in Slots, tick[i].at # "idle",
           NEW left \in SUBSET LunchTimes, GoesOn(i, left)
    PROVE  /\ tick' \in [Slots -> TickState]
           /\ \A j \in Slots \ {i} : tick'[j] = tick[j]
           /\ \/ /\ tick'[i] = Idle /\ sent' = sent /\ crossed' = crossed
                 /\ \A l \in left : PassesOver(i, l)
              \/ \E check \in Checks : StartsLunch(i, check, left)
  <1> DEFINE t == tick[i]
             firing == {l \in left : t.now >= LunchDue(l) /\ ~AlreadySent(LunchCheck(t.day, l))}
  <1>1. t \in TickState \ {Idle} /\ t.day \in Days
    BY RunningType
  <1>p. /\ LunchTimes \subseteq Nat /\ t.now \in Int
        /\ \A l \in LunchTimes : LunchDue(l) \in Int
    <2>1. LunchTimes \subseteq Nat /\ Halves \subseteq Nat
      BY MissedPunchAssumption
    <2>2. hours.half \in Nat
      BY <2>1 DEF TypeOK
    <2>3. t.now \in Int
      BY <1>1, MissedPunchAssumption DEF TickState
    <2> QED
      BY <2>1, <2>2, <2>3 DEF LunchDue
  <1>f. \A l \in left : l \in firing \/ PassesOver(i, l)
    BY DEF PassesOver, AlreadySent
  <1>2. CASE firing = {}
    BY <1>2, <1>f, IdleType DEF TypeOK, GoesOn, Becomes
  <1>3. CASE firing # {}
    <2>1. PICK l \in firing, passed \in SUBSET (left \ firing) :
             LET check == LunchCheck(t.day, l) IN
             /\ sent' = sent \cup {<<day, check>>}
             /\ Becomes(i, [t EXCEPT !.at = "lunch", !.check = check, !.left = left \ (passed \cup {l})])
             /\ crossed' = IF t.day = day THEN crossed ELSE crossed \cup {t.day}
      BY <1>3 DEF GoesOn
    <2> DEFINE check == LunchCheck(t.day, l)
               next == [t EXCEPT !.at = "lunch", !.check = check, !.left = left \ (passed \cup {l})]
    <2>a. t.now >= LunchDue(l) /\ l \in LunchTimes /\ l \in left
      OBVIOUS
    <2>2. /\ check \in Checks /\ check.day = t.day
          /\ check.kind = "lunch" /\ check.lunch = l /\ Due(check) <= t.now
      BY <1>1, <1>p, <2>a, ChecksOfDays DEF LunchCheck, Due
    <2>3. /\ next \in TickState /\ next.at = "lunch" /\ next.check = check /\ next.day = t.day
          /\ next.now = t.now /\ next.left = left \ (passed \cup {l})
      BY <1>1, <2>2 DEF TickState, Stages
    <2>4. tick' = [tick EXCEPT ![i] = next]
      BY <2>1 DEF Becomes
    <2>5. <<day, check>> \notin sent
      BY DEF AlreadySent
    <2> HIDE DEF next, check
    <2>6. tick' \in [Slots -> TickState] /\ tick'[i] = next /\ \A j \in Slots \ {i} : tick'[j] = tick[j]
      BY <2>3, <2>4 DEF TypeOK
    <2>8. \A m \in left : m = check.lunch \/ m \in tick'[i].left \/ PassesOver(i, m)
      BY <1>f, <2>2, <2>3, <2>6
    <2>7. StartsLunch(i, check, left)
      BY <2>1, <2>2, <2>3, <2>5, <2>6, <2>8 DEF StartsLunch, check
    <2> QED
      BY <2>2, <2>6, <2>7
  <1> QED
    BY <1>2, <1>3

LEMMA GoesOnType ==
    ASSUME TypeOK, NEW i \in Slots, tick[i].at # "idle",
           NEW left \in SUBSET LunchTimes, GoesOn(i, left)
    PROVE  tick' \in [Slots -> TickState] /\ sent' \subseteq Days \X Checks /\ crossed' \subseteq Days
  <1>1. sent \subseteq Days \X Checks /\ crossed \subseteq Days /\ day \in Days
    BY DEF TypeOK
  <1>2. tick' \in [Slots -> TickState] /\ tick[i].day \in Days
    BY GoesOnEffect, RunningType
  <1>3. \/ sent' = sent /\ crossed' = crossed
        \/ \E check \in Checks : StartsLunch(i, check, left)
    BY GoesOnEffect
  <1>4. ASSUME NEW check \in Checks, StartsLunch(i, check, left)
        PROVE  sent' \subseteq Days \X Checks /\ crossed' \subseteq Days
    BY <1>1, <1>2, <1>4 DEF StartsLunch
  <1> QED
    BY <1>1, <1>2, <1>3, <1>4

LEMMA TypeStep == TypeOK /\ [Next]_vars => TypeOK'
  <1> SUFFICES ASSUME TypeOK, [Next]_vars PROVE TypeOK'
    OBVIOUS
  <1> USE DEF clock, config, data, history
  <1>1. ASSUME NEW i \in Slots, Ticks(i) PROVE TypeOK'
    <2>1. CASE pushed # {"hours", "smtp"}
      BY <1>1, <2>1 DEF TypeOK, Ticks
    <2>2. CASE pushed = {"hours", "smtp"}
      <3> DEFINE check == ExitCheck(day)
                 due == minute >= ExitDue /\ <<day, check>> \notin Fresh
                 next == [at |-> IF due THEN "exit" ELSE "times", day |-> day, now |-> minute,
                          check |-> check, left |-> {}, rows |-> {}]
      <3>1. check \in Checks
        BY ChecksOfDays DEF TypeOK
      <3>2. next \in TickState
        BY <3>1 DEF TypeOK, TickState, Stages
      <3>3. tick' = [tick EXCEPT ![i] = next]
        BY <1>1, <2>2 DEF Ticks, Becomes
      <3>4. sent' \subseteq Days \X Checks
        BY <1>1, <2>2, <3>1 DEF Ticks, TypeOK, Fresh
      <3>5. ticked' \subseteq Days
        BY <1>1, <2>2 DEF Ticks, TypeOK
      <3> HIDE DEF next
      <3>6. tick' \in [Slots -> TickState]
        BY <3>2, <3>3 DEF TypeOK
      <3> QED
        BY <1>1, <3>4, <3>5, <3>6 DEF Ticks, TypeOK
    <2> QED
      BY <2>1, <2>2
  <1>2. ASSUME NEW i \in Slots, ReadsExit(i) \/ ReadsLunch(i) PROVE TypeOK'
    <2>1. PICK rows \in SUBSET Staff : tick' = [tick EXCEPT ![i] = Mailing(tick[i], rows)]
      BY <1>2 DEF ReadsExit, ReadsLunch, ExitRows, LunchRows, Becomes
    <2>2. tick[i] \in TickState \ {Idle}
      BY <1>2, RunningType DEF ReadsExit, ReadsLunch
    <2>3. Mailing(tick[i], rows) \in TickState
      BY <2>2 DEF Mailing, TickState, Stages
    <2>4. tick' \in [Slots -> TickState]
      BY <2>1, <2>3 DEF TypeOK
    <2> QED
      BY <1>2, <2>4 DEF ReadsExit, ReadsLunch, TypeOK
  <1>3. ASSUME NEW i \in Slots, ReadsTimes(i) PROVE TypeOK'
    <2>1. {lunchOf[e] : e \in active} \in SUBSET LunchTimes
      BY DEF TypeOK
    <2>2. tick[i].at # "idle" /\ GoesOn(i, {lunchOf[e] : e \in active})
      BY <1>3 DEF ReadsTimes
    <2>3. tick' \in [Slots -> TickState] /\ sent' \subseteq Days \X Checks /\ crossed' \subseteq Days
      BY <2>1, <2>2, GoesOnType
    <2> QED
      BY <1>3, <2>3 DEF ReadsTimes, TypeOK
  <1>4. ASSUME NEW i \in Slots, MailsDone(i) PROVE TypeOK'
    <2>1. tick[i].at = "mail" /\ tick[i] \in TickState \ {Idle} /\ tick[i].left \in SUBSET LunchTimes
      BY <1>4, RunningType DEF MailsDone
    <2>2. tick' \in [Slots -> TickState] /\ sent' \subseteq Days \X Checks /\ crossed' \subseteq Days
      <3>1. CASE GoesOn(i, tick[i].left)
        BY <2>1, <3>1, GoesOnType
      <3>2. CASE Becomes(i, [tick[i] EXCEPT !.at = "times"]) /\ UNCHANGED <<sent, crossed>>
        <4>1. [tick[i] EXCEPT !.at = "times"] \in TickState
          BY <2>1 DEF TickState, Stages
        <4> QED
          BY <3>2, <4>1 DEF Becomes, TypeOK
      <3> QED
        BY <1>4, <3>1, <3>2 DEF MailsDone
    <2> QED
      BY <1>4, <2>2 DEF MailsDone, TypeOK
  <1>5. ASSUME NEW i \in Slots, QueryFails(i) PROVE TypeOK'
    <2>1. tick[i] \in TickState \ {Idle} /\ tick[i].day \in Days
      BY <1>5, RunningType DEF QueryFails
    <2>2. [tick[i] EXCEPT !.at = "times"] \in TickState
      BY <2>1 DEF TickState, Stages
    <2>3. tick' \in [Slots -> TickState] /\ spoilt' \subseteq Days
      BY <1>5, <2>1, <2>2, IdleType DEF QueryFails, Becomes, TypeOK
    <2> QED
      BY <1>5, <2>3 DEF QueryFails, TypeOK
  <1>6. ASSUME NEW i \in Slots, NEW e \in Staff, Mails(i, e) PROVE TypeOK'
    <2>1. tick[i] \in TickState \ {Idle} /\ tick[i].day \in Days /\ tick[i].check \in Checks
      BY <1>6, RunningType DEF Mails
    <2>2. [tick[i] EXCEPT !.rows = @ \ {e}] \in TickState
      BY <2>1 DEF TickState
    <2>3. tick' \in [Slots -> TickState]
      BY <1>6, <2>2 DEF Mails, Becomes, TypeOK
    <2>4. /\ reminded' \subseteq Checks \X Staff /\ twice' \subseteq reminded'
          /\ waiting' \subseteq Checks \X Staff /\ spoilt' \subseteq Days
      BY <1>6, <2>1 DEF Mails, TypeOK
    <2> QED
      BY <1>6, <2>3, <2>4 DEF Mails, TypeOK
  <1>7. ASSUME NEW e \in Staff, PersonPunches(e) PROVE TypeOK'
    <2>1. PICK p \in After[entry[day][e]] : entry' = [entry EXCEPT ![day][e] = p]
      BY <1>7 DEF PersonPunches
    <2>2. entry[day][e] \in Punches
      BY DEF TypeOK
    <2>3. p \in Punches
      BY <2>1, <2>2 DEF After, Punches
    <2>4. entry' \in [Days -> [Staff -> Punches]]
      BY <2>1, <2>3 DEF TypeOK
    <2> QED
      BY <1>7, <2>4 DEF PersonPunches, TypeOK
  <1>8. ASSUME NEW e \in Staff, EmployeeEdited(e) PROVE TypeOK'
    BY <1>8 DEF EmployeeEdited, TypeOK
  <1>9. CASE MinutePasses
    <2>1. /\ day \in Nat /\ minute \in 0..(Minutes - 1)
          /\ Minutes \in Nat \ {0} /\ LastMinutes \in Nat
          /\ day * Minutes + minute < LastMinutes
      BY <1>9, MissedPunchAssumption, DaysAreNat DEF MinutePasses, TypeOK
    <2>2. minute' \in 0..(Minutes - 1)
      BY <1>9, <2>1 DEF MinutePasses, LastMinute
    <2>3. day' \in Days
      <3>1. CASE day' = day
        BY <3>1 DEF TypeOK
      <3>2. CASE LastMinute /\ day' = day + 1
        <4>1. (day + 1) * Minutes <= LastMinutes
          BY <2>1, <3>2 DEF LastMinute
        <4>2. day + 1 <= LastMinutes \div Minutes /\ LastMinutes \div Minutes \in Nat
          BY <2>1, <4>1, DayBelow
        <4> QED
          BY <2>1, <3>2, <4>2 DEF Days
      <3> QED
        BY <1>9, <3>1, <3>2 DEF MinutePasses
    <2>4. waiting' \subseteq Checks \X Staff
      <3>1. \A m : MissingAt(day', m) \subseteq Checks \X Staff
        BY <2>3, ChecksOfDays DEF MissingAt, ExitRows, LunchRows, TypeOK
      <3> QED
        BY <1>9, <3>1 DEF MinutePasses, TypeOK
    <2> QED
      BY <1>9, <2>2, <2>3, <2>4 DEF MinutePasses, TypeOK
  <1>10. CASE Restarts
    <2>1. spoilt' \subseteq Days
      <3>1. \A i \in Running : tick[i].day \in Days
        BY DEF Running, TypeOK, TickState
      <3> QED
        BY <1>10, <3>1 DEF Restarts, TypeOK
    <2>2. tick' \in [Slots -> TickState]
      BY <1>10, IdleType DEF Restarts
    <2> QED
      BY <1>10, <2>1, <2>2 DEF Restarts, TypeOK
  <1>11. CASE Pushes
    BY <1>11 DEF Pushes, TypeOK
  <1>12. CASE UNCHANGED vars
    BY <1>12 DEF vars, TypeOK
  <1> QED
    BY <1>1, <1>2, <1>3, <1>4, <1>5, <1>6, <1>7, <1>8, <1>9, <1>10, <1>11, <1>12
    DEF Next, TickStep

-----------------------------------------------------------------------------
(* The inductive invariant holds of every step.                            *)

LEMMA BusyTypes ==
    ASSUME TypeOK
    PROVE  /\ day \in Nat
           /\ \A i \in Slots : \A c : Busy(i, c) => i \in Running /\ c \in Checks
           /\ \A i \in Slots : i \in Running => tick[i].day \in Nat
           /\ \A c \in Checks : c.day \in Nat
           /\ \A r \in reminded : r[1] \in Checks /\ r[2] \in Staff /\ r = <<r[1], r[2]>>
           /\ \A i \in Slots : tick[i] = Idle => \A c : ~Busy(i, c)
           /\ \A i \in Slots : i \in Running <=> tick[i] # Idle
  <1>1. day \in Nat /\ \A c \in Checks : c.day \in Nat
    BY DaysAreNat, ChecksOfDays DEF TypeOK
  <1>2. \A i \in Slots : tick[i] = Idle => tick[i].at = "idle"
    BY DEF Idle
  <1>3. \A i \in Slots : i \in Running => tick[i].day \in Nat /\ tick[i].check \in Checks
    BY DaysAreNat DEF TypeOK, TickState, Running
  <1>4. \A r \in reminded : r[1] \in Checks /\ r[2] \in Staff /\ r = <<r[1], r[2]>>
    BY DEF TypeOK
  <1>5. \A i \in Slots : i \in Running <=> tick[i] # Idle
    BY DEF Running
  <1> QED
    BY <1>1, <1>2, <1>3, <1>4, <1>5 DEF Busy

Once == TicksStarted /\ BusyMarked /\ RemindedMarked /\ OneBusy /\ NoMailLeft /\ RemindsOnce

\* A tick that stays, stops, leaves its check, or has read the rows of it.
Quiet(i) ==
    \/ tick'[i] = tick[i]
    \/ tick'[i] = Idle
    \/ /\ i \in Running /\ tick'[i].day = tick[i].day
       /\ \/ tick'[i].at = "times"
          \/ /\ tick'[i].check = tick[i].check
             /\ tick'[i].at = "mail" /\ tick[i].at \in {"exit", "lunch"}

LEMMA QuietStep ==
    ASSUME TypeOK, TypeOK', Once, \A i \in Slots : Quiet(i),
           UNCHANGED <<day, sent, reminded, twice, crossed>>
    PROVE  Once'
  <1>1. \A i \in Running' : i \in Running /\ tick'[i].day = tick[i].day
    BY BusyTypes DEF Quiet, Running, Idle
  <1>2. \A i \in Slots, c \in Checks : Busy(i, c)' =>
          Busy(i, c) /\ tick'[i].day = tick[i].day
          /\ (tick'[i] = tick[i] \/ tick[i].at # "mail")
    BY DEF Quiet, Busy, Idle
  <1>3. TicksStarted'
    BY <1>1 DEF Once, TicksStarted
  <1>4. BusyMarked' /\ RemindedMarked' /\ RemindsOnce'
    BY <1>2 DEF Once, BusyMarked, RemindedMarked, RemindsOnce
  <1>5. OneBusy'
    BY <1>2 DEF Once, OneBusy
  <1>6. NoMailLeft'
    BY <1>2 DEF Once, NoMailLeft
  <1> QED
    BY <1>3, <1>4, <1>5, <1>6 DEF Once

\* A tick that begins a check which is not marked, and marks it.
LEMMA BeginsCheck ==
    ASSUME TypeOK, TypeOK', Once, NEW i \in Slots, NEW check \in Checks,
           tick'[i].at \in {"exit", "lunch"}, tick'[i].check = check,
           tick'[i].day = check.day, check.day <= day,
           \A j \in Slots \ {i} : tick'[j] = tick[j],
           <<day, check>> \notin sent,
           \A s \in sent : s[1] = day => s \in sent',
           <<day, check>> \in sent',
           UNCHANGED <<day, reminded, twice>>,
           crossed \subseteq crossed',
           check.day # day => check.day \in crossed'
    PROVE  Once'
  <1>1. check.day = day => /\ \A j \in Slots : ~Busy(j, check)
                           /\ \A e \in Staff : <<check, e>> \notin reminded
    <2>1. check.day = day => \A j \in Slots : ~Busy(j, check)
      BY DEF Once, BusyMarked
    <2>2. ASSUME NEW e \in Staff, <<check, e>> \in reminded, check.day = day PROVE FALSE
      BY <2>2 DEF Once, RemindedMarked
    <2> QED
      BY <2>1, <2>2
  <1>2. \A j \in Slots, c \in Checks : Busy(j, c)' =>
          \/ j = i /\ c = check
          \/ j # i /\ Busy(j, c) /\ tick'[j] = tick[j]
    BY DEF Busy
  <1>3. TicksStarted'
    BY BusyTypes DEF Once, TicksStarted, Running
  <1>4. \A c \in Checks : <<day, c>> \in sent => <<day, c>> \in sent'
    OBVIOUS
  <1>5. BusyMarked'
    BY <1>2, <1>4 DEF Once, BusyMarked
  <1>6. RemindedMarked'
    BY <1>4, BusyTypes DEF Once, RemindedMarked
  <1>7. OneBusy'
    BY <1>1, <1>2 DEF Once, OneBusy
  <1>8. NoMailLeft'
    BY <1>1, <1>2 DEF Once, NoMailLeft
  <1>9. RemindsOnce'
    BY DEF Once, RemindsOnce
  <1> QED
    BY <1>3, <1>5, <1>6, <1>7, <1>8, <1>9 DEF Once

LEMMA LoopStep ==
    ASSUME TypeOK, TypeOK', Once, NEW i \in Slots, tick[i].at # "idle",
           NEW left \in SUBSET LunchTimes, GoesOn(i, left),
           UNCHANGED <<day, reminded, twice>>
    PROVE  Once'
  <1>1. CASE tick'[i] = Idle /\ sent' = sent /\ crossed' = crossed
    BY <1>1, GoesOnEffect, QuietStep DEF Quiet
  <1>2. ASSUME NEW check \in Checks, StartsLunch(i, check, left)
        PROVE  Once'
    <2>1. tick[i].day <= day
      BY RunningType DEF Once, TicksStarted
    <2>2. /\ tick'[i].at = "lunch" /\ tick'[i].check = check
          /\ tick'[i].day = check.day /\ check.day = tick[i].day
          /\ <<day, check>> \notin sent /\ sent' = sent \cup {<<day, check>>}
      BY <1>2, GoesOnEffect DEF StartsLunch
    <2>3. \A j \in Slots \ {i} : tick'[j] = tick[j]
      BY GoesOnEffect
    <2>4. crossed \subseteq crossed' /\ (check.day # day => check.day \in crossed')
      BY <1>2, <2>2, GoesOnEffect DEF StartsLunch
    <2> QED
      BY <2>1, <2>2, <2>3, <2>4, BeginsCheck
  <1> QED
    BY <1>1, <1>2, GoesOnEffect

LEMMA OnceStep == TypeOK /\ TypeOK' /\ Once /\ [Next]_vars => Once'
  <1> SUFFICES ASSUME TypeOK, TypeOK', Once, [Next]_vars PROVE Once'
    OBVIOUS
  <1> USE DEF clock, config, data, history
  <1>1. ASSUME NEW i \in Slots, Ticks(i) PROVE Once'
    <2>1. CASE pushed # {"hours", "smtp"}
      BY <1>1, <2>1, QuietStep DEF Ticks, Quiet
    <2>2. CASE pushed = {"hours", "smtp"}
      <3> DEFINE check == ExitCheck(day)
                 due == minute >= ExitDue /\ <<day, check>> \notin Fresh
                 next == [at |-> IF due THEN "exit" ELSE "times", day |-> day, now |-> minute,
                          check |-> check, left |-> {}, rows |-> {}]
      <3>1. check \in Checks /\ check.day = day /\ day \in Nat
        BY ChecksOfDays, BusyTypes DEF TypeOK, ExitCheck
      <3>2. /\ tick'[i] = next
            /\ \A j \in Slots \ {i} : tick'[j] = tick[j]
            /\ tick[i] = Idle
        BY <1>1, <2>2 DEF Ticks, Becomes, TypeOK
      <3>3. /\ sent' = IF due THEN Fresh \cup {<<day, check>>} ELSE Fresh
            /\ UNCHANGED <<day, reminded, twice, crossed>>
        BY <1>1, <2>2 DEF Ticks
      <3>4. CASE due
        <4>1. <<day, check>> \notin sent
          BY <3>4 DEF Fresh
        <4>2. tick'[i].at = "exit" /\ tick'[i].check = check /\ tick'[i].day = day
          BY <3>2, <3>4
        <4>3. \A s \in sent : s[1] = day => s \in sent'
          BY <3>3, <3>4 DEF Fresh
        <4>4. <<day, check>> \in sent'
          BY <3>3, <3>4
        <4> HIDE DEF check, due, next
        <4> QED
          BY <3>1, <3>2, <3>3, <4>1, <4>2, <4>3, <4>4, BeginsCheck
      <3>5. CASE ~due
        <4>1. tick'[i].at = "times" /\ tick'[i].day = day
          BY <3>2, <3>5
        <4>2. \A c \in Checks : <<day, c>> \in sent => <<day, c>> \in sent'
          BY <3>3, <3>5 DEF Fresh
        <4>3. \A j \in Slots, c \in Checks : Busy(j, c)' =>
                 j # i /\ Busy(j, c) /\ tick'[j] = tick[j]
          BY <3>2, <4>1 DEF Busy
        <4> HIDE DEF check, due, next
        <4>4. TicksStarted'
          BY <3>1, <3>2, <3>3, <4>1 DEF Once, TicksStarted, Running
        <4>5. BusyMarked' /\ OneBusy'
          BY <3>3, <4>2, <4>3 DEF Once, BusyMarked, OneBusy
        <4>6. NoMailLeft'
          BY <3>3, <4>3 DEF Once, NoMailLeft
        <4>7. RemindedMarked' /\ RemindsOnce'
          BY <3>3, <4>2, BusyTypes DEF Once, RemindedMarked, RemindsOnce
        <4> QED
          BY <4>4, <4>5, <4>6, <4>7 DEF Once
      <3> QED
        BY <3>4, <3>5
    <2> QED
      BY <2>1, <2>2
  <1>2. ASSUME NEW i \in Slots, ReadsExit(i) \/ ReadsLunch(i) PROVE Once'
    <2>1. PICK rows : tick' = [tick EXCEPT ![i] = Mailing(tick[i], rows)]
      BY <1>2 DEF ReadsExit, ReadsLunch, Becomes
    <2>2. tick[i].at \in {"exit", "lunch"} /\ i \in Running /\ tick[i] \in TickState \ {Idle}
      BY <1>2, RunningType DEF ReadsExit, ReadsLunch
    <2>3. /\ tick'[i].at = "mail" /\ tick'[i].check = tick[i].check /\ tick'[i].day = tick[i].day
          /\ \A j \in Slots \ {i} : tick'[j] = tick[j]
      BY <2>1, <2>2 DEF TypeOK, Mailing, TickState
    <2> QED
      BY <1>2, <2>2, <2>3, QuietStep DEF ReadsExit, ReadsLunch, Quiet
  <1>3. ASSUME NEW i \in Slots, ReadsTimes(i) PROVE Once'
    <2>1. {lunchOf[e] : e \in active} \in SUBSET LunchTimes
      BY DEF TypeOK
    <2> QED
      BY <1>3, <2>1, LoopStep DEF ReadsTimes
  <1>4. ASSUME NEW i \in Slots, MailsDone(i) PROVE Once'
    <2>1. /\ tick[i].at = "mail" /\ i \in Running
          /\ tick[i] \in TickState \ {Idle} /\ tick[i].left \in SUBSET LunchTimes
      BY <1>4, RunningType DEF MailsDone
    <2>2. CASE GoesOn(i, tick[i].left)
      BY <1>4, <2>1, <2>2, LoopStep DEF MailsDone
    <2>3. CASE Becomes(i, [tick[i] EXCEPT !.at = "times"]) /\ UNCHANGED <<sent, crossed>>
      <3>1. /\ tick'[i].at = "times" /\ tick'[i].day = tick[i].day
            /\ \A j \in Slots \ {i} : tick'[j] = tick[j]
        BY <2>1, <2>3 DEF TypeOK, Becomes, TickState
      <3> QED
        BY <1>4, <2>1, <2>3, <3>1, QuietStep DEF MailsDone, Quiet
    <2> QED
      BY <1>4, <2>2, <2>3 DEF MailsDone
  <1>5. ASSUME NEW i \in Slots, QueryFails(i) PROVE Once'
    <2>1. tick[i] \in TickState \ {Idle} /\ i \in Running
      BY <1>5, RunningType DEF QueryFails
    <2>2. [tick[i] EXCEPT !.at = "times"].at = "times"
          /\ [tick[i] EXCEPT !.at = "times"].day = tick[i].day
      BY <2>1 DEF TickState
    <2>3. /\ tick'[i] = Idle \/ tick'[i] = [tick[i] EXCEPT !.at = "times"]
          /\ \A j \in Slots \ {i} : tick'[j] = tick[j]
      BY <1>5 DEF TypeOK, QueryFails, Becomes
    <2> QED
      BY <1>5, <2>1, <2>2, <2>3, QuietStep DEF QueryFails, Quiet
  <1>6. ASSUME NEW i \in Slots, NEW e \in Staff, Mails(i, e) PROVE Once'
    <2> DEFINE c0 == tick[i].check
    <2>1. /\ tick[i].at = "mail" /\ e \in tick[i].rows /\ c0 \in Checks
          /\ tick[i] \in TickState \ {Idle} /\ i \in Running
      BY <1>6, RunningType DEF Mails
    <2>2. /\ tick'[i].at = "mail" /\ tick'[i].check = c0 /\ tick'[i].day = tick[i].day
          /\ tick'[i].rows = tick[i].rows \ {e}
          /\ \A j \in Slots \ {i} : tick'[j] = tick[j]
      BY <1>6, <2>1 DEF TypeOK, Mails, Becomes, TickState
    <2>3. UNCHANGED <<day, sent, crossed>> /\ Busy(i, c0)
      BY <1>6, <2>1 DEF Mails, Busy
    <2>4. \/ reminded' = reminded /\ twice' = twice
          \/ /\ reminded' = reminded \cup {<<c0, e>>}
             /\ twice' = IF <<c0, e>> \in reminded THEN twice \cup {<<c0, e>>} ELSE twice
      BY <1>6 DEF Mails
    <2>5. c0.day <= day /\ (c0.day = day => <<day, c0>> \in sent)
      BY <2>1, <2>3 DEF Once, TicksStarted, BusyMarked
    <2>6. \A j \in Slots, c \in Checks : Busy(j, c)' => Busy(j, c) /\ tick'[j].day = tick[j].day
      BY <2>1, <2>2 DEF Busy
    <2> HIDE DEF c0
    <2>7. TicksStarted'
      BY <2>1, <2>2, <2>3 DEF Once, TicksStarted, Running
    <2>8. BusyMarked' /\ OneBusy'
      BY <2>3, <2>6 DEF Once, BusyMarked, OneBusy
    <2>9. RemindedMarked'
      <3>1. ASSUME NEW r \in reminded'
            PROVE  r[1].day <= day /\ (r[1].day = day => <<day, r[1]>> \in sent)
        BY <2>4, <2>5, <3>1 DEF Once, RemindedMarked
      <3> QED
        BY <2>3, <3>1 DEF RemindedMarked
    <2>10. NoMailLeft'
      <3>1. ASSUME NEW j \in Slots, NEW c \in Checks, NEW f \in Staff,
                   Busy(j, c)', <<c, f>> \in reminded', c.day \notin crossed
            PROVE  tick'[j].at = "mail" /\ f \notin tick'[j].rows
        <4>1. CASE <<c, f>> \in reminded
          <5>1. Busy(j, c) /\ tick[j].at = "mail" /\ f \notin tick[j].rows
            BY <2>6, <3>1, <4>1 DEF Once, NoMailLeft
          <5> QED
            BY <2>2, <5>1
        <4>2. CASE <<c, f>> \notin reminded
          <5>1. c = c0 /\ f = e
            BY <2>4, <3>1, <4>2
          <5>2. j = i
            BY <2>3, <2>6, <3>1, <5>1 DEF Once, OneBusy
          <5> QED
            BY <2>2, <5>1, <5>2
        <4> QED
          BY <4>1, <4>2
      <3> QED
        BY <2>3, <3>1 DEF NoMailLeft
    <2>11. RemindsOnce'
      <3>1. <<c0, e>> \in reminded => c0.day \in crossed
        BY <2>1, <2>3 DEF Once, NoMailLeft
      <3> QED
        BY <2>3, <2>4, <3>1 DEF Once, RemindsOnce
    <2> QED
      BY <2>7, <2>8, <2>9, <2>10, <2>11 DEF Once
  <1>7. ASSUME NEW e \in Staff, PersonPunches(e) \/ EmployeeEdited(e) PROVE Once'
    BY <1>7, QuietStep DEF PersonPunches, EmployeeEdited, Quiet
  <1>8. CASE MinutePasses
    <2>1. UNCHANGED <<sent, tick, reminded, twice, crossed>> /\ (day' = day \/ day' = day + 1)
      BY <1>8 DEF MinutePasses
    <2>2. \A i \in Slots, c \in Checks : Busy(i, c)' <=> Busy(i, c)
      BY <2>1 DEF Busy
    <2>a. day \in Nat /\ \A c \in Checks : c.day \in Nat
      BY BusyTypes
    <2>3. \A i \in Slots, c \in Checks : Busy(i, c) => c.day <= day
      BY BusyTypes DEF Once, TicksStarted, BusyMarked
    <2>4. TicksStarted'
      BY <2>1, BusyTypes DEF Once, TicksStarted, Running
    <2>5. BusyMarked'
      <3>1. ASSUME NEW i \in Slots, NEW c \in Checks, Busy(i, c)
            PROVE  c.day = tick'[i].day /\ (c.day = day' => <<day', c>> \in sent')
        <4>1. c.day <= day /\ c.day = tick[i].day /\ (c.day = day => <<day, c>> \in sent)
          BY <2>3, <3>1 DEF Once, BusyMarked
        <4>2. c.day = day' => day' = day
          BY <2>1, <2>a, <4>1
        <4> QED
          BY <2>1, <4>1, <4>2
      <3> QED
        BY <2>2, <3>1 DEF BusyMarked
    <2>6. RemindedMarked'
      <3>1. ASSUME NEW r \in reminded
            PROVE  r[1].day <= day' /\ (r[1].day = day' => <<day', r[1]>> \in sent')
        <4>1. r[1].day \in Nat /\ r[1].day <= day /\ (r[1].day = day => <<day, r[1]>> \in sent)
          BY <2>a, BusyTypes DEF Once, RemindedMarked
        <4>2. r[1].day = day' => day' = day
          BY <2>1, <2>a, <4>1
        <4> QED
          BY <2>1, <2>a, <4>1, <4>2
      <3> QED
        BY <2>1, <3>1 DEF RemindedMarked
    <2>7. OneBusy' /\ NoMailLeft' /\ RemindsOnce'
      BY <2>1, <2>2 DEF Once, OneBusy, NoMailLeft, RemindsOnce
    <2> QED
      BY <2>4, <2>5, <2>6, <2>7 DEF Once
  <1>9. CASE Restarts
    <2>1. (\A i \in Slots : tick'[i] = Idle) /\ reminded' = {} /\ twice' = {}
      BY <1>9 DEF Restarts
    <2>2. \A i \in Slots, c \in Checks : ~Busy(i, c)'
      BY <2>1 DEF Busy, Idle
    <2> QED
      BY <2>1, <2>2
      DEF Once, TicksStarted, BusyMarked, RemindedMarked, OneBusy, NoMailLeft, RemindsOnce, Running
  <1>10. CASE Pushes
    BY <1>10, QuietStep DEF Pushes, Quiet
  <1>11. CASE UNCHANGED vars
    BY <1>11, QuietStep DEF vars, Quiet
  <1> QED
    BY <1>1, <1>2, <1>3, <1>4, <1>5, <1>6, <1>7, <1>8, <1>9, <1>10, <1>11
    DEF Next, TickStep

-----------------------------------------------------------------------------
(* Whoever waits is attended to.                                           *)

LEMMA CheckParts ==
    ASSUME TypeOK, NEW c \in Checks
    PROVE  /\ c.kind \in {"exit", "lunch"} /\ c.day \in Days /\ c.day \in Nat
           /\ Due(c) \in Nat
           /\ c.kind = "exit" => c = ExitCheck(c.day)
           /\ c.kind = "lunch" => c.lunch \in LunchTimes /\ c = LunchCheck(c.day, c.lunch)
  <1>1. LunchTimes \subseteq Nat /\ hours.exit \in Nat /\ hours.half \in Nat
    <2>1. LunchTimes \subseteq Nat /\ Exits \subseteq Nat /\ Halves \subseteq Nat
      BY MissedPunchAssumption
    <2> QED
      BY <2>1 DEF TypeOK
  <1>2. CASE \E d \in Days : c = ExitCheck(d)
    BY <1>1, <1>2, DaysAreNat DEF ExitCheck, Due, ExitDue
  <1>3. CASE \E d \in Days, l \in LunchTimes : c = LunchCheck(d, l)
    <2>1. PICK d \in Days, l \in LunchTimes : c = LunchCheck(d, l)
      BY <1>3
    <2>2. c.kind = "lunch" /\ c.day = d /\ c.lunch = l
      BY <2>1 DEF LunchCheck
    <2> QED
      BY <1>1, <2>1, <2>2, DaysAreNat DEF Due, LunchDue
  <1> QED
    BY <1>2, <1>3 DEF Checks

LEMMA ScheduleStays ==
    ASSUME [Next]_vars
    PROVE  hours' = hours /\ \A c : Due(c)' = Due(c)
  <1>1. hours' = hours
    BY DEF Next, vars, clock, config, data, history, Ticks, TickStep, ReadsExit, ReadsTimes,
           ReadsLunch, MailsDone, QueryFails, Mails, PersonPunches, EmployeeEdited,
           MinutePasses, Restarts, Pushes
  <1> QED
    BY <1>1 DEF Due, ExitDue, LunchDue

Times == OnTime /\ QueryOfCheck /\ WaitsDuly

\* A step of a tick that has no part in the clock or in what is waited for.
LEMMA TimesKept ==
    ASSUME TypeOK, Times, [Next]_vars,
           UNCHANGED <<day, minute, entry, lunchOf, active, ticked>>,
           \A s \in sent' : \/ s \in sent
                            \/ s[1] = day /\ (s[2].day = day => Due(s[2]) <= minute),
           \A j \in Slots : \/ tick'[j] = tick[j]
                            \/ tick'[j] = Idle
                            \/ /\ tick'[j].day = day => tick'[j].now <= minute
                               /\ tick'[j].at \in {"exit", "lunch"} => tick'[j].check.kind = tick'[j].at,
           waiting' \subseteq waiting
    PROVE  Times'
  <1>1. \A c : Due(c)' = Due(c)
    BY ScheduleStays
  <1>2. day \in Nat
    BY DaysAreNat DEF TypeOK
  <1>3. \A s \in sent' : s[1] <= day
    BY <1>2 DEF Times, OnTime
  <1>4. \A c \in Checks : c.day = day /\ <<day, c>> \in sent' => Due(c) <= minute
    BY DEF Times, OnTime
  <1>5. \A j \in Slots : tick'[j] # Idle /\ tick'[j].day = day => tick'[j].now <= minute
    BY DEF Times, OnTime, Running
  <1>6. OnTime'
    BY <1>1, <1>3, <1>4, <1>5 DEF Times, OnTime, Running, LastMinute
  <1>7. QueryOfCheck'
    BY DEF Times, QueryOfCheck, Idle
  <1>8. WaitsDuly'
    BY <1>1 DEF Times, WaitsDuly, DoneBy, RowsOf, ExitRows, LunchRows
  <1> QED
    BY <1>6, <1>7, <1>8 DEF Times

LEMMA LoopTimes ==
    ASSUME TypeOK, Times, [Next]_vars, NEW i \in Slots, tick[i].at # "idle",
           NEW left \in SUBSET LunchTimes, GoesOn(i, left),
           UNCHANGED <<day, minute, entry, lunchOf, active, ticked, waiting>>
    PROVE  Times'
  <1>1. CASE tick'[i] = Idle /\ sent' = sent
    BY <1>1, GoesOnEffect, TimesKept
  <1>2. ASSUME NEW check \in Checks, StartsLunch(i, check, left)
        PROVE  Times'
    <2>1. tick[i].now \in Nat /\ minute \in Nat /\ Due(check) \in Nat
      BY RunningType, CheckParts, MissedPunchAssumption DEF TypeOK
    <2>2. tick[i].day = day => tick[i].now <= minute
      BY RunningType DEF Times, OnTime
    <2>3. check.day = day => Due(check) <= minute
      BY <1>2, <2>1, <2>2 DEF StartsLunch
    <2>4. \A s \in sent' : s \in sent \/ (s[1] = day /\ s[2] = check)
      BY <1>2 DEF StartsLunch
    <2>5. /\ tick'[i].day = day => tick'[i].now <= minute
          /\ tick'[i].at = "lunch" /\ tick'[i].check.kind = "lunch"
      BY <1>2, <2>2 DEF StartsLunch
    <2> QED
      BY <2>3, <2>4, <2>5, GoesOnEffect, TimesKept
  <1> QED
    BY <1>1, <1>2, GoesOnEffect

LEMMA TimesStep == TypeOK /\ TypeOK' /\ Once /\ Times /\ [Next]_vars => Times'
  <1> SUFFICES ASSUME TypeOK, TypeOK', Once, Times, [Next]_vars PROVE Times'
    OBVIOUS
  <1> USE DEF clock, config, data, history
  <1>0. /\ day \in Nat /\ minute \in 0..(Minutes - 1) /\ Minutes \in Nat
        /\ \A c : Due(c)' = Due(c)
    BY DaysAreNat, MissedPunchAssumption, ScheduleStays DEF TypeOK
  <1>1. ASSUME NEW i \in Slots, Ticks(i) PROVE Times'
    <2>1. CASE pushed # {"hours", "smtp"}
      BY <1>1, <2>1, TimesKept DEF Ticks
    <2>2. CASE pushed = {"hours", "smtp"}
      <3> DEFINE check == ExitCheck(day)
                 due == minute >= ExitDue /\ <<day, check>> \notin Fresh
                 next == [at |-> IF due THEN "exit" ELSE "times", day |-> day, now |-> minute,
                          check |-> check, left |-> {}, rows |-> {}]
      <3>1. /\ tick'[i] = next
            /\ \A j \in Slots \ {i} : tick'[j] = tick[j]
            /\ sent' = IF due THEN Fresh \cup {<<day, check>>} ELSE Fresh
            /\ ticked' = IF LastMinute THEN ticked \cup {day} ELSE ticked
            /\ UNCHANGED <<day, minute, entry, lunchOf, active, waiting>>
        BY <1>1, <2>2 DEF Ticks, Becomes, TypeOK
      <3>2. check.kind = "exit" /\ check \in Checks /\ check.day = day
        BY ChecksOfDays DEF TypeOK, ExitCheck
      <3>3. Due(check) = ExitDue /\ ExitDue \in Nat
        BY <3>2, CheckParts DEF Due
      <3>4. tick'[i].day = day /\ tick'[i].now = minute /\ tick'[i].check.kind = "exit"
            /\ tick'[i].at \in {"exit", "times"}
        BY <3>1, <3>2
      <3>5. \A s \in sent' : s \in sent \/ (s = <<day, check>> /\ Due(check) <= minute)
        BY <1>0, <3>1, <3>3 DEF Fresh
      <3> HIDE DEF check, due, next
      <3>6. /\ \A s \in sent' : s[1] <= day
            /\ \A c \in Checks : c.day = day /\ <<day, c>> \in sent' => Due(c) <= minute
        BY <1>0, <3>5 DEF Times, OnTime
      <3>7. \A j \in Slots : tick'[j] # Idle /\ tick'[j].day = day => tick'[j].now <= minute
        BY <1>0, <3>1, <3>4 DEF Times, OnTime, Running
      <3>8. \A d \in ticked' : d <= day /\ (d = day => LastMinute)
        BY <1>0, <3>1 DEF Times, OnTime
      <3>9. OnTime'
        BY <1>0, <3>1, <3>6, <3>7, <3>8 DEF OnTime, Running, LastMinute
      <3>10. QueryOfCheck'
        BY <3>1, <3>4 DEF Times, QueryOfCheck
      <3>11. WaitsDuly'
        BY <1>0, <3>1 DEF Times, WaitsDuly, DoneBy, RowsOf, ExitRows, LunchRows
      <3> QED
        BY <3>9, <3>10, <3>11 DEF Times
    <2> QED
      BY <2>1, <2>2
  <1>2. ASSUME NEW i \in Slots, ReadsExit(i) \/ ReadsLunch(i) \/ QueryFails(i) \/ \E e \in Staff : Mails(i, e)
        PROVE  Times'
    <2>1. tick[i] \in TickState \ {Idle} /\ i \in Running
      BY <1>2, RunningType DEF ReadsExit, ReadsLunch, QueryFails, Mails
    <2>2. PICK next : /\ tick' = [tick EXCEPT ![i] = next]
                      /\ \/ next = Idle
                         \/ /\ next.at \in {"mail", "times"}
                            /\ next.day = tick[i].day /\ next.now = tick[i].now
      <3>1. ASSUME NEW rows, tick' = [tick EXCEPT ![i] = Mailing(tick[i], rows)]
            PROVE  Mailing(tick[i], rows).at = "mail" /\ Mailing(tick[i], rows).day = tick[i].day
                   /\ Mailing(tick[i], rows).now = tick[i].now
        BY <2>1 DEF Mailing, TickState
      <3>2. /\ [tick[i] EXCEPT !.at = "times"].at = "times"
            /\ [tick[i] EXCEPT !.at = "times"].day = tick[i].day
            /\ [tick[i] EXCEPT !.at = "times"].now = tick[i].now
        BY <2>1 DEF TickState
      <3>3. \A e : /\ [tick[i] EXCEPT !.rows = @ \ {e}].at = tick[i].at
                   /\ [tick[i] EXCEPT !.rows = @ \ {e}].day = tick[i].day
                   /\ [tick[i] EXCEPT !.rows = @ \ {e}].now = tick[i].now
        BY <2>1 DEF TickState
      <3>4. CASE ReadsExit(i) \/ ReadsLunch(i)
        BY <3>1, <3>4 DEF ReadsExit, ReadsLunch, Becomes
      <3>5. CASE QueryFails(i)
        BY <3>2, <3>5 DEF QueryFails, Becomes
      <3>6. CASE \E e \in Staff : Mails(i, e)
        <4>1. PICK e \in Staff : Mails(i, e)
          BY <3>6
        <4>2. tick' = [tick EXCEPT ![i] = [tick[i] EXCEPT !.rows = @ \ {e}]] /\ tick[i].at = "mail"
          BY <4>1 DEF Mails, Becomes
        <4> QED
          BY <3>3, <4>2
      <3> QED
        BY <1>2, <3>4, <3>5, <3>6
    <2>3. /\ UNCHANGED <<day, minute, entry, lunchOf, active, ticked, sent>>
          /\ waiting' \subseteq waiting
      BY <1>2 DEF ReadsExit, ReadsLunch, QueryFails, Mails
    <2>4. tick'[i] = next /\ \A j \in Slots \ {i} : tick'[j] = tick[j]
      BY <2>2 DEF TypeOK
    <2>5. tick[i].day = day => tick[i].now <= minute
      BY <2>1 DEF Times, OnTime
    <2> QED
      BY <2>2, <2>3, <2>4, <2>5, TimesKept
  <1>3. ASSUME NEW i \in Slots, ReadsTimes(i) PROVE Times'
    <2>1. {lunchOf[e] : e \in active} \in SUBSET LunchTimes
      BY DEF TypeOK
    <2> QED
      BY <1>3, <2>1, LoopTimes DEF ReadsTimes
  <1>4. ASSUME NEW i \in Slots, MailsDone(i) PROVE Times'
    <2>1. /\ tick[i].at = "mail" /\ tick[i] \in TickState \ {Idle} /\ i \in Running
          /\ tick[i].left \in SUBSET LunchTimes
      BY <1>4, RunningType DEF MailsDone
    <2>2. CASE GoesOn(i, tick[i].left)
      BY <1>4, <2>1, <2>2, LoopTimes DEF MailsDone
    <2>3. CASE Becomes(i, [tick[i] EXCEPT !.at = "times"]) /\ UNCHANGED <<sent, crossed>>
      <3>1. /\ tick'[i].at = "times" /\ tick'[i].day = tick[i].day /\ tick'[i].now = tick[i].now
            /\ \A j \in Slots \ {i} : tick'[j] = tick[j]
        BY <2>1, <2>3 DEF TypeOK, Becomes, TickState
      <3>2. tick[i].day = day => tick[i].now <= minute
        BY <2>1 DEF Times, OnTime
      <3> QED
        BY <1>4, <2>3, <3>1, <3>2, TimesKept DEF MailsDone
    <2> QED
      BY <1>4, <2>2, <2>3 DEF MailsDone
  <1>5. ASSUME NEW e \in Staff, PersonPunches(e) PROVE Times'
    <2>1. PICK p \in After[entry[day][e]] : entry' = [entry EXCEPT ![day][e] = p]
      BY <1>5 DEF PersonPunches
    <2>2. UNCHANGED <<clock, config, sent, tick, lunchOf, active, history>>
      BY <1>5 DEF PersonPunches
    <2>3. \A d \in Days, x \in Staff : d # day \/ x # e => entry'[d][x] = entry[d][x]
      BY <2>1 DEF TypeOK
    <2>4. entry'[day][e] = p /\ entry[day][e] \in Punches
      BY <2>1 DEF TypeOK
    <2>5. ASSUME NEW w \in waiting
          PROVE  entry'[w[1].day][w[2]] \notin DoneBy(w[1]) => w[2] \in RowsOf(w[1])'
      <3>1. w[1] \in Checks /\ w[2] \in Staff
        BY DEF TypeOK
      <3>2. /\ w[1].day \in Days /\ w[1].kind \in {"exit", "lunch"}
            /\ entry[w[1].day][w[2]] \notin DoneBy(w[1]) => w[2] \in RowsOf(w[1])
        BY <3>1, CheckParts DEF Times, WaitsDuly
      <3>3. CASE w[1].day # day \/ w[2] # e
        BY <2>2, <2>3, <3>1, <3>2, <3>3 DEF RowsOf, DoneBy, ExitRows, LunchRows
      <3>4. CASE w[1].day = day /\ w[2] = e
        BY <2>1, <2>2, <2>4, <3>1, <3>2, <3>4 DEF RowsOf, DoneBy, ExitRows, LunchRows, After, Punches
      <3> QED
        BY <3>3, <3>4
    <2>6. WaitsDuly'
      BY <1>0, <2>2, <2>5 DEF Times, WaitsDuly, DoneBy
    <2>7. OnTime' /\ QueryOfCheck'
      BY <1>0, <2>2 DEF Times, OnTime, QueryOfCheck, Running, LastMinute
    <2> QED
      BY <2>6, <2>7 DEF Times
  <1>6. ASSUME NEW e \in Staff, EmployeeEdited(e) PROVE Times'
    <2>1. /\ waiting' = {w \in waiting : w[2] # e \/ w[1].kind = "exit"}
          /\ UNCHANGED <<clock, config, sent, tick, entry, ticked>>
          /\ \A x \in Staff \ {e} : lunchOf'[x] = lunchOf[x] /\ (x \in active' <=> x \in active)
      BY <1>6 DEF EmployeeEdited, TypeOK
    <2>2. ASSUME NEW w \in waiting'
          PROVE  /\ Due(w[1]) < Minutes
                 /\ entry[w[1].day][w[2]] \notin DoneBy(w[1]) => w[2] \in RowsOf(w[1])'
                 /\ w[1].kind # "exit" => lunchOf'[w[2]] = w[1].lunch /\ w[2] \in active'
      <3>1. w \in waiting /\ w[1] \in Checks /\ w[2] \in Staff
        BY <2>1 DEF TypeOK
      <3>2. w[1].kind # "exit" => w[2] # e
        BY <2>1
      <3>3. w[2] \in RowsOf(w[1]) => w[2] \in RowsOf(w[1])'
        BY <2>1, <3>1, <3>2 DEF RowsOf, ExitRows, LunchRows
      <3> QED
        BY <2>1, <3>1, <3>2, <3>3 DEF Times, WaitsDuly
    <2>3. WaitsDuly'
      BY <1>0, <2>1, <2>2 DEF WaitsDuly, DoneBy
    <2>4. OnTime' /\ QueryOfCheck'
      BY <1>0, <2>1 DEF Times, OnTime, QueryOfCheck, Running, LastMinute
    <2> QED
      BY <2>3, <2>4 DEF Times
  <1>7. CASE MinutePasses
    <2>1. /\ UNCHANGED <<config, sent, tick, data, ticked>>
          /\ \/ day' = day /\ minute' = minute + 1 /\ ~LastMinute
             \/ day' = day + 1 /\ minute' = 0
          /\ waiting' = waiting \cup MissingAt(day', minute')
      BY <1>7 DEF MinutePasses
    <2>2. \A s \in sent : s[1] \in Nat /\ s[1] <= day
      BY DaysAreNat DEF Times, OnTime, TypeOK
    <2>3. \A s \in sent' : s[1] <= day'
      BY <1>0, <2>1, <2>2
    <2>4. ASSUME NEW c \in Checks, c.day = day', <<day', c>> \in sent
          PROVE  Due(c) <= minute'
      <3>1. day' = day
        BY <1>0, <2>1, <2>2, <2>4
      <3>2. Due(c) <= minute /\ Due(c) \in Nat
        BY <2>4, <3>1, CheckParts DEF Times, OnTime
      <3> QED
        BY <1>0, <2>1, <3>1, <3>2
    <2>5. ASSUME NEW i \in Running, tick[i].day = day'
          PROVE  tick[i].now <= minute'
      <3>1. tick[i].now \in Nat /\ tick[i].day \in Nat /\ tick[i].day <= day
        <4>1. tick[i] \in TickState \ {Idle} /\ i \in Slots
          BY DEF TypeOK, Running
        <4>2. tick[i].now \in 0..(Minutes - 1) /\ tick[i].day \in Nat
          BY <4>1, DaysAreNat DEF TickState
        <4> QED
          BY <1>0, <4>2 DEF Once, TicksStarted
      <3>2. day' = day
        BY <1>0, <2>1, <2>5, <3>1
      <3> QED
        BY <1>0, <2>1, <2>5, <3>1, <3>2 DEF Times, OnTime
    <2>6. ASSUME NEW d \in ticked
          PROVE  d <= day' /\ (d = day' => LastMinute')
      <3>1. d \in Nat /\ d <= day /\ (d = day => LastMinute)
        BY DaysAreNat DEF TypeOK, Times, OnTime
      <3> QED
        BY <1>0, <2>1, <3>1
    <2>7. OnTime'
      BY <1>0, <2>1, <2>3, <2>4, <2>5, <2>6 DEF OnTime, Running
    <2>8. QueryOfCheck'
      BY <2>1 DEF Times, QueryOfCheck
    <2>9. ASSUME NEW w \in MissingAt(day', minute')
          PROVE  /\ Due(w[1]) < Minutes
                 /\ w[2] \in RowsOf(w[1])
                 /\ w[1].kind # "exit" => lunchOf[w[2]] = w[1].lunch /\ w[2] \in active
      <3>1. minute' \in 0..(Minutes - 1)
        BY <1>0, <2>1 DEF LastMinute
      <3>2. CASE w \in (IF minute' = ExitDue THEN {ExitCheck(day')} \X ExitRows(day') ELSE {})
        <4>1. minute' = ExitDue /\ w[1] = ExitCheck(day') /\ w[2] \in ExitRows(day')
          BY <3>2
        <4> QED
          BY <1>0, <3>1, <4>1 DEF ExitCheck, Due, RowsOf
      <3>3. CASE \E x \in active : /\ w = <<LunchCheck(day', lunchOf[x]), x>>
                                   /\ minute' = LunchDue(lunchOf[x]) /\ x \in LunchRows(day', lunchOf[x])
        BY <1>0, <3>1, <3>3 DEF LunchCheck, Due, RowsOf
      <3> QED
        BY <3>2, <3>3 DEF MissingAt
    <2>10. WaitsDuly'
      <3>1. \A c : RowsOf(c)' = RowsOf(c)
        BY <2>1 DEF RowsOf, ExitRows, LunchRows
      <3> QED
        BY <1>0, <2>1, <2>9, <3>1 DEF Times, WaitsDuly, DoneBy
    <2> QED
      BY <2>7, <2>8, <2>10 DEF Times
  <1>8. CASE Restarts
    <2>1. /\ sent' = {} /\ (\A i \in Slots : tick'[i] = Idle) /\ ticked' = ticked \ {day}
          /\ UNCHANGED <<day, minute, data, waiting>>
      BY <1>8 DEF Restarts
    <2>2. OnTime' /\ QueryOfCheck'
      BY <1>0, <2>1 DEF Times, OnTime, QueryOfCheck, Running, Idle
    <2>3. WaitsDuly'
      BY <1>0, <2>1 DEF Times, WaitsDuly, DoneBy, RowsOf, ExitRows, LunchRows
    <2> QED
      BY <2>2, <2>3 DEF Times
  <1>9. CASE Pushes
    BY <1>9, TimesKept DEF Pushes
  <1>10. CASE UNCHANGED vars
    BY <1>10, TimesKept DEF vars
  <1> QED
    BY <1>1, <1>2, <1>3, <1>4, <1>5, <1>6, <1>7, <1>8, <1>9, <1>10 DEF Next, TickStep

\* What a step must leave of a punch that is waited for.
Carried(w) ==
    /\ DoneWith(w) => DoneWith(w)'
    /\ ~DoneWith(w)' =>
         /\ (\E i \in Slots : Serves(i, w)) => \E i \in Slots : Serves(i, w)'
         /\ (\E i \in Slots : WillServe(i, w)) =>
              \E i \in Slots : Serves(i, w)' \/ WillServe(i, w)'
         /\ <<day', w[1]>> \in sent' =>
              <<day, w[1]>> \in sent \/ \E i \in Slots : Serves(i, w)'
         /\ w[1].day \in ticked' =>
              w[1].day \in ticked \/ \E i \in Slots : Serves(i, w)' \/ WillServe(i, w)'

LEMMA CarriedAll ==
    ASSUME Attended, waiting' \subseteq waiting, \A w \in waiting' : Carried(w)
    PROVE  Attended'
  <1> SUFFICES ASSUME NEW w \in waiting', ~DoneWith(w)'
               PROVE  /\ <<day', w[1]>> \in sent' => \E i \in Slots : Serves(i, w)'
                      /\ w[1].day \in ticked' =>
                           \E i \in Slots : Serves(i, w)' \/ WillServe(i, w)'
    BY DEF Attended
  <1>1. w \in waiting /\ ~DoneWith(w) /\ Carried(w)
    BY DEF Carried
  <1>2. /\ <<day, w[1]>> \in sent => \E i \in Slots : Serves(i, w)
        /\ w[1].day \in ticked => (\E i \in Slots : Serves(i, w)) \/ \E i \in Slots : WillServe(i, w)
    BY <1>1 DEF Attended
  <1> QED
    BY <1>1, <1>2 DEF Carried

LEMMA SettledStays ==
    ASSUME entry' = entry, spoilt \subseteq spoilt', NEW w
    PROVE  DoneWith(w) => DoneWith(w)'
  BY DEF DoneWith, DoneBy

\* A step that leaves the ticks, the marks and what is waited for.
LEMMA NothingServed ==
    ASSUME Attended, [Next]_vars, waiting' \subseteq waiting,
           UNCHANGED <<day, sent, tick, ticked>>,
           \A w \in waiting' : DoneWith(w) => DoneWith(w)'
    PROVE  Attended'
  <1>1. \A c : Due(c)' = Due(c)
    BY ScheduleStays
  <1>2. \A w : \A i \in Slots : Serves(i, w)' = Serves(i, w) /\ WillServe(i, w)' = WillServe(i, w)
    BY <1>1 DEF Serves, WillServe, Busy, Running
  <1> QED
    BY <1>2, CarriedAll DEF Carried

\* A step of one tick: the others serve as before.
LEMMA OthersServe ==
    ASSUME [Next]_vars, NEW i \in Slots, \A j \in Slots \ {i} : tick'[j] = tick[j], NEW w
    PROVE  \A j \in Slots \ {i} : Serves(j, w)' = Serves(j, w) /\ WillServe(j, w)' = WillServe(j, w)
  BY ScheduleStays DEF Serves, WillServe, Busy, Running

Watched == TypeOK /\ Once /\ Times /\ Attended

LEMMA LoopAttends ==
    ASSUME Watched, [Next]_vars, NEW i \in Slots,
           tick[i].at \in {"times", "mail"},
           tick[i].at = "mail" => tick[i].rows = {} /\ tick[i].check.kind # "exit",
           NEW left \in SUBSET LunchTimes, GoesOn(i, left),
           \A w \in waiting : WillServe(i, w) => w[1].lunch \in left,
           UNCHANGED <<day, entry, ticked, spoilt, waiting>>
    PROVE  Attended'
  <1>1. TypeOK /\ Attended
    BY DEF Watched
  <1>2. tick[i].at # "idle" /\ tick[i] # Idle
    BY DEF Idle
  <1>3. /\ \A j \in Slots \ {i} : tick'[j] = tick[j]
        /\ \/ /\ tick'[i] = Idle /\ sent' = sent /\ crossed' = crossed
              /\ \A l \in left : PassesOver(i, l)
           \/ \E check \in Checks : StartsLunch(i, check, left)
    BY <1>1, <1>2, GoesOnEffect
  <1>4. ASSUME NEW w \in waiting, ~DoneWith(w)
        PROVE  Carried(w)
    <2>1. DoneWith(w)' = DoneWith(w)
      BY DEF DoneWith, DoneBy
    <2>2. \A j \in Slots \ {i} : Serves(j, w)' = Serves(j, w) /\ WillServe(j, w)' = WillServe(j, w)
      BY <1>3, OthersServe
    <2>3. ~Serves(i, w)
      BY DEF Serves, Busy
    <2>4. w[1] \in Checks /\ Due(w[1])' = Due(w[1])
      BY <1>1, ScheduleStays DEF TypeOK
    <2>5. \A check \in Checks : StartsLunch(i, check, left) /\ w[1] = check => Serves(i, w)'
      BY DEF StartsLunch, Serves, Busy
    <2>6. <<day, w[1]>> \in sent' => <<day, w[1]>> \in sent \/ \E j \in Slots : Serves(j, w)'
      <3>1. \A check : <<day, w[1]>> \in sent \cup {<<day, check>>} =>
                         <<day, w[1]>> \in sent \/ w[1] = check
        OBVIOUS
      <3> QED
        BY <1>3, <2>5, <3>1 DEF StartsLunch
    <2>7. ASSUME WillServe(i, w)
          PROVE  \E j \in Slots : Serves(j, w)' \/ WillServe(j, w)'
      <3>1. /\ w[1].kind = "lunch" /\ w[1].lunch \in left /\ tick[i].day = w[1].day
            /\ LunchDue(w[1].lunch) <= tick[i].now
            /\ w[1] = LunchCheck(w[1].day, w[1].lunch)
        BY <1>1, <2>4, <2>7, CheckParts DEF WillServe, Due
      <3>2. CASE PassesOver(i, w[1].lunch)
        <4>1. <<day, w[1]>> \in sent
          BY <3>1, <3>2 DEF PassesOver
        <4>2. PICK j \in Slots : Serves(j, w)
          BY <1>1, <1>4, <4>1 DEF Attended
        <4> QED
          BY <2>2, <2>3, <4>2
      <3>3. ASSUME NEW check \in Checks, StartsLunch(i, check, left), ~PassesOver(i, w[1].lunch)
            PROVE  Serves(i, w)' \/ WillServe(i, w)'
        <4>1. w[1].lunch = check.lunch \/ w[1].lunch \in tick'[i].left
          BY <3>1, <3>3 DEF StartsLunch
        <4>2. CASE w[1].lunch = check.lunch
          <5>1. check = LunchCheck(check.day, check.lunch) /\ check.day = w[1].day
            BY <1>1, <3>1, <3>3, CheckParts DEF StartsLunch
          <5> QED
            BY <2>5, <3>1, <3>3, <4>2, <5>1
        <4>3. CASE w[1].lunch \in tick'[i].left
          <5>1. /\ tick'[i].at = "lunch" /\ tick'[i].day = w[1].day /\ tick'[i].now = tick[i].now
            BY <3>1, <3>3 DEF StartsLunch
          <5>2. i \in Running'
            BY <5>1 DEF Running, Idle
          <5> QED
            BY <2>4, <2>7, <4>3, <5>1, <5>2 DEF WillServe
        <4> QED
          BY <4>1, <4>2, <4>3
      <3> QED
        BY <1>3, <3>1, <3>2, <3>3
    <2> QED
      BY <2>1, <2>2, <2>3, <2>6, <2>7 DEF Carried
  <1>5. \A w \in waiting : DoneWith(w) => Carried(w)
    BY SettledStays DEF Carried
  <1> QED
    BY <1>1, <1>4, <1>5, CarriedAll

LEMMA AttendedStep == Watched /\ [Next]_vars => Attended'
  <1> SUFFICES ASSUME Watched, [Next]_vars PROVE Attended'
    OBVIOUS
  <1> USE DEF clock, config, data, history
  <1>0. /\ TypeOK /\ Once /\ Times /\ Attended
        /\ \A c : Due(c)' = Due(c)
        /\ day \in Nat /\ minute \in 0..(Minutes - 1) /\ Minutes \in Nat
    BY DaysAreNat, MissedPunchAssumption, ScheduleStays DEF Watched, TypeOK
  <1>w. \A w \in waiting : w[1] \in Checks /\ w[2] \in Staff
    BY <1>0 DEF TypeOK
  <1>1. ASSUME NEW i \in Slots, Ticks(i) PROVE Attended'
    <2>1. CASE pushed # {"hours", "smtp"}
      BY <1>0, <1>1, <2>1, NothingServed, SettledStays DEF Ticks
    <2>2. CASE pushed = {"hours", "smtp"}
      <3> DEFINE check == ExitCheck(day)
                 due == minute >= ExitDue /\ <<day, check>> \notin Fresh
                 next == [at |-> IF due THEN "exit" ELSE "times", day |-> day, now |-> minute,
                          check |-> check, left |-> {}, rows |-> {}]
      <3>1. /\ tick'[i] = next /\ tick[i] = Idle
            /\ \A j \in Slots \ {i} : tick'[j] = tick[j]
            /\ sent' = IF due THEN Fresh \cup {<<day, check>>} ELSE Fresh
            /\ ticked' = IF LastMinute THEN ticked \cup {day} ELSE ticked
            /\ UNCHANGED <<day, minute, entry, spoilt, waiting>>
        BY <1>0, <1>1, <2>2 DEF Ticks, Becomes, TypeOK
      <3>2. check.kind = "exit" /\ check \in Checks /\ check.day = day
        BY <1>0, ChecksOfDays DEF TypeOK, ExitCheck
      <3>3. ExitDue \in Nat
        BY <1>0, <3>2, CheckParts DEF Due
      <3>4. /\ tick'[i].day = day /\ tick'[i].now = minute /\ tick'[i].check = check
            /\ tick'[i].at = IF due THEN "exit" ELSE "times"
        BY <3>1
      <3>5. i \in Running' /\ i \notin Running
        BY <3>1, <3>4 DEF Running, Idle
      <3>6. due => <<day, check>> \notin sent
        BY DEF Fresh
      <3>7. ~due /\ minute >= ExitDue => <<day, check>> \in sent
        BY DEF Fresh
      <3>8. \A c : <<day, c>> \in sent' => <<day, c>> \in sent \/ (c = check /\ due)
        BY <3>1 DEF Fresh
      <3> HIDE DEF due, next
      <3>9. ASSUME NEW w \in waiting, ~DoneWith(w)
            PROVE  Carried(w)
        <4>1. DoneWith(w)' = DoneWith(w)
          BY <3>1 DEF DoneWith, DoneBy
        <4>2. \A j \in Slots \ {i} : Serves(j, w)' = Serves(j, w) /\ WillServe(j, w)' = WillServe(j, w)
          BY <3>1, OthersServe
        <4>3. ~Serves(i, w) /\ ~WillServe(i, w)
          BY <3>1, <3>5 DEF Serves, Busy, WillServe, Idle
        <4>4. w[1] = check /\ due => Serves(i, w)'
          BY <3>4 DEF Serves, Busy
        <4>5. <<day, w[1]>> \in sent' => <<day, w[1]>> \in sent \/ \E j \in Slots : Serves(j, w)'
          BY <3>8, <4>4
        <4>6. ASSUME w[1].day = day, LastMinute
              PROVE  \E j \in Slots : Serves(j, w)' \/ WillServe(j, w)'
          <5>1. Due(w[1]) < Minutes /\ Due(w[1]) \in Nat /\ w[1].kind \in {"exit", "lunch"}
                /\ (w[1].kind = "exit" => w[1] = ExitCheck(w[1].day))
            BY <1>0, <1>w, CheckParts DEF Times, WaitsDuly
          <5>2. Due(w[1]) <= minute
            BY <1>0, <4>6, <5>1 DEF LastMinute
          <5>3. CASE w[1].kind = "exit"
            <6>1. w[1] = check /\ minute >= ExitDue
              BY <3>3, <4>6, <5>1, <5>2, <5>3, <1>0 DEF Due
            <6>2. CASE due
              BY <4>4, <6>1, <6>2
            <6>3. CASE ~due
              <7>1. <<day, w[1]>> \in sent
                BY <3>7, <6>1, <6>3
              <7>2. PICK j \in Slots : Serves(j, w)
                BY <1>0, <3>9, <7>1 DEF Attended
              <7> QED
                BY <4>2, <4>3, <7>2
            <6> QED
              BY <6>2, <6>3
          <5>4. CASE w[1].kind = "lunch"
            <6>1. tick'[i].at \in {"exit", "times"}
              BY <3>4
            <6> QED
              BY <1>0, <3>4, <3>5, <4>6, <5>2, <5>4, <6>1 DEF WillServe
          <5> QED
            BY <5>1, <5>3, <5>4
        <4>7. w[1].day \in ticked' =>
                 w[1].day \in ticked \/ \E j \in Slots : Serves(j, w)' \/ WillServe(j, w)'
          BY <3>1, <4>6
        <4> QED
          BY <3>1, <4>1, <4>2, <4>3, <4>5, <4>7 DEF Carried
      <3>10. \A w \in waiting : DoneWith(w) => Carried(w)
        BY <3>1, SettledStays DEF Carried
      <3> QED
        BY <1>0, <3>1, <3>9, <3>10, CarriedAll
    <2> QED
      BY <2>1, <2>2
  <1>2. ASSUME NEW i \in Slots, ReadsExit(i) \/ ReadsLunch(i) PROVE Attended'
    <2> DEFINE c0 == tick[i].check
               rows == IF tick[i].at = "exit" THEN ExitRows(tick[i].day)
                       ELSE LunchRows(tick[i].day, c0.lunch)
    <2>1. /\ tick' = [tick EXCEPT ![i] = Mailing(tick[i], rows)]
          /\ tick[i].at \in {"exit", "lunch"}
          /\ UNCHANGED <<clock, config, sent, data, history>>
      BY <1>2 DEF ReadsExit, ReadsLunch, Becomes
    <2>2. tick[i] \in TickState \ {Idle} /\ i \in Running /\ c0 \in Checks
      BY <1>0, <2>1, RunningType
    <2>3. c0.kind = tick[i].at /\ c0.day = tick[i].day
      BY <1>0, <2>1, <2>2 DEF Times, QueryOfCheck, Once, BusyMarked, Busy
    <2>4. rows = RowsOf(c0)
      BY <2>1, <2>3 DEF RowsOf
    <2>5. /\ tick'[i].at = "mail" /\ tick'[i].check = c0 /\ tick'[i].day = tick[i].day
          /\ tick'[i].now = tick[i].now /\ tick'[i].left = tick[i].left
          /\ tick'[i].rows = rows \cap Addressed
          /\ \A j \in Slots \ {i} : tick'[j] = tick[j]
      BY <1>0, <2>1, <2>2 DEF Mailing, TickState, TypeOK
    <2>6. i \in Running'
      BY <2>5 DEF Running, Idle
    <2> HIDE DEF rows, c0
    <2>7. ASSUME NEW w \in waiting, ~DoneWith(w)
          PROVE  Carried(w)
      <3>1. DoneWith(w)' = DoneWith(w)
        BY <2>1 DEF DoneWith, DoneBy
      <3>2. \A j \in Slots \ {i} : Serves(j, w)' = Serves(j, w) /\ WillServe(j, w)' = WillServe(j, w)
        BY <2>5, OthersServe
      <3>3. Serves(i, w) => Serves(i, w)'
        <4>1. w[2] \in RowsOf(w[1]) /\ w[2] \in Addressed
          BY <1>0, <2>7 DEF Times, WaitsDuly, DoneWith
        <4> QED
          BY <2>4, <2>5, <4>1 DEF Serves, Busy, c0
      <3>4. WillServe(i, w) => WillServe(i, w)'
        BY <1>0, <2>1, <2>3, <2>5, <2>6 DEF WillServe
      <3> QED
        BY <2>1, <3>1, <3>2, <3>3, <3>4 DEF Carried
    <2>8. \A w \in waiting : DoneWith(w) => Carried(w)
      BY <2>1, SettledStays DEF Carried
    <2> QED
      BY <1>0, <2>1, <2>7, <2>8, CarriedAll
  <1>3. ASSUME NEW i \in Slots, ReadsTimes(i) PROVE Attended'
    <2>1. {lunchOf[e] : e \in active} \in SUBSET LunchTimes
      BY <1>0 DEF TypeOK
    <2>2. \A w \in waiting : WillServe(i, w) => w[1].lunch \in {lunchOf[e] : e \in active}
      BY <1>0 DEF Times, WaitsDuly, WillServe
    <2> QED
      BY <1>3, <2>1, <2>2, LoopAttends DEF ReadsTimes
  <1>4. ASSUME NEW i \in Slots, MailsDone(i) PROVE Attended'
    <2>1. /\ tick[i].at = "mail" /\ tick[i].rows = {} /\ tick[i] \in TickState \ {Idle}
          /\ tick[i].left \in SUBSET LunchTimes /\ i \in Running
      BY <1>0, <1>4, RunningType DEF MailsDone
    <2>2. CASE tick[i].check.kind # "exit"
      <3>1. \A w \in waiting : WillServe(i, w) => w[1].lunch \in tick[i].left
        BY <2>1, <2>2 DEF WillServe
      <3> QED
        BY <1>4, <2>1, <2>2, <3>1, LoopAttends DEF MailsDone
    <2>3. CASE tick[i].check.kind = "exit"
      <3>1. /\ tick'[i].at = "times" /\ tick'[i].day = tick[i].day /\ tick'[i].now = tick[i].now
            /\ \A j \in Slots \ {i} : tick'[j] = tick[j]
            /\ UNCHANGED <<sent, crossed>>
        BY <1>0, <1>4, <2>1, <2>3 DEF TypeOK, MailsDone, Becomes, TickState
      <3>2. i \in Running'
        BY <3>1 DEF Running, Idle
      <3>3. ASSUME NEW w \in waiting
            PROVE  Carried(w)
        <4>1. DoneWith(w) => DoneWith(w)'
          BY <1>4, SettledStays DEF MailsDone
        <4>2. \A j \in Slots \ {i} : Serves(j, w)' = Serves(j, w) /\ WillServe(j, w)' = WillServe(j, w)
          BY <3>1, OthersServe
        <4>3. ~Serves(i, w)
          BY <2>1 DEF Serves
        <4>4. WillServe(i, w) => WillServe(i, w)'
          BY <1>0, <3>1, <3>2 DEF WillServe
        <4> QED
          BY <1>4, <3>1, <4>1, <4>2, <4>3, <4>4 DEF Carried, MailsDone
      <3> QED
        BY <1>0, <1>4, <3>3, CarriedAll DEF MailsDone
    <2> QED
      BY <2>2, <2>3
  <1>5. ASSUME NEW i \in Slots, QueryFails(i) PROVE Attended'
    <2>1. /\ tick[i].at \in {"exit", "times", "lunch"} /\ tick[i] \in TickState \ {Idle}
          /\ spoilt' = spoilt \cup {tick[i].day}
          /\ \A j \in Slots \ {i} : tick'[j] = tick[j]
          /\ UNCHANGED <<clock, config, sent, data, reminded, twice, waiting, ticked, crossed>>
      BY <1>0, <1>5, RunningType DEF QueryFails, Becomes, TypeOK
    <2>2. ASSUME NEW w \in waiting
          PROVE  Carried(w)
      <3>1. DoneWith(w) => DoneWith(w)'
        BY <2>1, SettledStays
      <3>2. Serves(i, w) \/ WillServe(i, w) => DoneWith(w)'
        <4>1. Serves(i, w) => w[1].day = tick[i].day
          BY <1>0, <1>w DEF Once, BusyMarked, Serves
        <4> QED
          BY <2>1, <4>1 DEF WillServe, DoneWith
      <3>3. \A j \in Slots \ {i} : Serves(j, w)' = Serves(j, w) /\ WillServe(j, w)' = WillServe(j, w)
        BY <2>1, OthersServe
      <3> QED
        BY <2>1, <3>1, <3>2, <3>3 DEF Carried
    <2> QED
      BY <1>0, <2>1, <2>2, CarriedAll
  <1>6. ASSUME NEW i \in Slots, NEW e \in Staff, Mails(i, e) PROVE Attended'
    <2>1. /\ tick[i].at = "mail" /\ tick[i] \in TickState \ {Idle} /\ i \in Running
          /\ UNCHANGED <<clock, config, sent, data, ticked, crossed>>
      BY <1>0, <1>6, RunningType DEF Mails
    <2>2. /\ tick'[i].at = "mail" /\ tick'[i].check = tick[i].check /\ tick'[i].day = tick[i].day
          /\ tick'[i].now = tick[i].now /\ tick'[i].left = tick[i].left
          /\ tick'[i].rows = tick[i].rows \ {e}
          /\ \A j \in Slots \ {i} : tick'[j] = tick[j]
      BY <1>0, <1>6, <2>1 DEF TypeOK, Mails, Becomes, TickState
    <2>3. i \in Running'
      BY <2>2 DEF Running, Idle
    <2>4. \/ waiting' = waiting \ {<<tick[i].check, e>>} /\ spoilt' = spoilt
          \/ waiting' = waiting /\ spoilt' = spoilt \cup {tick[i].day}
      BY <1>6 DEF Mails
    <2>5. ASSUME NEW w \in waiting'
          PROVE  Carried(w)
      <3>1. w \in waiting /\ w = <<w[1], w[2]>>
        BY <1>0, <2>4 DEF TypeOK
      <3>2. DoneWith(w) => DoneWith(w)'
        BY <2>1, <2>4, SettledStays
      <3>3. \A j \in Slots \ {i} : Serves(j, w)' = Serves(j, w) /\ WillServe(j, w)' = WillServe(j, w)
        BY <2>2, OthersServe
      <3>4. Serves(i, w) /\ ~DoneWith(w)' => Serves(i, w)'
        <4>1. Serves(i, w) => w[1].day = tick[i].day
          BY <1>0, <1>w, <3>1 DEF Once, BusyMarked, Serves
        <4>2. Serves(i, w) /\ w[2] = e => DoneWith(w)'
          BY <2>4, <3>1, <4>1 DEF Serves, Busy, DoneWith
        <4> QED
          BY <2>1, <2>2, <4>2 DEF Serves, Busy
      <3>5. WillServe(i, w) => WillServe(i, w)'
        BY <1>0, <2>1, <2>2, <2>3 DEF WillServe
      <3> QED
        BY <2>1, <3>2, <3>3, <3>4, <3>5 DEF Carried
    <2> QED
      BY <1>0, <2>4, <2>5, CarriedAll
  <1>7. ASSUME NEW e \in Staff, PersonPunches(e) PROVE Attended'
    <2>1. PICK p \in After[entry[day][e]] : entry' = [entry EXCEPT ![day][e] = p]
      BY <1>7 DEF PersonPunches
    <2>2. UNCHANGED <<clock, config, sent, tick, lunchOf, active, history>>
      BY <1>7 DEF PersonPunches
    <2>3. \A d \in Days, x \in Staff : d # day \/ x # e => entry'[d][x] = entry[d][x]
      BY <1>0, <2>1 DEF TypeOK
    <2>4. entry'[day][e] = p /\ entry[day][e] \in Punches
      BY <1>0, <2>1 DEF TypeOK
    <2>5. ASSUME NEW w \in waiting, DoneWith(w)
          PROVE  DoneWith(w)'
      <3>1. w[1].day \in Days /\ w[2] \in Staff
        BY <1>0, <1>w, CheckParts
      <3>2. CASE w[1].day # day \/ w[2] # e
        BY <2>2, <2>3, <2>5, <3>1, <3>2 DEF DoneWith, DoneBy
      <3>3. CASE w[1].day = day /\ w[2] = e
        <4>1. entry[day][e] \in DoneBy(w[1]) => p \in DoneBy(w[1])
          BY <2>1, <2>4 DEF DoneBy, After, Punches
        <4> QED
          BY <2>2, <2>4, <2>5, <3>3, <4>1 DEF DoneWith, DoneBy
      <3> QED
        BY <3>2, <3>3
    <2> QED
      BY <1>0, <2>2, <2>5, NothingServed
  <1>8. ASSUME NEW e \in Staff, EmployeeEdited(e) PROVE Attended'
    BY <1>0, <1>8, NothingServed, SettledStays DEF EmployeeEdited
  <1>9. CASE MinutePasses
    <2>1. /\ UNCHANGED <<config, sent, tick, data, ticked, spoilt>>
          /\ \/ day' = day /\ minute' = minute + 1 /\ ~LastMinute
             \/ day' = day + 1 /\ minute' = 0
          /\ waiting' = waiting \cup MissingAt(day', minute')
      BY <1>9 DEF MinutePasses
    <2>2. \A w : \A i \in Slots : Serves(i, w)' = Serves(i, w) /\ WillServe(i, w)' = WillServe(i, w)
      BY <1>0, <2>1 DEF Serves, WillServe, Busy, Running
    <2>3. \A w : DoneWith(w)' = DoneWith(w)
      BY <2>1 DEF DoneWith, DoneBy
    <2>4. \A s \in sent : s[1] \in Nat /\ s[1] <= day
      BY <1>0, DaysAreNat DEF Times, OnTime, TypeOK
    <2>5. \A c : <<day', c>> \in sent => day' = day
      BY <1>0, <2>1, <2>4
    <2>6. ASSUME NEW w \in MissingAt(day', minute')
          PROVE  w[1] \in Checks /\ w[1].day = day' /\ Due(w[1]) = minute'
      <3>1. day' \in Days
        BY <1>0, TypeStep DEF TypeOK
      <3>2. CASE w \in (IF minute' = ExitDue THEN {ExitCheck(day')} \X ExitRows(day') ELSE {})
        <4>1. minute' = ExitDue /\ w[1] = ExitCheck(day')
          BY <3>2
        <4> QED
          BY <3>1, <4>1, ChecksOfDays DEF ExitCheck, Due
      <3>3. CASE \E x \in active : /\ w = <<LunchCheck(day', lunchOf[x]), x>>
                                   /\ minute' = LunchDue(lunchOf[x])
        <4>1. PICK x \in active : /\ w = <<LunchCheck(day', lunchOf[x]), x>>
                                  /\ minute' = LunchDue(lunchOf[x])
          BY <3>3
        <4>2. lunchOf[x] \in LunchTimes
          BY <1>0 DEF TypeOK
        <4> QED
          BY <3>1, <4>1, <4>2, ChecksOfDays DEF LunchCheck, Due
      <3> QED
        BY <3>2, <3>3 DEF MissingAt
    <2>7. ASSUME NEW w \in MissingAt(day', minute')
          PROVE  <<day', w[1]>> \notin sent /\ w[1].day \notin ticked
      <3>1. CASE day' = day
        <4>1. minute' = minute + 1 /\ ~LastMinute
          BY <1>0, <2>1, <3>1
        <4>2. <<day, w[1]>> \notin sent
          BY <1>0, <2>6, <3>1, <4>1 DEF Times, OnTime
        <4> QED
          BY <1>0, <2>6, <3>1, <4>1, <4>2 DEF Times, OnTime
      <3>2. CASE day' # day
        <4>1. day' = day + 1
          BY <2>1, <3>2
        <4>2. \A d \in ticked : d \in Nat /\ d <= day
          BY <1>0, DaysAreNat DEF Times, OnTime, TypeOK
        <4> QED
          BY <1>0, <2>5, <2>6, <3>2, <4>1, <4>2
      <3> QED
        BY <3>1, <3>2
    <2>8. ASSUME NEW w \in waiting, ~DoneWith(w)
          PROVE  /\ <<day', w[1]>> \in sent' => \E i \in Slots : Serves(i, w)
                 /\ w[1].day \in ticked' => \E i \in Slots : Serves(i, w) \/ WillServe(i, w)
      BY <1>0, <2>1, <2>5, <2>8 DEF Attended
    <2> QED
      BY <2>1, <2>2, <2>3, <2>7, <2>8 DEF Attended
  <1>10. CASE Restarts
    <2>1. /\ sent' = {} /\ ticked' = ticked \ {day}
          /\ spoilt' = spoilt \cup ({tick[i].day : i \in Running} \ {day})
          /\ UNCHANGED <<day, minute, data, waiting>>
      BY <1>10 DEF Restarts
    <2>2. ASSUME NEW w \in waiting, w[1].day \in ticked', ~DoneWith(w)'
          PROVE  FALSE
      <3>1. ~DoneWith(w) /\ w[1].day \in ticked /\ w[1].day # day
        BY <2>1, <2>2, SettledStays
      <3>2. PICK i \in Slots : Serves(i, w) \/ WillServe(i, w)
        BY <1>0, <3>1 DEF Attended
      <3>3. i \in Running /\ tick[i].day = w[1].day
        BY <1>0, <1>w, <3>2, BusyTypes DEF Once, BusyMarked, Serves, WillServe
      <3> QED
        BY <2>1, <2>2, <3>1, <3>3 DEF DoneWith
    <2> QED
      BY <2>1, <2>2 DEF Attended
  <1>11. CASE Pushes
    BY <1>0, <1>11, NothingServed, SettledStays DEF Pushes
  <1>12. CASE UNCHANGED vars
    BY <1>0, <1>12, NothingServed, SettledStays DEF vars
  <1> QED
    BY <1>1, <1>2, <1>3, <1>4, <1>5, <1>6, <1>7, <1>8, <1>9, <1>10, <1>11, <1>12
    DEF Next, TickStep

-----------------------------------------------------------------------------
(* The theorems.                                                           *)

LEMMA Inductive == Spec => []IInv
  <1>1. Init => IInv
    <2> SUFFICES ASSUME Init PROVE IInv
      OBVIOUS
    <2>1. 0 \in Days /\ 0 \in 0..(Minutes - 1)
      BY MissedPunchAssumption, DayBelow DEF Days
    <2>2. TypeOK
      BY <2>1, IdleType DEF Init, TypeOK, Punches
    <2>3. Once
      BY DEF Init, Once, TicksStarted, BusyMarked, RemindedMarked, OneBusy, NoMailLeft,
             RemindsOnce, Running, Busy, Idle
    <2>4. Times /\ Attended
      BY DEF Init, Times, OnTime, QueryOfCheck, WaitsDuly, Attended, Running, Idle
    <2> QED
      BY <2>2, <2>3, <2>4 DEF IInv, Once, Times
  <1>2. IInv /\ [Next]_vars => IInv'
    BY TypeStep, OnceStep, TimesStep, AttendedStep DEF IInv, Once, Times, Watched
  <1> QED
    BY <1>1, <1>2, PTL DEF Spec

\* Every state of the clock, the configuration, the ticks, the data they read and
\* the histories is well typed.
THEOREM TypeCorrect == Spec => []TypeOK
  BY Inductive, PTL DEF IInv

\* "Tracks sent checks per day to prevent duplicate notifications": a run of the
\* sidecar reminds nobody twice of the same punch, however many ticks overlap and
\* whatever fails or is edited, except for a tick that goes on after midnight.
THEOREM NobodyRemindedTwice == Spec => []RemindsOnce
  BY Inductive, PTL DEF IInv

\* The scheduler "knows when to fire": who missed a punch when its time came, and
\* still does when the day is over, was reminded of it, unless something failed, no
\* tick ran in the day's last minute, or the last ticks of the day are still at it.
THEOREM EverybodyReminded == Spec => []NobodyForgotten
  <1>1. IInv => NobodyForgotten
    <2> SUFFICES ASSUME IInv, NEW w \in waiting,
                        w[1].day \in ticked, ~DoneWith(w)
                 PROVE  \E i \in Running : tick[i].day = w[1].day
      BY DEF NobodyForgotten, DoneWith, DoneBy
    <2>1. PICK i \in Slots : Serves(i, w) \/ WillServe(i, w)
      BY DEF IInv, Attended
    <2>2. w[1] \in Checks
      BY DEF IInv, TypeOK
    <2> QED
      BY <2>1, <2>2, BusyTypes DEF IInv, BusyMarked, Serves, WillServe
  <1> QED
    BY <1>1, Inductive, PTL

-----------------------------------------------------------------------------
(* The working hours.                                                      *)

\* The calls of a sequence that have yet to pass the stages S of a save, and will.
Unsaved(c, S) == c.op = "save" /\ c.at \in S /\ c.hours \notin Refused

\* Once the first n calls of s are past S, v is there: the last of them to pass
\* brings it, or none has to and v is there already.
Will(s, n, S, v, there) ==
    \/ \E k \in 1..n :
          /\ Unsaved(s[k], S) /\ s[k].hours = v
          /\ \A j \in (k + 1)..n : ~Unsaved(s[j], S)
    \/ there /\ \A j \in 1..n : ~Unsaved(s[j], S)

\* The mirror, and the outbox or PostgreSQL behind it.
LiteWill(s, n, v, m) == Will(s, n, {"sent"}, v, m = v)
RowThere(v, rows, pg) == IF rows = <<>> THEN pg = v ELSE rows[Len(rows)] = v
RowWill(s, v, rows, pg) == Will(s, Len(s), {"sent", "local"}, v, RowThere(v, rows, pg))

HoursTyped ==
    /\ HoursTypeOK
    /\ \A i \in 1..Len(calls) :
          IF calls[i].op = "save"
          THEN /\ calls[i].hours \in Hours /\ calls[i].at # "read"
               /\ calls[i].at # "sent" => calls[i].hours \notin Refused
          ELSE calls[i].at \in {"sent", "read"} /\ calls[i].hours \notin Refused

OneWindow ==
    /\ page["splash"] = None \/ page["main"] = None
    /\ \A w \in Windows : page[w] # None => page[w] = stored
    /\ Off => calls = <<>> /\ boot = "no" /\ step = "closed"

\* The calls of a sequence that are of one sender.
NoneBy(s, b) == \A i \in 1..Len(s) : s[i].by # b
OneBy(s, b) == \A i, j \in 1..Len(s) : s[i].by = b /\ s[j].by = b => i = j

Guided ==
    /\ busy # "no" => step = "database"
    /\ boot # "no" \/ InMain \/ ~NoneBy(calls, "migration") => step \in {"loading", "closed"}
    /\ InMain => boot = "done"
    /\ boot # "no" => NoneBy(calls, "migration")
    /\ OneBy(calls, "migration")
    /\ InMain \/ NoneBy(calls, "main")

\* Calls pass the stages in the order in which they were sent.
InLine(s) ==
    \A i, j \in 1..Len(s) : j < i =>
        /\ s[j].at = "sent" => s[i].at = "sent"
        /\ Unsaved(s[j], {"local"}) /\ s[i].op = "save" => s[i].at \in {"sent", "local"}

\* A save that has queued its row has not seen it go.
RowsWait(s, rows) == \A i \in 1..Len(s) : s[i].at = "queued" => rows # <<>>

\* No save of s went on: an empty mirror has nothing behind it.
Still(s) == \A i \in 1..Len(s) : s[i].op = "save" => s[i].at = "sent"
Blank == lite = None => outbox = <<>> /\ central = None /\ Still(calls)

\* The mirror m has hours once the first n calls are past; a migration reads no other.
Filled(s, n, m) == m # None \/ \E j \in 1..n : Unsaved(s[j], {"sent"})
AsksFilled(s, m) ==
    \A i \in 1..Len(s) : s[i].by = "migration" /\ s[i].op = "get" =>
        IF s[i].at = "sent" THEN Filled(s, i, m) ELSE s[i].hours # None
Asked == AsksFilled(calls, lite) /\ (~Off => Filled(calls, Len(calls), lite))

Line(s, rows) == InLine(s) /\ RowsWait(s, rows)

\* v is under way to the mirror and to PostgreSQL: what the main window keeps in
\* localStorage is, unless it is refused, and then there is another.
Word(s, v, m, rows, pg) == LiteWill(s, Len(s), v, m) /\ RowWill(s, v, rows, pg)
IsWord(v) == Word(calls, v, lite, outbox, central)
MainWord == InMain => \E v \in MaybeHours : IsWord(v) /\ (stored = v \/ stored \in Refused)

\* The splash window has sent nothing that is taken, and waits for the answer that
\* it will send back.
Unsent(s) == \A i \in 1..Len(s) : s[i].op = "save" => s[i].hours \in Refused
Waits(s) == \E i \in 1..Len(s) : Wait(s[i]) /\ s[i].by = "splash"
Reads(s, m) == \A i \in 1..Len(s) : Wait(s[i]) /\ s[i].at = "read" => s[i].hours = m
Mends(s, m) == Unsent(s) /\ Waits(s) /\ Reads(s, m)
SplashWord == ~Off /\ ~InMain => (\E v \in MaybeHours : IsWord(v)) \/ Mends(calls, lite)

\* A question that a window will hear answered brings it v, or brings nothing
\* and v is under way to the mirror m; it is if there is no such question.
Heard(c, p) == Wait(c) /\ p[c.by] # None
Brings(s, i, v, m) == IF s[i].at = "sent" THEN LiteWill(s, i, v, m) ELSE s[i].hours = v
Comes(s, v, m, p) ==
    /\ \A i \in 1..Len(s) : Heard(s[i], p) =>
          Brings(s, i, v, m) \/ (Brings(s, i, None, m) /\ LiteWill(s, Len(s), v, m))
    /\ (\A i \in 1..Len(s) : ~Heard(s[i], p)) => LiteWill(s, Len(s), v, m)
ChosenComes == Comes(calls, chosen, lite, page) \/ (Off /\ lite = None /\ stored = chosen)

InOrder == odd \cap {"overtake", "failed"} = {}
Uncut == odd \subseteq {"outage"} /\ chosen # None

Ordered == Line(calls, outbox) /\ MainWord /\ SplashWord

HoursInv ==
    /\ HoursTyped /\ OneWindow /\ Guided /\ Blank
    /\ InOrder => Ordered
    /\ Uncut => ChosenComes /\ Asked

-----------------------------------------------------------------------------
(* Sequences of calls.                                                      *)

LEMMA AppendShape ==
    ASSUME NEW S, NEW s \in Seq(S), NEW c \in S
    PROVE  /\ Append(s, c) \in Seq(S)
           /\ Len(Append(s, c)) = Len(s) + 1
           /\ Append(s, c)[Len(s) + 1] = c
           /\ \A j \in 1..Len(s) : Append(s, c)[j] = s[j]
  BY AppendProperties

LEMMA RemoveShape ==
    ASSUME NEW S, NEW s \in Seq(S), NEW i \in 1..Len(s)
    PROVE  /\ RemoveAt(s, i) \in Seq(S)
           /\ Len(RemoveAt(s, i)) = Len(s) - 1
           /\ \A j \in 1..(Len(s) - 1) :
                 RemoveAt(s, i)[j] = IF j < i THEN s[j] ELSE s[j + 1]
<1> DEFINE a == SubSeq(s, 1, i - 1)
           b == SubSeq(s, i + 1, Len(s))
<1>1. /\ a \in Seq(S) /\ Len(a) = i - 1
      /\ \A j \in 1..(i - 1) : a[j] = s[j]
  <2>1. \A j \in 1..(i - 1) : s[j] \in S
    BY ElementOfSeq
  <2>2. 1 \in Int /\ i - 1 \in Int
    OBVIOUS
  <2> QED BY <2>1, <2>2, SubSeqProperties
<1>2. /\ b \in Seq(S) /\ Len(b) = Len(s) - i
      /\ \A j \in 1..(Len(s) - i) : b[j] = s[i + j]
  <2>1. \A j \in (i + 1)..Len(s) : s[j] \in S
    BY ElementOfSeq
  <2>2. i + 1 \in Int /\ Len(s) \in Int
    OBVIOUS
  <2> QED BY <2>1, <2>2, SubSeqProperties
<1> HIDE DEF a, b
<1>3. RemoveAt(s, i) = a \o b
  BY DEF RemoveAt, a, b
<1>4. /\ a \o b \in Seq(S) /\ Len(a \o b) = Len(a) + Len(b)
      /\ \A j \in 1..(Len(a) + Len(b)) : (a \o b)[j] = IF j <= Len(a) THEN a[j] ELSE b[j - Len(a)]
  BY <1>1, <1>2, ConcatProperties
<1>5. \A j \in 1..(Len(s) - 1) : (a \o b)[j] = IF j < i THEN s[j] ELSE s[j + 1]
  BY <1>1, <1>2, <1>4
<1>6. a \o b \in Seq(S) /\ Len(a \o b) = Len(s) - 1
  BY <1>1, <1>2, <1>4
<1> QED BY <1>3, <1>5, <1>6

\* What a sequence leaves depends on who has yet to pass, and with what.
LEMMA WillSame ==
    ASSUME NEW s, NEW t, NEW n \in Nat, NEW S, NEW v, NEW there \in BOOLEAN,
           \A j \in 1..n : /\ Unsaved(t[j], S) <=> Unsaved(s[j], S)
                           /\ Unsaved(s[j], S) => t[j].hours = s[j].hours,
           Will(s, n, S, v, there)
    PROVE  Will(t, n, S, v, there)
<1>1. CASE \E k \in 1..n : /\ Unsaved(s[k], S) /\ s[k].hours = v
                           /\ \A j \in (k + 1)..n : ~Unsaved(s[j], S)
  <2>1. PICK k \in 1..n : /\ Unsaved(s[k], S) /\ s[k].hours = v
                          /\ \A j \in (k + 1)..n : ~Unsaved(s[j], S)
    BY <1>1
  <2>2. \A j \in (k + 1)..n : ~Unsaved(t[j], S)
    BY <2>1
  <2> QED BY <2>1, <2>2 DEF Will
<1>2. CASE there /\ \A j \in 1..n : ~Unsaved(s[j], S)
  BY <1>2 DEF Will
<1> QED BY <1>1, <1>2 DEF Will

\* A save that joins brings its hours; another call brings nothing.
LEMMA WillJoin ==
    ASSUME NEW s, NEW t, NEW n \in Nat, NEW S, NEW v, NEW there \in BOOLEAN,
           \A j \in 1..n : t[j] = s[j]
    PROVE  /\ Unsaved(t[n + 1], S) /\ t[n + 1].hours = v => Will(t, n + 1, S, v, there)
           /\ ~Unsaved(t[n + 1], S) /\ Will(s, n, S, v, there) => Will(t, n + 1, S, v, there)
<1>1. CASE Unsaved(t[n + 1], S) /\ t[n + 1].hours = v
  <2>1. n + 1 \in 1..(n + 1) /\ \A j \in (n + 1 + 1)..(n + 1) : ~Unsaved(t[j], S)
    OBVIOUS
  <2> QED BY <1>1, <2>1 DEF Will
<1>2. CASE ~Unsaved(t[n + 1], S) /\ Will(s, n, S, v, there)
  <2>1. CASE \E k \in 1..n : /\ Unsaved(s[k], S) /\ s[k].hours = v
                             /\ \A j \in (k + 1)..n : ~Unsaved(s[j], S)
    <3>1. PICK k \in 1..n : /\ Unsaved(s[k], S) /\ s[k].hours = v
                            /\ \A j \in (k + 1)..n : ~Unsaved(s[j], S)
      BY <2>1
    <3>2. k \in 1..(n + 1) /\ Unsaved(t[k], S) /\ t[k].hours = v
      BY <3>1
    <3>3. ASSUME NEW j \in (k + 1)..(n + 1) PROVE ~Unsaved(t[j], S)
      BY <3>1, <1>2
    <3> QED BY <3>2, <3>3 DEF Will
  <2>2. CASE there /\ \A j \in 1..n : ~Unsaved(s[j], S)
    <3>1. ASSUME NEW j \in 1..(n + 1) PROVE ~Unsaved(t[j], S)
      BY <1>2, <2>2
    <3> QED BY <3>1, <2>2 DEF Will
  <2> QED BY <1>2, <2>1, <2>2 DEF Will
<1> QED BY <1>1, <1>2

\* A call that has nothing to bring leaves.
LEMMA WillLeave ==
    ASSUME NEW s, NEW t, NEW n \in Nat, NEW S, NEW v, NEW there \in BOOLEAN,
           NEW i \in Nat \ {0}, i > n \/ ~Unsaved(s[i], S),
           NEW m \in Nat, m = (IF i > n THEN n ELSE n - 1),
           \A j \in 1..m : t[j] = IF j < i THEN s[j] ELSE s[j + 1],
           Will(s, n, S, v, there)
    PROVE  Will(t, m, S, v, there)
<1>1. CASE \E k \in 1..n : /\ Unsaved(s[k], S) /\ s[k].hours = v
                           /\ \A j \in (k + 1)..n : ~Unsaved(s[j], S)
  <2>1. PICK k \in 1..n : /\ Unsaved(s[k], S) /\ s[k].hours = v
                          /\ \A j \in (k + 1)..n : ~Unsaved(s[j], S)
    BY <1>1
  <2>2. CASE k < i
    <3>1. k \in 1..m /\ t[k] = s[k]
      BY <2>2
    <3>2. ASSUME NEW j \in (k + 1)..m PROVE ~Unsaved(t[j], S)
      <4>1. t[j] = s[j] \/ (t[j] = s[j + 1] /\ j + 1 \in (k + 1)..n)
        BY <2>1
      <4>2. j \in (k + 1)..n
        BY <2>1
      <4> QED BY <4>1, <4>2, <2>1
    <3> QED BY <3>1, <3>2, <2>1 DEF Will
  <2>3. CASE k > i
    <3>1. k - 1 \in 1..m /\ t[k - 1] = s[k]
      BY <2>3
    <3>2. ASSUME NEW j \in (k - 1 + 1)..m PROVE ~Unsaved(t[j], S)
      <4>1. t[j] = s[j + 1] /\ j + 1 \in (k + 1)..n
        BY <2>1, <2>3
      <4> QED BY <4>1, <2>1
    <3> QED BY <3>1, <3>2, <2>1 DEF Will
  <2>4. k # i
    BY <2>1
  <2> QED BY <2>2, <2>3, <2>4
<1>2. CASE there /\ \A j \in 1..n : ~Unsaved(s[j], S)
  <2>1. ASSUME NEW j \in 1..m PROVE ~Unsaved(t[j], S)
    <3>1. j \in 1..n /\ (j < i \/ j + 1 \in 1..n)
      OBVIOUS
    <3> QED BY <3>1, <1>2
  <2> QED BY <1>2, <2>1 DEF Will
<1> QED BY <1>1, <1>2 DEF Will

\* The first of those that have yet to pass does: its hours are there.
LEMMA WillPass ==
    ASSUME NEW s, NEW t, NEW n \in Nat, NEW S, NEW v, NEW there \in BOOLEAN,
           NEW i \in 1..n, Unsaved(s[i], S), ~Unsaved(t[i], S),
           \A j \in 1..(i - 1) : ~Unsaved(s[j], S),
           \A j \in 1..n : j # i => t[j] = s[j],
           NEW now \in BOOLEAN, s[i].hours = v => now,
           Will(s, n, S, v, there)
    PROVE  Will(t, n, S, v, now)
<1>1. PICK k \in 1..n : /\ Unsaved(s[k], S) /\ s[k].hours = v
                        /\ \A j \in (k + 1)..n : ~Unsaved(s[j], S)
  BY DEF Will
<1>2. CASE k = i
  <2>1. ASSUME NEW j \in 1..n PROVE ~Unsaved(t[j], S)
    BY <1>1, <1>2
  <2> QED BY <1>1, <1>2, <2>1 DEF Will
<1>3. CASE k # i
  <2>1. i < k
    BY <1>1, <1>3
  <2>2. ASSUME NEW j \in (k + 1)..n PROVE ~Unsaved(t[j], S)
    BY <1>1, <2>1
  <2> QED BY <1>1, <1>3, <2>2 DEF Will
<1> QED BY <1>2, <1>3

-----------------------------------------------------------------------------
(* Types.                                                                   *)

\* A call under way, and where its place in the sequence is.
LEMMA CallsShape ==
    ASSUME HoursTyped
    PROVE  /\ calls \in Seq(Call) /\ Len(calls) \in Nat
           /\ DOMAIN calls = 1..Len(calls)
           /\ \A i \in 1..Len(calls) : calls[i] \in Call
           /\ \A i \in 1..Len(calls) :
                 calls[i].op \in {"get", "save"} /\ calls[i].at \in CommandStages
<1>1. calls \in Seq(Call)
  BY DEF HoursTyped, HoursTypeOK
<1>2. Len(calls) \in Nat /\ DOMAIN calls = 1..Len(calls)
  BY <1>1, LenProperties
<1>3. \A i \in 1..Len(calls) : calls[i] \in Call
  BY <1>1, ElementOfSeq
<1> QED BY <1>1, <1>2, <1>3 DEF Call

LEMMA StagesAre == CommandStages = {"sent", "local", "queued", "read"}
  BY DEF CommandStages, Rank

\* What is sent is a call, well formed.
Formed(c) ==
    /\ c \in Call
    /\ IF c.op = "save"
       THEN c.hours \in Hours /\ c.at # "read" /\ (c.at # "sent" => c.hours \notin Refused)
       ELSE c.at \in {"sent", "read"} /\ c.hours \notin Refused
CallsFormed(s) == s \in Seq(Call) /\ \A i \in 1..Len(s) : Formed(s[i])

\* The rest of the state.
OthersTyped ==
    /\ stored \in MaybeHours /\ lite \in MaybeTaken /\ central \in MaybeTaken
    /\ chosen \in MaybeTaken /\ schedule \in MaybeTaken \cup {"off"}
    /\ outbox \in Seq(Taken) /\ replay \in 0..Len(outbox)
    /\ pgUp \in BOOLEAN /\ online \in BOOLEAN /\ ready \in BOOLEAN
    /\ keyring \in BOOLEAN /\ admin \in BOOLEAN
    /\ page \in [Windows -> MaybeHours]
    /\ step \in {"welcome", "hours", "database", "administrator", "loading", "closed"}
    /\ busy \in {"no", "database", "services", "administrators"}
    /\ boot \in {"no", "connect", "sidecar", "sync", "finish", "done"}
    /\ launches \in 0..MaxLaunches /\ choices \in 0..MaxChoices
    /\ odd \subseteq HoursOddities

LEMMA FormedElements ==
    ASSUME NEW s \in Seq(Call)
    PROVE  CallsFormed(s) <=>
              \A i \in 1..Len(s) :
                 IF s[i].op = "save"
                 THEN /\ s[i].hours \in Hours /\ s[i].at # "read"
                      /\ s[i].at # "sent" => s[i].hours \notin Refused
                 ELSE s[i].at \in {"sent", "read"} /\ s[i].hours \notin Refused
  BY ElementOfSeq DEF CallsFormed, Formed

LEMMA TypedParts == HoursTyped <=> OthersTyped /\ CallsFormed(calls)
<1>1. HoursTypeOK <=> OthersTyped /\ calls \in Seq(Call)
  BY DEF HoursTypeOK, OthersTyped
<1> QED BY <1>1, FormedElements DEF HoursTyped, CallsFormed

LEMMA TypedPartsNext == OthersTyped' /\ CallsFormed(calls') => HoursTyped'
<1>1. OthersTyped' /\ calls' \in Seq(Call) => HoursTypeOK'
  BY DEF HoursTypeOK, OthersTyped
<1> QED BY <1>1, FormedElements DEF HoursTyped, CallsFormed

LEMMA SentFormed ==
    ASSUME NEW w \in Windows \cup {"wizard", "migration"}
    PROVE  /\ Formed(Get(w))
           /\ \A h \in Hours : Formed(Save(w, h))
  BY StagesAre, WorkHoursAssumption DEF Formed, Get, Save, Call

LEMMA AppendFormed ==
    ASSUME NEW s, CallsFormed(s), NEW c, Formed(c)
    PROVE  CallsFormed(Append(s, c))
  BY AppendShape, LenProperties DEF CallsFormed, Formed

LEMMA RemoveFormed ==
    ASSUME NEW s, CallsFormed(s), NEW i \in 1..Len(s)
    PROVE  CallsFormed(RemoveAt(s, i))
<1>1. \A j \in 1..(Len(s) - 1) : j \in 1..Len(s) /\ j + 1 \in 1..Len(s)
  BY LenProperties DEF CallsFormed
<1>2. s \in Seq(Call) /\ \A j \in 1..Len(s) : Formed(s[j])
  BY DEF CallsFormed
<1> DEFINE r == RemoveAt(s, i)
<1>3. /\ r \in Seq(Call) /\ Len(r) = Len(s) - 1
      /\ \A j \in 1..(Len(s) - 1) : r[j] = IF j < i THEN s[j] ELSE s[j + 1]
  BY <1>2, RemoveShape
<1> HIDE DEF r
<1>4. \A j \in 1..Len(r) : Formed(r[j])
  BY <1>1, <1>2, <1>3
<1> QED BY <1>3, <1>4 DEF CallsFormed, r

LEMMA ExceptFormed ==
    ASSUME NEW s, CallsFormed(s), NEW i \in 1..Len(s), NEW c, Formed(c)
    PROVE  CallsFormed([s EXCEPT ![i] = c])
  BY ExceptSeq DEF CallsFormed, Formed

LEMMA MountsFormed ==
    ASSUME NEW w \in Windows, Loaded \in Hours
    PROVE  /\ CallsFormed(Mounts(w)) /\ Len(Mounts(w)) = 2
           /\ Mounts(w)[1] = Get(w) /\ Mounts(w)[2] = Save(w, Loaded)
<1>1. Formed(Get(w)) /\ Formed(Save(w, Loaded))
  BY SentFormed
<1> QED BY <1>1 DEF Mounts, CallsFormed, Formed

LEMMA JoinedFormed ==
    ASSUME NEW s, CallsFormed(s), NEW t, CallsFormed(t)
    PROVE  /\ CallsFormed(s \o t)
           /\ Len(s \o t) = Len(s) + Len(t)
           /\ \A j \in 1..(Len(s) + Len(t)) :
                 (s \o t)[j] = IF j <= Len(s) THEN s[j] ELSE t[j - Len(s)]
<1>1. s \in Seq(Call) /\ t \in Seq(Call) /\ Len(s) \in Nat /\ Len(t) \in Nat
  BY LenProperties DEF CallsFormed
<1>2. s \o t \in Seq(Call) /\ Len(s \o t) = Len(s) + Len(t)
  BY <1>1, ConcatProperties
<1>3. \A j \in 1..(Len(s) + Len(t)) : (s \o t)[j] = IF j <= Len(s) THEN s[j] ELSE t[j - Len(s)]
  BY <1>1, ConcatProperties
<1>4. ASSUME NEW j \in 1..(Len(s) + Len(t)) PROVE Formed((s \o t)[j])
  <2>1. CASE j <= Len(s)
    BY <1>1, <1>3, <2>1 DEF CallsFormed
  <2>2. CASE ~(j <= Len(s))
    <3>1. j - Len(s) \in 1..Len(t)
      BY <1>1, <2>2
    <3> QED BY <1>1, <1>3, <2>2, <3>1 DEF CallsFormed
  <2> QED BY <2>1, <2>2
<1> QED BY <1>2, <1>3, <1>4 DEF CallsFormed

LEMMA LoadedType ==
    ASSUME OthersTyped
    PROVE  Loaded \in Hours
  BY WorkHoursAssumption DEF OthersTyped, Loaded, MaybeHours

LEMMA TypedInit == HoursInit => HoursTyped
<1> SUFFICES ASSUME HoursInit PROVE HoursTyped
  OBVIOUS
<1>1. stored \in MaybeHours /\ lite \in MaybeTaken /\ central \in MaybeTaken
  BY DEF HoursInit, MaybeHours, MaybeTaken, Taken
<1>2. ready \in BOOLEAN /\ keyring \in BOOLEAN /\ admin \in BOOLEAN
  BY DEF HoursInit
<1>3. page \in [Windows -> MaybeHours]
  BY DEF HoursInit, MaybeHours
<1>4. outbox \in Seq(Taken) /\ Len(outbox) = 0
  BY DEF HoursInit
<1>7. replay \in 0..Len(outbox) /\ launches \in 0..MaxLaunches /\ choices \in 0..MaxChoices
  BY <1>4, WorkHoursAssumption DEF HoursInit
<1>8. chosen \in MaybeTaken
  BY <1>1, WorkHoursAssumption DEF HoursInit, MaybeHours, MaybeTaken, Taken
<1>5. OthersTyped
  BY <1>1, <1>2, <1>3, <1>4, <1>7, <1>8, WorkHoursAssumption DEF HoursInit, OthersTyped, MaybeTaken
<1>6. CallsFormed(calls)
  BY DEF HoursInit, CallsFormed
<1> QED BY <1>5, <1>6, TypedParts

\* What changes the history, and no more than names it.
LEMMA OddType ==
    ASSUME odd \subseteq HoursOddities, NEW what, IsOdd(what)
    PROVE  odd' \subseteq HoursOddities
  BY WorkHoursAssumption DEF IsOdd

LEMMA TypedStep ==
    ASSUME HoursTyped, [HoursNext]_hoursVars
    PROVE  HoursTyped'
<1> SUFFICES OthersTyped' /\ CallsFormed(calls')
  BY TypedPartsNext
<1>a. OthersTyped /\ CallsFormed(calls)
  BY TypedParts
<1>b. /\ Len(calls) \in Nat /\ DOMAIN calls = 1..Len(calls)
      /\ \A i \in 1..Len(calls) : Formed(calls[i])
  BY CallsShape, <1>a DEF CallsFormed
<1>l. Loaded \in Hours
  BY <1>a, LoadedType
<1>o. Len(outbox) \in Nat
  BY <1>a, LenProperties DEF OthersTyped
<1> USE DEF hoursVars, link, copies, windows, backend, outside, hoursHistory
<1>1. CASE UNCHANGED hoursVars
  BY <1>1, <1>a DEF OthersTyped
<1>2. CASE Launches
  <2>1. CallsFormed(Mounts("splash"))
    BY <1>l, MountsFormed DEF Windows
  <2>2. CallsFormed(Append(Mounts("splash"), Get("migration")))
    BY <2>1, AppendFormed, SentFormed
  <2>3. CallsFormed(calls')
    BY <1>2, <2>1, <2>2 DEF Launches, Loads
  <2>4. step' \in {"welcome", "loading"} /\ ready' \in BOOLEAN
    BY <1>2, <1>a DEF Launches, Loads, OthersTyped
  <2>8. odd' \subseteq HoursOddities
    BY <1>2, <1>a, OddType DEF Launches, OthersTyped
  <2>5. launches' \in 0..MaxLaunches
    BY <1>2, <1>a, WorkHoursAssumption DEF Launches, OthersTyped
  <2>6. page' \in [Windows -> MaybeHours] /\ stored' \in MaybeHours
    BY <1>2, <1>a, <1>l DEF Launches, OthersTyped, MaybeHours
  <2>7. OthersTyped'
    BY <1>2, <1>a, <2>4, <2>5, <2>6, <2>8 DEF Launches, OthersTyped
  <2> QED BY <2>3, <2>7
<1>3. CASE Wizard
  <2>1. CASE DatabaseContinue \/ SetupFails \/ DatabaseIsSet
    <3>2. CASE DatabaseContinue
      BY <3>2, <1>a DEF DatabaseContinue, OthersTyped
    <3>3. CASE SetupFails
      BY <3>3, <1>a DEF SetupFails, OthersTyped
    <3>4. CASE DatabaseIsSet
      BY <3>4, <1>a DEF DatabaseIsSet, OthersTyped
    <3> QED BY <2>1, <3>2, <3>3, <3>4
  <2>6. CASE Turns
    <3>1. step' \in {"welcome", "hours", "database"}
      BY <2>6 DEF Turns
    <3> QED BY <2>6, <3>1, <1>a DEF Turns, OthersTyped
  <2>2. CASE ServicesStart
    BY <2>2, <1>a DEF ServicesStart, Starts, OthersTyped
  <2>3. CASE AdministratorsKnown
    <3>1. CallsFormed(calls')
      BY <2>3, <1>a, AppendFormed, SentFormed DEF AdministratorsKnown, Loads
    <3>2. OthersTyped'
      BY <2>3, <1>a DEF AdministratorsKnown, Loads, OthersTyped
    <3> QED BY <3>1, <3>2
  <2>4. CASE AdministratorCreated
    <3>1. CallsFormed(calls')
      BY <2>4, <1>a, AppendFormed, SentFormed DEF AdministratorCreated, Loads
    <3>2. OthersTyped'
      BY <2>4, <1>a DEF AdministratorCreated, Loads, OthersTyped
    <3> QED BY <3>1, <3>2
  <2>5. ASSUME NEW h \in Hours, HoursContinue(h) PROVE OthersTyped' /\ CallsFormed(calls')
    <3>1. CallsFormed(calls')
      BY <2>5, <1>a, AppendFormed, SentFormed DEF HoursContinue
    <3>2. odd' \subseteq HoursOddities
      BY <2>5, <1>a, OddType DEF HoursContinue, Chooses, OthersTyped
    <3>3. choices' \in 0..MaxChoices /\ chosen' \in MaybeTaken
      BY <2>5, <1>a, WorkHoursAssumption DEF HoursContinue, Chooses, OthersTyped, MaybeTaken, Taken
    <3>4. OthersTyped'
      BY <2>5, <1>a, <3>2, <3>3 DEF HoursContinue, OthersTyped
    <3> QED BY <3>1, <3>4
  <2> QED BY <1>3, <2>1, <2>2, <2>3, <2>4, <2>5, <2>6 DEF Wizard
<1>4. CASE CallWorks
  <2> SUFFICES ASSUME NEW i \in 1..Len(calls),
                      \/ ReadsHours(i) \/ ReadFails(i) \/ Answers(i) \/ Migrates(i)
                      \/ SavesLocal(i) \/ Drops(i) \/ Queues(i) \/ Upserts(i)
               PROVE  OthersTyped' /\ CallsFormed(calls')
    BY <1>4, <1>b DEF CallWorks
  <2>a. Formed(calls[i]) /\ CallsFormed(RemoveAt(calls, i))
    BY <1>a, <1>b, RemoveFormed
  <2>1. CASE ReadsHours(i)
    <3>1. calls' = [calls EXCEPT ![i] = [calls[i] EXCEPT !.hours = lite, !.at = "read"]]
      BY <2>1 DEF ReadsHours
    <3>2. Formed([calls[i] EXCEPT !.hours = lite, !.at = "read"])
      BY <2>1, <2>a, <1>a, StagesAre, WorkHoursAssumption
         DEF ReadsHours, Steps, Stands, Formed, Call, OthersTyped, MaybeTaken, Taken
    <3>3. CallsFormed(calls')
      BY <1>a, <3>1, <3>2, ExceptFormed
    <3>4. OthersTyped'
      BY <2>1, <1>a, OddType DEF ReadsHours, Steps, OthersTyped
    <3> QED BY <3>3, <3>4
  <2>2. CASE Answers(i)
    <3>1. calls[i].hours \in MaybeHours /\ calls[i].by \in Windows
      BY <2>2, <2>a DEF Answers, Wait, Formed, Call, MaybeHours
    <3>2. CASE page[calls[i].by] # None /\ calls[i].hours # None
      <4>1. calls[i].hours \in Hours
        BY <3>1, <3>2 DEF MaybeHours
      <4>2. /\ calls' = Append(RemoveAt(calls, i), Save(calls[i].by, calls[i].hours))
            /\ stored' = calls[i].hours
            /\ page' = [page EXCEPT ![calls[i].by] = calls[i].hours]
        BY <2>2, <3>2 DEF Answers, Keeps
      <4>3. CallsFormed(calls')
        BY <2>a, <3>1, <4>1, <4>2, AppendFormed, SentFormed
      <4>4. OthersTyped'
        BY <2>2, <1>a, <3>1, <4>2 DEF Answers, OthersTyped
      <4> QED BY <4>3, <4>4
    <3>3. CASE ~(page[calls[i].by] # None /\ calls[i].hours # None)
      BY <2>2, <1>a, <2>a, <3>3 DEF Answers, OthersTyped
    <3> QED BY <3>2, <3>3
  <2>3. CASE Migrates(i)
    <3>1. CallsFormed(calls')
      BY <2>3, <2>a, <1>l, AppendFormed, SentFormed DEF Migrates
    <3>2. OthersTyped'
      BY <2>3, <1>a DEF Migrates, OthersTyped
    <3> QED BY <3>1, <3>2
  <2>4. CASE SavesLocal(i)
    <3>1. calls' = [calls EXCEPT ![i] = [calls[i] EXCEPT !.at = "local"]]
      BY <2>4 DEF SavesLocal
    <3>2. Formed([calls[i] EXCEPT !.at = "local"]) /\ calls[i].hours \in Taken
      BY <2>4, <2>a, StagesAre DEF SavesLocal, Steps, Stands, Formed, Call, Taken
    <3>3. CallsFormed(calls')
      BY <1>a, <3>1, <3>2, ExceptFormed
    <3>4. odd' \subseteq HoursOddities
      BY <2>4, <1>a, OddType DEF SavesLocal, Steps, OthersTyped
    <3>5. OthersTyped'
      BY <2>4, <1>a, <3>2, <3>4 DEF SavesLocal, OthersTyped, MaybeTaken
    <3> QED BY <3>3, <3>5
  <2>5. CASE Queues(i)
    <3>1. calls' = [calls EXCEPT ![i] = [calls[i] EXCEPT !.at = "queued"]]
      BY <2>5 DEF Queues
    <3>2. Formed([calls[i] EXCEPT !.at = "queued"]) /\ calls[i].hours \in Taken
      BY <2>5, <2>a, StagesAre DEF Queues, Steps, Stands, Formed, Call, Taken
    <3>3. CallsFormed(calls')
      BY <1>a, <3>1, <3>2, ExceptFormed
    <3>4. odd' \subseteq HoursOddities
      BY <2>5, <1>a, OddType DEF Queues, Steps, OthersTyped
    <3>5. outbox' \in Seq(Taken) /\ Len(outbox') = Len(outbox) + 1
      BY <2>5, <1>a, <3>2, AppendShape DEF Queues, OthersTyped
    <3>6. OthersTyped'
      BY <2>5, <1>a, <1>o, <3>4, <3>5 DEF Queues, OthersTyped
    <3> QED BY <3>3, <3>6
  <2>6. CASE Upserts(i)
    <3>1. CallsFormed(calls')
      BY <2>6, <2>a DEF Upserts, Returns
    <3>2. calls[i].hours \in Taken
      BY <2>6, <2>a DEF Upserts, Steps, Stands, Formed, Taken
    <3>3. odd' \subseteq HoursOddities
      BY <2>6, <1>a, OddType DEF Upserts, Steps, OthersTyped
    <3>4. OthersTyped'
      BY <2>6, <1>a, <3>2, <3>3 DEF Upserts, Returns, OthersTyped, MaybeTaken
    <3> QED BY <3>1, <3>4
  <2>7. CASE ReadFails(i)
    <3>1. calls' = [calls EXCEPT ![i] = [calls[i] EXCEPT !.at = "read"]]
      BY <2>7 DEF ReadFails
    <3>2. Formed([calls[i] EXCEPT !.at = "read"])
      BY <2>7, <2>a, StagesAre DEF ReadFails, Stands, Formed, Call
    <3>3. CallsFormed(calls')
      BY <1>a, <3>1, <3>2, ExceptFormed
    <3>4. OthersTyped'
      BY <2>7, <1>a, OddType DEF ReadFails, OthersTyped
    <3> QED BY <3>3, <3>4
  <2>8. CASE Drops(i)
    <3>1. CallsFormed(calls')
      BY <2>8, <2>a DEF Drops, Returns
    <3>2. odd' \subseteq HoursOddities
      BY <2>8, <1>a, OddType DEF Drops, Steps, OthersTyped
    <3>3. OthersTyped'
      BY <2>8, <1>a, <3>2 DEF Drops, Returns, OthersTyped
    <3> QED BY <3>1, <3>3
  <2> QED BY <2>1, <2>2, <2>3, <2>4, <2>5, <2>6, <2>7, <2>8
<1>5. CASE Connects
  BY <1>5, <1>a DEF Connects, OthersTyped
<1>6. CASE SidecarStarts
  <2>1. replay' \in 0..Len(outbox) /\ boot' \in {"finish", "sync"}
    BY <1>6, <1>o DEF SidecarStarts, Syncs
  <2> QED BY <1>6, <1>a, <2>1 DEF SidecarStarts, Starts, OthersTyped
<1>7. CASE Replays
  <2>1. outbox # <<>>
    BY <1>7, <1>a DEF Replays, OthersTyped
  <2> DEFINE head == Head(outbox)
             rest == Tail(outbox)
  <2>2. head \in Taken /\ rest \in Seq(Taken) /\ Len(rest) = Len(outbox) - 1
    BY <2>1, <1>a, HeadTailProperties DEF OthersTyped
  <2>3. odd' \subseteq HoursOddities
    BY <1>7, <1>a, OddType DEF Replays, OthersTyped
  <2>4. CASE pgUp
    <3>1. central' = head /\ outbox' = rest /\ replay' = replay - 1 /\ replay > 0
      BY <1>7, <2>4 DEF Replays
    <3> HIDE DEF head, rest
    <3>2. central' \in MaybeTaken
      BY <2>2, <3>1 DEF MaybeTaken
    <3>3. outbox' \in Seq(Taken)
      BY <2>2, <3>1
    <3>4. replay \in 0..Len(outbox)
      BY <1>a DEF OthersTyped
    <3>5. replay' \in 0..Len(outbox')
      BY <1>o, <2>2, <3>1, <3>4
    <3> QED BY <1>7, <1>a, <2>3, <2>4, <3>2, <3>3, <3>5 DEF Replays, OthersTyped
  <2>5. CASE ~pgUp
    <3>1. 0 \in 0..Len(outbox)
      BY <1>o
    <3> QED BY <1>7, <1>a, <3>1, <2>3, <2>5 DEF Replays, OthersTyped
  <2> QED BY <2>4, <2>5
<1>8. CASE Opens
  <2>1. CallsFormed(calls')
    BY <1>8, <1>a, <1>l, MountsFormed, JoinedFormed DEF Opens, Windows
  <2>2. page' \in [Windows -> MaybeHours]
    BY <1>8, <1>l DEF Opens, Windows, MaybeHours
  <2>3. odd' \subseteq HoursOddities
    BY <1>8, <1>a, OddType DEF Opens, OthersTyped
  <2>4. OthersTyped'
    BY <1>8, <1>a, <1>l, <2>2, <2>3 DEF Opens, OthersTyped, MaybeHours
  <2> QED BY <2>1, <2>4
<1>9. CASE Watches
  BY <1>9, <1>a, <1>o DEF Watches, OthersTyped
<1>10. CASE PgChanges
  BY <1>10, <1>a DEF PgChanges, OthersTyped
<1>11. CASE Ends
  <2>1. CallsFormed(calls')
    BY <1>11 DEF Ends, CallsFormed
  <2>2. page' \in [Windows -> MaybeHours]
    BY <1>11 DEF Ends, MaybeHours
  <2>3. odd' \subseteq HoursOddities
    BY <1>11, <1>a, OddType DEF Ends, OthersTyped
  <2>4. 0 \in 0..Len(outbox)
    BY <1>o
  <2>5. OthersTyped'
    BY <1>11, <1>a, <2>4, <2>2, <2>3 DEF Ends, OthersTyped
  <2> QED BY <2>1, <2>5
<1>12. ASSUME NEW h \in Hours, Edits(h) PROVE OthersTyped' /\ CallsFormed(calls')
  <2>1. CallsFormed(calls')
    BY <1>12, <1>a, AppendFormed, SentFormed DEF Edits, Keeps, Windows
  <2>2. odd' \subseteq HoursOddities
    BY <1>12, <1>a, OddType DEF Edits, Chooses, OthersTyped
  <2>3. choices' \in 0..MaxChoices
    BY <1>12, <1>a, WorkHoursAssumption DEF Edits, Chooses, OthersTyped
  <2>4. /\ page' = [page EXCEPT !["main"] = h] /\ stored' = h
        /\ h \in MaybeHours /\ chosen' \in MaybeTaken
    BY <1>12, <1>a DEF Edits, Chooses, Keeps, MaybeHours, MaybeTaken, Taken, OthersTyped
  <2>5. page' \in [Windows -> MaybeHours]
    BY <2>4, <1>a DEF OthersTyped
  <2>6. OthersTyped'
    BY <1>12, <1>a, <2>2, <2>3, <2>4, <2>5 DEF Edits, OthersTyped
  <2> QED BY <2>1, <2>6
<1> QED BY <1>1, <1>2, <1>3, <1>4, <1>5, <1>6, <1>7, <1>8, <1>9, <1>10, <1>11, <1>12 DEF HoursNext

-----------------------------------------------------------------------------
(* What steps do to the calls and the copies.                               *)

Others == <<stored, lite, central, outbox, page, chosen, odd>>

\* Nothing that the copies depend on moves, apart from the link, the wizard, the
\* schedule and where setup() is.
Rests == UNCHANGED <<calls, Others>>

\* The splash screen sends the question of its migration.
AsksMirror ==
    /\ ~Off
    /\ calls' = Append(calls, Get("migration"))
    /\ UNCHANGED Others

LEMMA StepKinds ==
    ASSUME HoursTyped, OneWindow, Guided, [HoursNext]_hoursVars
    PROVE  \/ Rests \/ AsksMirror
           \/ Launches \/ Replays \/ Opens \/ Ends
           \/ \E h \in Hours : HoursContinue(h) \/ Edits(h)
           \/ \E i \in 1..Len(calls) :
                 \/ ReadsHours(i) \/ ReadFails(i) \/ Answers(i) \/ Migrates(i)
                 \/ SavesLocal(i) \/ Drops(i) \/ Queues(i) \/ Upserts(i)
<1> USE DEF hoursVars, link, copies, windows, backend, outside, hoursHistory
<1>1. CASE UNCHANGED hoursVars
  BY <1>1 DEF Rests, Others
<1>2. CASE Wizard
  <2>1. CASE Turns \/ DatabaseContinue \/ SetupFails \/ DatabaseIsSet
    BY <2>1 DEF Turns, DatabaseContinue, SetupFails, DatabaseIsSet, Rests, Others
  <2>2. CASE ServicesStart
    BY <2>2 DEF ServicesStart, Rests, Others
  <2>3. CASE AdministratorsKnown
    <3>1. ~Off
      BY <2>3 DEF AdministratorsKnown, OneWindow, Guided
    <3> QED BY <2>3, <3>1 DEF AdministratorsKnown, Loads, Rests, AsksMirror, Others
  <2>4. CASE AdministratorCreated
    <3>1. ~Off
      BY <2>4 DEF AdministratorCreated, OneWindow
    <3> QED BY <2>4, <3>1 DEF AdministratorCreated, Loads, AsksMirror, Others
  <2> QED BY <1>2, <2>1, <2>2, <2>3, <2>4 DEF Wizard
<1>3. CASE CallWorks
  BY <1>3, CallsShape DEF CallWorks
<1>4. CASE Connects \/ SidecarStarts \/ Watches \/ PgChanges
  BY <1>4 DEF Connects, SidecarStarts, Watches, PgChanges, Rests, Others
<1> QED BY <1>1, <1>2, <1>3, <1>4 DEF HoursNext

LEMMA WindowInit == HoursInit => OneWindow
  BY WorkHoursAssumption DEF HoursInit, OneWindow, Windows

LEMMA WindowStep ==
    ASSUME HoursTyped, OneWindow, Guided, [HoursNext]_hoursVars
    PROVE  OneWindow'
<1>a. OthersTyped /\ Loaded \in Hours /\ None \notin Hours
  BY TypedParts, LoadedType, WorkHoursAssumption
<1>b. page \in [Windows -> MaybeHours] /\ Windows = {"splash", "main"}
  BY <1>a DEF OthersTyped, Windows
<1>c. Off <=> page["splash"] = None /\ page["main"] = None
  BY <1>b DEF Off
<1>d. \A i \in 1..Len(calls) : calls # <<>>
  BY CallsShape, EmptySeq
<1> USE DEF hoursVars, link, copies, windows, backend, outside, hoursHistory
<1>1. CASE UNCHANGED hoursVars
  BY <1>1 DEF OneWindow, Off
<1>2. CASE Launches
  <2>1. page' = [page EXCEPT !["splash"] = Loaded] /\ stored' = Loaded /\ page["main"] = None
    BY <1>2, <1>c DEF Launches
  <2>2. page'["splash"] = Loaded /\ page'["main"] = None /\ page'["splash"] # None
    BY <2>1, <1>a, <1>b
  <2> QED BY <2>1, <2>2, <1>b DEF OneWindow, Off
<1>3. CASE Wizard
  <2>1. step # "closed"
    BY <1>3 DEF Wizard, Turns, DatabaseContinue, SetupFails, DatabaseIsSet,
                ServicesStart, AdministratorsKnown, AdministratorCreated, HoursContinue, Guided
  <2>2. UNCHANGED <<page, stored>>
    BY <1>3 DEF Wizard, Turns, DatabaseContinue, SetupFails, DatabaseIsSet,
                ServicesStart, AdministratorsKnown, AdministratorCreated, HoursContinue
  <2> QED BY <2>1, <2>2 DEF OneWindow, Off
<1>4. CASE CallWorks
  <2>1. PICK i \in 1..Len(calls) :
              \/ ReadsHours(i) \/ ReadFails(i) \/ Answers(i) \/ Migrates(i)
              \/ SavesLocal(i) \/ Drops(i) \/ Queues(i) \/ Upserts(i)
    BY <1>4, CallsShape DEF CallWorks
  <2>2. ~Off
    BY <2>1, <1>d DEF OneWindow
  <2>3. CASE Answers(i) /\ page[calls[i].by] # None /\ calls[i].hours # None
    <3>1. /\ page' = [page EXCEPT ![calls[i].by] = calls[i].hours] /\ stored' = calls[i].hours
          /\ calls[i].by \in Windows
      BY <2>3 DEF Answers, Keeps, Wait
    <3>2. \A w \in Windows : page'[w] = IF w = calls[i].by THEN calls[i].hours ELSE page[w]
      BY <3>1, <1>b
    <3>3. \A w \in Windows : w # calls[i].by => page[w] = None
      BY <2>3, <3>1, <1>b DEF OneWindow
    <3> QED BY <2>3, <3>1, <3>2, <3>3, <1>b DEF OneWindow, Off
  <2>4. CASE ~(Answers(i) /\ page[calls[i].by] # None /\ calls[i].hours # None)
    <3>1. UNCHANGED <<page, stored>>
      BY <2>1, <2>4 DEF ReadsHours, ReadFails, Answers, Migrates, SavesLocal, Drops, Queues, Upserts
    <3> QED BY <2>2, <3>1 DEF OneWindow, Off
  <2> QED BY <2>3, <2>4
<1>5. CASE Connects \/ SidecarStarts \/ Replays \/ Watches \/ PgChanges
  <2>1. UNCHANGED <<page, stored, calls, step>>
    BY <1>5 DEF Connects, SidecarStarts, Replays, Watches, PgChanges
  <2>2. boot = "no" => boot' = "no"
    BY <1>5 DEF Connects, SidecarStarts, Replays, Watches, PgChanges
  <2> QED BY <2>1, <2>2 DEF OneWindow, Off
<1>6. CASE Opens
  <2>1. page' = [splash |-> None, main |-> Loaded] /\ stored' = Loaded
    BY <1>6 DEF Opens
  <2>2. page'["splash"] = None /\ page'["main"] = Loaded /\ page'["main"] # None
    BY <2>1, <1>a
  <2> QED BY <2>1, <2>2, <1>b DEF OneWindow, Off
<1>7. CASE Ends
  <2>1. page' = [w \in Windows |-> None] /\ calls' = <<>> /\ boot' = "no" /\ step' = "closed"
    BY <1>7 DEF Ends
  <2> QED BY <2>1, <1>b DEF OneWindow, Off
<1>8. ASSUME NEW h \in Hours, Edits(h) PROVE OneWindow'
  <2>1. page' = [page EXCEPT !["main"] = h] /\ stored' = h /\ page["main"] # None
    BY <1>8 DEF Edits, Keeps
  <2>2. page'["splash"] = None /\ page'["main"] = h /\ page'["main"] # None
    BY <2>1, <1>a, <1>b DEF OneWindow
  <2> QED BY <2>1, <2>2, <1>b DEF OneWindow, Off
<1> QED BY <1>1, <1>2, <1>3, <1>4, <1>5, <1>6, <1>7, <1>8 DEF HoursNext

LEMMA GuidedInit == HoursInit => Guided
<1> SUFFICES ASSUME HoursInit PROVE Guided
  OBVIOUS
<1>1. Len(calls) = 0 /\ ~InMain
  BY DEF HoursInit, InMain, Windows
<1> QED BY <1>1 DEF HoursInit, Guided, NoneBy, OneBy

\* Calls of others leave those of b as they are; one of its own is one where there was none.
LEMMA ByAppend ==
    ASSUME NEW s \in Seq(Call), NEW c \in Call, NEW b
    PROVE  /\ c.by # b => (NoneBy(s, b) => NoneBy(Append(s, c), b))
                                    /\ (OneBy(s, b) => OneBy(Append(s, c), b))
           /\ NoneBy(s, b) => OneBy(Append(s, c), b)
<1>1. /\ Len(s) \in Nat /\ Len(Append(s, c)) = Len(s) + 1 /\ Append(s, c)[Len(s) + 1] = c
      /\ \A j \in 1..Len(s) : Append(s, c)[j] = s[j]
  BY AppendShape, LenProperties
<1>2. \A j \in 1..Len(Append(s, c)) : j \in 1..Len(s) \/ j = Len(s) + 1
  BY <1>1
<1> QED BY <1>1, <1>2 DEF NoneBy, OneBy

LEMMA ByExcept ==
    ASSUME NEW s \in Seq(Call), NEW i \in 1..Len(s), NEW c \in Call, c.by = s[i].by, NEW b
    PROVE  /\ NoneBy(s, b) => NoneBy([s EXCEPT ![i] = c], b)
           /\ OneBy(s, b) => OneBy([s EXCEPT ![i] = c], b)
<1>1. Len([s EXCEPT ![i] = c]) = Len(s) /\ \A j \in 1..Len(s) : [s EXCEPT ![i] = c][j].by = s[j].by
  BY ExceptSeq
<1> QED BY <1>1 DEF NoneBy, OneBy

LEMMA ByRemove ==
    ASSUME NEW s \in Seq(Call), NEW i \in 1..Len(s), NEW b, OneBy(s, b)
    PROVE  /\ NoneBy(s, b) \/ s[i].by = b => NoneBy(RemoveAt(s, i), b)
           /\ OneBy(RemoveAt(s, i), b)
<1> DEFINE t == RemoveAt(s, i)
<1>1. /\ Len(s) \in Nat /\ Len(t) = Len(s) - 1
      /\ \A j \in 1..(Len(s) - 1) : t[j] = IF j < i THEN s[j] ELSE s[j + 1]
  BY RemoveShape, LenProperties
<1> HIDE DEF t
<1>2. ASSUME NEW j \in 1..Len(t)
      PROVE  /\ j \in Int /\ j \in 1..Len(s) /\ j + 1 \in 1..Len(s)
             /\ j < i => t[j] = s[j]
             /\ j >= i => t[j] = s[j + 1]
  BY <1>1
<1>3. ASSUME NEW j \in 1..Len(t), NEW k \in 1..Len(t), t[j].by = b, t[k].by = b
      PROVE  j = k
  <2>1. CASE j < i /\ k < i
    BY <1>2, <1>3, <2>1 DEF OneBy
  <2>2. CASE j < i /\ k >= i
    <3>1. j = k + 1
      BY <1>2, <1>3, <2>2 DEF OneBy
    <3> QED BY <1>2, <2>2, <3>1
  <2>3. CASE j >= i /\ k < i
    <3>1. j + 1 = k
      BY <1>2, <1>3, <2>3 DEF OneBy
    <3> QED BY <1>2, <2>3, <3>1
  <2>4. CASE j >= i /\ k >= i
    <3>1. j + 1 = k + 1
      BY <1>2, <1>3, <2>4 DEF OneBy
    <3> QED BY <1>2, <3>1
  <2> QED BY <1>2, <2>1, <2>2, <2>3, <2>4
<1>4. ASSUME NoneBy(s, b), NEW j \in 1..Len(t) PROVE t[j].by # b
  <2>1. j < i \/ j >= i
    BY <1>2
  <2> QED BY <1>2, <1>4, <2>1 DEF NoneBy
<1>5. ASSUME s[i].by = b, NEW j \in 1..Len(t) PROVE t[j].by # b
  <2>1. j < i /\ t[j].by = b => j = i
    BY <1>2, <1>5 DEF OneBy
  <2>2. j >= i /\ t[j].by = b => j + 1 = i
    BY <1>2, <1>5 DEF OneBy
  <2> QED BY <1>2, <2>1, <2>2
<1> QED BY <1>3, <1>4, <1>5 DEF NoneBy, OneBy, t

LEMMA ByMounts ==
    ASSUME NEW w \in Windows, NEW b, b # w, Loaded \in Hours, NEW s, CallsFormed(s)
    PROVE  /\ NoneBy(Mounts(w), b)
           /\ NoneBy(s, b) => NoneBy(s \o Mounts(w), b)
<1>1. Get(w).by # b /\ Save(w, Loaded).by # b
  BY DEF Get, Save, Windows
<1>2. NoneBy(Mounts(w), b)
  BY <1>1, MountsFormed DEF NoneBy
<1>3. ASSUME NoneBy(s, b) PROVE NoneBy(s \o Mounts(w), b)
  <2>1. Len(s) \in Nat /\ CallsFormed(Mounts(w)) /\ Len(Mounts(w)) = 2
    BY MountsFormed, LenProperties DEF CallsFormed
  <2>5. Len(s) + Len(Mounts(w)) = Len(s) + 2
    BY <2>1
  <2>2. Len(s \o Mounts(w)) = Len(s) + 2
        /\ \A j \in 1..(Len(s) + 2) :
              (s \o Mounts(w))[j] = IF j <= Len(s) THEN s[j] ELSE Mounts(w)[j - Len(s)]
    BY <2>1, <2>5, JoinedFormed
  <2>3. \A j \in 1..(Len(s) + 2) : j <= Len(s) => j \in 1..Len(s)
    BY <2>1
  <2>4. \A j \in 1..(Len(s) + 2) : ~(j <= Len(s)) => j - Len(s) \in 1..2
    BY <2>1
  <2> QED BY <1>2, <1>3, <2>1, <2>2, <2>3, <2>4 DEF NoneBy
<1> QED BY <1>2, <1>3

LEMMA GuidedStep ==
    ASSUME HoursTyped, OneWindow, Guided, [HoursNext]_hoursVars
    PROVE  Guided'
<1>a. OthersTyped /\ CallsFormed(calls) /\ Loaded \in Hours /\ None \notin Hours
  BY TypedParts, LoadedType, WorkHoursAssumption
<1>b. page \in [Windows -> MaybeHours] /\ Windows = {"splash", "main"}
  BY <1>a DEF OthersTyped, Windows
<1>c. /\ calls \in Seq(Call) /\ OneBy(calls, "migration")
      /\ NoneBy(calls, "main") => OneBy(calls, "main")
  BY CallsShape DEF Guided, NoneBy, OneBy
<1>d. \A w, h : Get(w).by = w /\ Save(w, h).by = w
  BY DEF Get, Save
<1>e. Get("migration") \in Call
  BY SentFormed DEF Formed
<1>f. \A w \in Windows \cup {"wizard"}, h \in Hours : Save(w, h) \in Call /\ w # "migration"
  BY SentFormed DEF Formed, Windows
<1> USE DEF hoursVars, link, copies, windows, backend, outside, hoursHistory
<1>1. CASE UNCHANGED hoursVars
  BY <1>1 DEF Guided, InMain
<1>2. CASE Launches
  <2>1. boot' = "no" /\ busy' = "no" /\ page'["main"] = None
    BY <1>2, <1>b DEF Launches, Off, OneWindow, Guided
  <2>2. /\ NoneBy(Mounts("splash"), "migration") /\ NoneBy(Mounts("splash"), "main")
        /\ Mounts("splash") \in Seq(Call)
    BY <1>a, <1>b, ByMounts, MountsFormed DEF CallsFormed
  <2>3. CASE ~ready
    <3>1. calls' = Mounts("splash")
      BY <1>2, <2>3 DEF Launches
    <3> QED BY <2>1, <2>2, <3>1 DEF Guided, InMain, NoneBy, OneBy
  <2>4. CASE ready
    <3>1. calls' = Append(Mounts("splash"), Get("migration")) /\ step' = "loading"
      BY <1>2, <2>4 DEF Launches, Loads
    <3>2. OneBy(calls', "migration") /\ NoneBy(calls', "main")
      BY <2>2, <3>1, <1>d, <1>e, ByAppend
    <3> QED BY <2>1, <3>1, <3>2 DEF Guided, InMain
  <2> QED BY <2>3, <2>4
<1>3. CASE Wizard
  <2>1. UNCHANGED <<page, boot>>
    BY <1>3 DEF Wizard, Turns, DatabaseContinue, SetupFails, DatabaseIsSet,
                ServicesStart, AdministratorsKnown, AdministratorCreated, HoursContinue
  <2>2. step \notin {"loading", "closed"}
    BY <1>3 DEF Wizard, Turns, DatabaseContinue, SetupFails, DatabaseIsSet,
                ServicesStart, AdministratorsKnown, AdministratorCreated, HoursContinue, Guided
  <2>3. boot' = "no" /\ ~InMain' /\ NoneBy(calls, "migration") /\ NoneBy(calls, "main")
    BY <2>1, <2>2 DEF Guided, InMain
  <2>4. CASE Turns \/ DatabaseContinue \/ SetupFails \/ DatabaseIsSet \/ ServicesStart
    <3>1. UNCHANGED calls
      BY <2>4 DEF Turns, DatabaseContinue, SetupFails, DatabaseIsSet, ServicesStart
    <3>2. busy' # "no" => step' = "database"
      BY <2>4 DEF Turns, DatabaseContinue, SetupFails, DatabaseIsSet, ServicesStart, Guided
    <3> QED BY <2>3, <3>1, <3>2, <1>c DEF Guided
  <2>5. CASE AdministratorsKnown
    <3>1. busy' = "no"
      BY <2>5 DEF AdministratorsKnown
    <3>2. CASE ~admin
      BY <2>3, <2>5, <3>1, <3>2, <1>c DEF AdministratorsKnown, Guided
    <3>3. CASE admin
      <4>1. OneBy(calls', "migration") /\ NoneBy(calls', "main") /\ step' = "loading"
        BY <2>3, <2>5, <3>3, <1>c, <1>d, <1>e, ByAppend DEF AdministratorsKnown, Loads
      <4> QED BY <2>3, <3>1, <4>1 DEF Guided
    <3> QED BY <3>2, <3>3
  <2>6. CASE AdministratorCreated
    <3>1. busy' = "no"
      BY <2>6 DEF AdministratorCreated, Guided
    <3>2. OneBy(calls', "migration") /\ NoneBy(calls', "main") /\ step' = "loading"
      BY <2>3, <2>6, <1>c, <1>d, <1>e, ByAppend DEF AdministratorCreated, Loads
    <3> QED BY <2>3, <3>1, <3>2 DEF Guided
  <2>7. ASSUME NEW h \in Hours, HoursContinue(h) PROVE Guided'
    <3>1. NoneBy(calls', "migration") /\ OneBy(calls', "migration") /\ NoneBy(calls', "main")
      BY <2>3, <2>7, <1>c, <1>d, <1>f, ByAppend DEF HoursContinue
    <3>2. UNCHANGED <<busy, step>>
      BY <2>7 DEF HoursContinue
    <3> QED BY <2>3, <3>1, <3>2 DEF Guided
  <2> QED BY <1>3, <2>4, <2>5, <2>6, <2>7 DEF Wizard
<1>4. CASE CallWorks
  <2>1. PICK i \in 1..Len(calls) :
              \/ ReadsHours(i) \/ ReadFails(i) \/ Answers(i) \/ Migrates(i)
              \/ SavesLocal(i) \/ Drops(i) \/ Queues(i) \/ Upserts(i)
    BY <1>4, CallsShape DEF CallWorks
  <2>f. Formed(calls[i])
    BY <1>a DEF CallsFormed
  <2>r. /\ OneBy(RemoveAt(calls, i), "migration") /\ RemoveAt(calls, i) \in Seq(Call)
        /\ NoneBy(calls, "migration") \/ calls[i].by = "migration" => NoneBy(RemoveAt(calls, i), "migration")
        /\ NoneBy(calls, "main") => NoneBy(RemoveAt(calls, i), "main")
    BY <1>c, ByRemove, RemoveShape
  <2>2. CASE ReadsHours(i) \/ ReadFails(i) \/ SavesLocal(i) \/ Queues(i)
    <3>1. PICK c \in Call : calls' = [calls EXCEPT ![i] = c] /\ c.by = calls[i].by
      <4>1. CASE ReadsHours(i)
        <5>1. calls' = [calls EXCEPT ![i] = [calls[i] EXCEPT !.hours = lite, !.at = "read"]]
          BY <4>1 DEF ReadsHours
        <5>2. [calls[i] EXCEPT !.hours = lite, !.at = "read"] \in Call
          BY <2>f, <1>a, StagesAre DEF Formed, Call, OthersTyped, MaybeTaken, Taken
        <5> QED BY <5>1, <5>2, <2>f DEF Formed, Call
      <4>2. ASSUME NEW x \in CommandStages, calls' = [calls EXCEPT ![i].at = x]
            PROVE  \E c \in Call : calls' = [calls EXCEPT ![i] = c] /\ c.by = calls[i].by
        <5>1. calls' = [calls EXCEPT ![i] = [calls[i] EXCEPT !.at = x]]
          BY <4>2
        <5>2. [calls[i] EXCEPT !.at = x] \in Call
          BY <2>f, <4>2 DEF Formed, Call
        <5> QED BY <5>1, <5>2, <2>f DEF Formed, Call
      <4> QED BY <2>2, <4>1, <4>2, StagesAre DEF ReadFails, SavesLocal, Queues
    <3>2. /\ OneBy(calls', "migration") /\ (NoneBy(calls, "migration") => NoneBy(calls', "migration"))
          /\ NoneBy(calls, "main") => NoneBy(calls', "main")
      BY <3>1, <1>c, ByExcept
    <3>3. UNCHANGED <<boot, page, busy, step>>
      BY <2>2 DEF ReadsHours, ReadFails, SavesLocal, Queues
    <3> QED BY <3>2, <3>3 DEF Guided, InMain
  <2>3. CASE Answers(i)
    <3>1. calls[i].by \in Windows /\ calls[i].hours \in MaybeHours
      BY <2>3, <2>f DEF Answers, Wait, Formed, Call, MaybeHours
    <3>2. UNCHANGED <<boot, busy, step>>
      BY <2>3 DEF Answers
    <3>3. CASE page[calls[i].by] # None /\ calls[i].hours # None
      <4>1. /\ calls' = Append(RemoveAt(calls, i), Save(calls[i].by, calls[i].hours))
            /\ page' = [page EXCEPT ![calls[i].by] = calls[i].hours]
        BY <2>3, <3>3 DEF Answers, Keeps
      <4>2. InMain' => InMain
        BY <4>1, <3>1, <3>3, <1>b DEF InMain
      <4>3. calls[i].hours \in Hours
        BY <3>1, <3>3 DEF MaybeHours
      <4>4. OneBy(calls', "migration") /\ (NoneBy(calls, "migration") => NoneBy(calls', "migration"))
        BY <2>r, <3>1, <4>1, <4>3, <1>d, <1>f, ByAppend
      <4>5. InMain' \/ NoneBy(calls', "main")
        <5>1. CASE NoneBy(calls, "main")
          <6>1. calls[i].by # "main"
            BY <5>1 DEF NoneBy
          <6> QED BY <2>r, <3>1, <4>1, <4>3, <5>1, <6>1, <1>d, <1>f, ByAppend
        <5>2. CASE InMain
          BY <4>1, <3>1, <3>3, <4>3, <5>2, <1>a, <1>b DEF InMain
        <5> QED BY <5>1, <5>2 DEF Guided
      <4> QED BY <3>2, <4>2, <4>4, <4>5 DEF Guided
    <3>4. CASE ~(page[calls[i].by] # None /\ calls[i].hours # None)
      BY <2>3, <2>r, <3>2, <3>4 DEF Answers, InMain, Guided
    <3> QED BY <3>3, <3>4
  <2>4. CASE Migrates(i)
    <3>1. UNCHANGED <<page, busy, step>> /\ calls[i].by = "migration"
      BY <2>4 DEF Migrates
    <3>2. boot = "no" /\ step \in {"loading", "closed"} /\ ~InMain /\ NoneBy(calls, "main")
      BY <3>1 DEF Guided, NoneBy
    <3>3. CASE calls[i].hours = None
      <4>1. calls' = Append(RemoveAt(calls, i), Save("migration", Loaded)) /\ boot' = boot
        BY <2>4, <3>3 DEF Migrates
      <4>2. Save("migration", Loaded) \in Call
        BY <1>a, SentFormed DEF Formed
      <4>3. OneBy(calls', "migration") /\ NoneBy(calls', "main")
        BY <2>r, <3>1, <3>2, <4>1, <4>2, <1>d, ByAppend
      <4> QED BY <3>1, <3>2, <4>1, <4>3 DEF Guided, InMain
    <3>4. CASE calls[i].hours # None
      BY <2>4, <2>r, <3>1, <3>2, <3>4 DEF Migrates, Guided, InMain
    <3> QED BY <3>3, <3>4
  <2>5. CASE Upserts(i) \/ Drops(i)
    <3>1. calls' = RemoveAt(calls, i) /\ UNCHANGED <<page, busy>>
      BY <2>5 DEF Upserts, Drops, Returns
    <3>2. step' = step \/ (step \notin {"loading", "closed"} /\ step' = "database")
      BY <2>5 DEF Upserts, Drops, Returns
    <3>3. CASE calls[i].by = "migration"
      <4>1. step' = step /\ step \in {"loading", "closed"} /\ ~InMain
        BY <2>5, <3>3 DEF Upserts, Drops, Returns, Guided, NoneBy
      <4> QED BY <3>1, <3>3, <4>1, <2>r DEF Guided, InMain
    <3>4. CASE calls[i].by # "migration"
      <4>1. boot' = boot
        BY <2>5, <3>4 DEF Upserts, Drops, Returns
      <4> QED BY <3>1, <3>2, <4>1, <2>r DEF Guided, InMain
    <3> QED BY <3>3, <3>4
  <2> QED BY <2>1, <2>2, <2>3, <2>4, <2>5
<1>5. CASE Connects \/ SidecarStarts \/ Replays \/ Watches \/ PgChanges
  <2>1. UNCHANGED <<page, stored, calls, step, busy>>
    BY <1>5 DEF Connects, SidecarStarts, Replays, Watches, PgChanges
  <2>2. boot' = boot \/ boot \in {"connect", "sidecar", "sync"}
    BY <1>5 DEF Connects, SidecarStarts, Replays, Watches, PgChanges
  <2> QED BY <2>1, <2>2 DEF Guided, InMain
<1>6. CASE Opens
  <2>1. NoneBy(calls', "migration")
    BY <1>6, <1>a, <1>b, ByMounts DEF Opens, Guided
  <2>2. step' = "closed" /\ boot' = "done" /\ busy' = "no" /\ InMain'
    BY <1>6, <1>a DEF Opens, InMain, Guided
  <2> QED BY <2>1, <2>2 DEF Guided, NoneBy, OneBy
<1>7. CASE Ends
  <2>1. page' = [w \in Windows |-> None] /\ calls' = <<>> /\ boot' = "no" /\ step' = "closed" /\ busy' = "no"
    BY <1>7 DEF Ends
  <2>2. ~InMain' /\ Len(calls') = 0
    BY <2>1, <1>b DEF InMain
  <2> QED BY <2>1, <2>2 DEF Guided, NoneBy, OneBy
<1>8. ASSUME NEW h \in Hours, Edits(h) PROVE Guided'
  <2>1. /\ calls' = Append(calls, Save("main", h)) /\ UNCHANGED <<step, busy, boot>>
        /\ InMain /\ InMain'
    BY <1>8, <1>a, <1>b DEF Edits, Keeps, InMain
  <2>2. OneBy(calls', "migration") /\ (NoneBy(calls, "migration") => NoneBy(calls', "migration"))
    BY <2>1, <1>b, <1>c, <1>d, <1>f, ByAppend
  <2> QED BY <2>1, <2>2 DEF Guided
<1> QED BY <1>1, <1>2, <1>3, <1>4, <1>5, <1>6, <1>7, <1>8 DEF HoursNext

-----------------------------------------------------------------------------
(* What a call that joins, goes on or leaves does to the order.             *)

\* Where the calls of the three results of a step are.
LEMMA Appended ==
    ASSUME NEW s \in Seq(Call), NEW c \in Call
    PROVE  /\ Append(s, c) \in Seq(Call) /\ Len(s) \in Nat /\ Len(Append(s, c)) = Len(s) + 1
           /\ Append(s, c)[Len(s) + 1] = c
           /\ \A j \in 1..Len(s) : Append(s, c)[j] = s[j]
           /\ \A j \in 1..(Len(s) + 1) : j \in 1..Len(s) \/ j = Len(s) + 1
  BY AppendShape, LenProperties

LEMMA Changed ==
    ASSUME NEW s \in Seq(Call), NEW i \in 1..Len(s), NEW c \in Call
    PROVE  /\ [s EXCEPT ![i] = c] \in Seq(Call) /\ Len(s) \in Nat
           /\ Len([s EXCEPT ![i] = c]) = Len(s)
           /\ \A j \in 1..Len(s) : [s EXCEPT ![i] = c][j] = IF j = i THEN c ELSE s[j]
  BY ExceptSeq, LenProperties

\* The place in s of call j of what is left.
Was(i, j) == IF j < i THEN j ELSE j + 1

LEMMA Removed ==
    ASSUME NEW s \in Seq(Call), NEW i \in 1..Len(s)
    PROVE  /\ RemoveAt(s, i) \in Seq(Call) /\ Len(s) \in Nat
           /\ Len(RemoveAt(s, i)) \in Nat /\ Len(RemoveAt(s, i)) = Len(s) - 1
           /\ \A j \in 1..Len(RemoveAt(s, i)) :
                 /\ Was(i, j) \in 1..Len(s) /\ Was(i, j) # i
                 /\ RemoveAt(s, i)[j] = s[Was(i, j)]
           /\ \A j, k \in 1..Len(RemoveAt(s, i)) : j < k => Was(i, j) < Was(i, k)
           /\ \A k \in 1..Len(s) : k # i =>
                 \E j \in 1..Len(RemoveAt(s, i)) : Was(i, j) = k
<1> DEFINE t == RemoveAt(s, i)
<1>1. /\ t \in Seq(Call) /\ Len(s) \in Nat /\ Len(t) = Len(s) - 1
      /\ \A j \in 1..(Len(s) - 1) : t[j] = IF j < i THEN s[j] ELSE s[j + 1]
  BY RemoveShape, LenProperties
<1> HIDE DEF t
<1>2. \A k \in 1..Len(s) : k < i => k \in 1..Len(t) /\ Was(i, k) = k
  BY <1>1 DEF Was
<1>3. \A k \in 1..Len(s) : k > i => k - 1 \in 1..Len(t) /\ Was(i, k - 1) = k
  BY <1>1 DEF Was
<1>4. \A k \in 1..Len(s) : k # i => \E j \in 1..Len(t) : Was(i, j) = k
  BY <1>2, <1>3
<1>5. \A j, k \in 1..Len(t) : j < k => Was(i, j) < Was(i, k)
  BY <1>1 DEF Was
<1>6. \A j \in 1..Len(t) : Was(i, j) \in 1..Len(s) /\ Was(i, j) # i
  <2>1. Len(s) \in Nat /\ Len(t) = Len(s) - 1
    BY <1>1
  <2> QED BY <2>1 DEF Was
<1>7. ASSUME NEW j \in 1..Len(t) PROVE t[j] = s[Was(i, j)]
  <2>1. t[j] = IF j < i THEN s[j] ELSE s[j + 1]
    BY <1>1
  <2> QED BY <2>1 DEF Was
<1>8. Len(t) \in Nat /\ i \in 1..Len(s)
  BY <1>1
<1>9. \A j \in 1..Len(t) : Was(i, j) \in 1..Len(s) /\ Was(i, j) # i /\ t[j] = s[Was(i, j)]
  BY <1>6, <1>7, Zenon
<1>10. /\ t \in Seq(Call) /\ Len(s) \in Nat
       /\ Len(t) \in Nat /\ Len(t) = Len(s) - 1
  BY <1>1, <1>8, Zenon
<1> QED BY <1>4, <1>5, <1>9, <1>10, Zenon DEF t

LEMMA WillAppend ==
    ASSUME NEW s \in Seq(Call), NEW c \in Call, NEW S, NEW v, NEW there \in BOOLEAN
    PROVE  /\ Unsaved(c, S) /\ c.hours = v => Will(Append(s, c), Len(s) + 1, S, v, there)
           /\ ~Unsaved(c, S) /\ Will(s, Len(s), S, v, there) => Will(Append(s, c), Len(s) + 1, S, v, there)
           /\ \A n \in 1..Len(s) : Will(s, n, S, v, there) => Will(Append(s, c), n, S, v, there)
<1>1. /\ Len(s) \in Nat /\ Append(s, c)[Len(s) + 1] = c
      /\ \A j \in 1..Len(s) : Append(s, c)[j] = s[j]
  BY Appended
<1> DEFINE t == Append(s, c)
<1>2. ASSUME NEW n \in 1..Len(s), Will(s, n, S, v, there) PROVE Will(t, n, S, v, there)
  <2>1. n \in Nat /\ \A j \in 1..n : t[j] = s[j]
    BY <1>1
  <2> HIDE DEF t
  <2>2. \A j \in 1..n : /\ Unsaved(t[j], S) <=> Unsaved(s[j], S)
                        /\ Unsaved(s[j], S) => t[j].hours = s[j].hours
    BY <2>1
  <2> QED BY <1>2, <2>1, <2>2, WillSame
<1>3. /\ Unsaved(c, S) /\ c.hours = v => Will(Append(s, c), Len(s) + 1, S, v, there)
      /\ ~Unsaved(c, S) /\ Will(s, Len(s), S, v, there) => Will(Append(s, c), Len(s) + 1, S, v, there)
  BY <1>1, WillJoin
<1> QED BY <1>2, <1>3

LEMMA WillRemove ==
    ASSUME NEW s \in Seq(Call), NEW i \in 1..Len(s), NEW S, ~Unsaved(s[i], S),
           NEW v, NEW there \in BOOLEAN
    PROVE  /\ Will(s, Len(s), S, v, there) => Will(RemoveAt(s, i), Len(s) - 1, S, v, there)
           /\ \A j \in 1..(Len(s) - 1) :
                 Will(s, Was(i, j), S, v, there) => Will(RemoveAt(s, i), j, S, v, there)
<1> DEFINE t == RemoveAt(s, i)
<1>1. /\ Len(s) \in Nat
      /\ \A j \in 1..(Len(s) - 1) : t[j] = IF j < i THEN s[j] ELSE s[j + 1]
  BY RemoveShape, LenProperties
<1> HIDE DEF t
<1>2. ASSUME Will(s, Len(s), S, v, there) PROVE Will(t, Len(s) - 1, S, v, there)
  <2> DEFINE m == Len(s) - 1
  <2>1. i \in Nat \ {0} /\ m \in Nat /\ m = (IF i > Len(s) THEN Len(s) ELSE Len(s) - 1)
    BY <1>1
  <2>2. i > Len(s) \/ ~Unsaved(s[i], S)
    OBVIOUS
  <2>3. \A j \in 1..m : t[j] = IF j < i THEN s[j] ELSE s[j + 1]
    BY <1>1
  <2> HIDE DEF m
  <2>4. Will(t, m, S, v, there)
    BY <1>2, <2>1, <2>2, <2>3, WillLeave
  <2> QED BY <2>4 DEF m
<1>3. ASSUME NEW j \in 1..(Len(s) - 1), Will(s, Was(i, j), S, v, there) PROVE Will(t, j, S, v, there)
  <2>1. /\ i \in Nat \ {0} /\ j \in Nat /\ Was(i, j) \in Nat
        /\ j = (IF i > Was(i, j) THEN Was(i, j) ELSE Was(i, j) - 1)
    BY <1>1 DEF Was
  <2>2. \A k \in 1..j : t[k] = IF k < i THEN s[k] ELSE s[k + 1]
    BY <1>1
  <2>3. i > Was(i, j) \/ ~Unsaved(s[i], S)
    OBVIOUS
  <2> HIDE DEF Was
  <2> QED BY <1>3, <2>1, <2>2, <2>3, WillLeave
<1> QED BY <1>2, <1>3 DEF t

\* A call goes on: those that have to pass S are the same, with the same hours.
LEMMA WillExcept ==
    ASSUME NEW s \in Seq(Call), NEW i \in 1..Len(s), NEW c \in Call, NEW S,
           Unsaved(c, S) <=> Unsaved(s[i], S), Unsaved(c, S) => c.hours = s[i].hours,
           NEW v, NEW there \in BOOLEAN, NEW n \in 0..Len(s), Will(s, n, S, v, there)
    PROVE  Will([s EXCEPT ![i] = c], n, S, v, there)
<1>1. \A j \in 1..Len(s) : [s EXCEPT ![i] = c][j] = IF j = i THEN c ELSE s[j]
  BY Changed
<1>2. n \in Nat /\ \A j \in 1..n : j \in 1..Len(s)
  BY Changed
<1>3. \A j \in 1..n : /\ Unsaved([s EXCEPT ![i] = c][j], S) <=> Unsaved(s[j], S)
                      /\ Unsaved(s[j], S) => [s EXCEPT ![i] = c][j].hours = s[j].hours
  BY <1>1, <1>2
<1> QED BY <1>2, <1>3, WillSame

\* It passes S, before all others, and its hours are there now.
LEMMA WillGo ==
    ASSUME NEW s \in Seq(Call), NEW i \in 1..Len(s), NEW c \in Call, NEW S,
           Unsaved(s[i], S), ~Unsaved(c, S), \A j \in 1..(i - 1) : ~Unsaved(s[j], S),
           NEW v, NEW there \in BOOLEAN, NEW now \in BOOLEAN, s[i].hours = v => now,
           NEW n \in i..Len(s), Will(s, n, S, v, there)
    PROVE  Will([s EXCEPT ![i] = c], n, S, v, now)
<1> DEFINE t == [s EXCEPT ![i] = c]
<1>1. \A j \in 1..Len(s) : t[j] = IF j = i THEN c ELSE s[j]
  BY Changed
<1>2. n \in Nat /\ i \in 1..n /\ \A j \in 1..n : j \in 1..Len(s)
  BY Changed
<1> HIDE DEF t
<1>3. ~Unsaved(t[i], S) /\ \A j \in 1..n : j # i => t[j] = s[j]
  BY <1>1, <1>2
<1>4. Will(t, n, S, v, now)
  BY <1>2, <1>3, WillPass
<1> QED BY <1>4 DEF t

LEMMA LineAppend ==
    ASSUME NEW s \in Seq(Call), NEW c \in Call, c.at = "sent", InLine(s)
    PROVE  InLine(Append(s, c))
  BY Appended DEF InLine

LEMMA LineRemove ==
    ASSUME NEW s \in Seq(Call), NEW i \in 1..Len(s), InLine(s)
    PROVE  InLine(RemoveAt(s, i))
<1> DEFINE t == RemoveAt(s, i)
<1>1. /\ \A j \in 1..Len(t) : Was(i, j) \in 1..Len(s) /\ t[j] = s[Was(i, j)]
      /\ \A j, k \in 1..Len(t) : j < k => Was(i, j) < Was(i, k)
  BY Removed
<1> HIDE DEF t
<1>2. ASSUME NEW k \in 1..Len(t), NEW j \in 1..Len(t), j < k
      PROVE  /\ t[j].at = "sent" => t[k].at = "sent"
             /\ Unsaved(t[j], {"local"}) /\ t[k].op = "save" => t[k].at \in {"sent", "local"}
  <2>1. /\ Was(i, j) \in 1..Len(s) /\ Was(i, k) \in 1..Len(s) /\ Was(i, j) < Was(i, k)
        /\ t[j] = s[Was(i, j)] /\ t[k] = s[Was(i, k)]
    BY <1>1, <1>2
  <2> HIDE DEF Was
  <2> QED BY <2>1 DEF InLine
<1>3. InLine(t)
  BY <1>2 DEF InLine
<1> QED BY <1>3 DEF t

LEMMA RowsAppend ==
    ASSUME NEW s \in Seq(Call), NEW c \in Call, c.at = "sent", NEW rows, RowsWait(s, rows)
    PROVE  RowsWait(Append(s, c), rows)
  BY Appended DEF RowsWait

LEMMA RowsRemove ==
    ASSUME NEW s \in Seq(Call), NEW i \in 1..Len(s), NEW rows, RowsWait(s, rows)
    PROVE  RowsWait(RemoveAt(s, i), rows)
  BY Removed DEF RowsWait

LEMMA FilledAppend ==
    ASSUME NEW s \in Seq(Call), NEW c \in Call, NEW m
    PROVE  /\ \A n \in 1..Len(s) : Filled(s, n, m) => Filled(Append(s, c), n, m)
           /\ Filled(s, Len(s), m) => Filled(Append(s, c), Len(s) + 1, m)
           /\ Unsaved(c, {"sent"}) => Filled(Append(s, c), Len(s) + 1, m)
  BY Appended DEF Filled

LEMMA FilledRemove ==
    ASSUME NEW s \in Seq(Call), NEW i \in 1..Len(s), ~Unsaved(s[i], {"sent"}), NEW m
    PROVE  /\ \A j \in 1..(Len(s) - 1) : Filled(s, Was(i, j), m) => Filled(RemoveAt(s, i), j, m)
           /\ Filled(s, Len(s), m) => Filled(RemoveAt(s, i), Len(s) - 1, m)
<1> DEFINE t == RemoveAt(s, i)
<1>1. /\ Len(s) \in Nat /\ Len(t) = Len(s) - 1
      /\ \A j \in 1..Len(t) : t[j] = s[Was(i, j)]
      /\ \A k \in 1..Len(s) : k # i => \E j \in 1..Len(t) : Was(i, j) = k
  BY Removed
<1> HIDE DEF t
<1>2. ASSUME NEW n \in 1..Len(s), NEW j \in 1..n, Unsaved(s[j], {"sent"})
      PROVE  \E k \in 1..Len(t) : Unsaved(t[k], {"sent"}) /\ Was(i, k) = j
  <2>1. j \in 1..Len(s) /\ j # i
    BY <1>1, <1>2
  <2>2. PICK k \in 1..Len(t) : Was(i, k) = j
    BY <1>1, <2>1
  <2>3. t[k] = s[j]
    BY <1>1, <2>2
  <2> QED BY <1>2, <2>2, <2>3
<1>3. ASSUME NEW j \in 1..(Len(s) - 1), Filled(s, Was(i, j), m) PROVE Filled(t, j, m)
  <2>1. Was(i, j) \in 1..Len(s)
    BY <1>1 DEF Was
  <2>2. ASSUME NEW x \in 1..Was(i, j), Unsaved(s[x], {"sent"})
        PROVE  \E k \in 1..j : Unsaved(t[k], {"sent"})
    <3>1. PICK k \in 1..Len(t) : Unsaved(t[k], {"sent"}) /\ Was(i, k) = x
      BY <1>2, <2>1, <2>2
    <3>2. k \in 1..j
      BY <1>1, <3>1 DEF Was
    <3> QED BY <3>1, <3>2
  <2> QED BY <1>3, <2>2 DEF Filled
<1>4. ASSUME Filled(s, Len(s), m) PROVE Filled(t, Len(s) - 1, m)
  <2>1. ASSUME NEW x \in 1..Len(s), Unsaved(s[x], {"sent"})
        PROVE  \E k \in 1..(Len(s) - 1) : Unsaved(t[k], {"sent"})
    <3>1. Len(s) \in 1..Len(s)
      BY <1>1
    <3> QED BY <1>1, <1>2, <2>1, <3>1
  <2> QED BY <1>4, <2>1 DEF Filled
<1> QED BY <1>3, <1>4 DEF t

LEMMA AsksAppend ==
    ASSUME NEW s \in Seq(Call), NEW c \in Call, NEW m, AsksFilled(s, m),
           \/ c.by # "migration" \/ c.op # "get"
           \/ c.at = "sent" /\ Filled(s, Len(s), m)
    PROVE  AsksFilled(Append(s, c), m)
<1> DEFINE t == Append(s, c)
<1>1. /\ t[Len(s) + 1] = c /\ \A j \in 1..Len(s) : t[j] = s[j]
      /\ \A j \in 1..Len(t) : j \in 1..Len(s) \/ j = Len(s) + 1
  BY Appended
<1>2. /\ \A j \in 1..Len(s) : Filled(s, j, m) => Filled(t, j, m)
      /\ Filled(s, Len(s), m) => Filled(t, Len(s) + 1, m)
  BY FilledAppend
<1> HIDE DEF t
<1>3. ASSUME NEW j \in 1..Len(t), t[j].by = "migration", t[j].op = "get"
      PROVE  IF t[j].at = "sent" THEN Filled(t, j, m) ELSE t[j].hours # None
  <2>1. CASE j \in 1..Len(s)
    BY <1>1, <1>2, <1>3, <2>1 DEF AsksFilled
  <2>2. CASE j = Len(s) + 1
    BY <1>1, <1>2, <1>3, <2>2
  <2> QED BY <1>1, <2>1, <2>2
<1>4. AsksFilled(t, m)
  BY <1>3 DEF AsksFilled
<1> QED BY <1>4 DEF t

LEMMA AsksRemove ==
    ASSUME NEW s \in Seq(Call), NEW i \in 1..Len(s), ~Unsaved(s[i], {"sent"}), NEW m,
           AsksFilled(s, m)
    PROVE  AsksFilled(RemoveAt(s, i), m)
<1> DEFINE t == RemoveAt(s, i)
<1>1. /\ Len(t) = Len(s) - 1 /\ \A j \in 1..Len(t) : Was(i, j) \in 1..Len(s) /\ t[j] = s[Was(i, j)]
      /\ \A j \in 1..(Len(s) - 1) : Filled(s, Was(i, j), m) => Filled(t, j, m)
  <2>1. \A j \in 1..(Len(s) - 1) : Filled(s, Was(i, j), m) => Filled(RemoveAt(s, i), j, m)
    BY FilledRemove
  <2> QED BY <2>1, Removed
<1> HIDE DEF t
<1>2. ASSUME NEW j \in 1..Len(t), t[j].by = "migration", t[j].op = "get"
      PROVE  IF t[j].at = "sent" THEN Filled(t, j, m) ELSE t[j].hours # None
  BY <1>1, <1>2 DEF AsksFilled
<1>3. AsksFilled(t, m)
  BY <1>2 DEF AsksFilled
<1> QED BY <1>3 DEF t

\* The two commands of a window that mounts, one after the other.
LEMMA MountsAre ==
    ASSUME NEW w \in Windows, Loaded \in Hours, NEW s \in Seq(Call)
    PROVE  s \o Mounts(w) = Append(Append(s, Get(w)), Save(w, Loaded))
<1> DEFINE a == Append(s, Get(w))
           b == Append(a, Save(w, Loaded))
<1>1. Get(w) \in Call /\ Save(w, Loaded) \in Call /\ Mounts(w) \in Seq(Call)
  BY SentFormed, MountsFormed DEF Formed, CallsFormed
<1>2. /\ a \in Seq(Call) /\ Len(s) \in Nat /\ Len(a) = Len(s) + 1
      /\ a[Len(s) + 1] = Get(w) /\ \A j \in 1..Len(s) : a[j] = s[j]
  BY <1>1, Appended
<1> HIDE DEF a
<1>3. /\ b \in Seq(Call) /\ Len(b) = Len(s) + 1 + 1
      /\ b[Len(s) + 1 + 1] = Save(w, Loaded) /\ \A j \in 1..(Len(s) + 1) : b[j] = a[j]
  BY <1>1, <1>2, Appended
<1> HIDE DEF b
<1>4. /\ s \o Mounts(w) \in Seq(Call) /\ Len(s \o Mounts(w)) = Len(s) + 2
      /\ \A j \in 1..(Len(s) + 2) :
            (s \o Mounts(w))[j] = IF j <= Len(s) THEN s[j] ELSE Mounts(w)[j - Len(s)]
  <2>1. Len(Mounts(w)) = 2 /\ Len(s) + Len(Mounts(w)) = Len(s) + 2
    BY MountsFormed
  <2>2. /\ s \o Mounts(w) \in Seq(Call) /\ Len(s \o Mounts(w)) = Len(s) + Len(Mounts(w))
        /\ \A j \in 1..(Len(s) + Len(Mounts(w))) :
              (s \o Mounts(w))[j] = IF j <= Len(s) THEN s[j] ELSE Mounts(w)[j - Len(s)]
    BY <1>1, ConcatProperties
  <2> QED BY <2>1, <2>2
<1>5. Mounts(w)[1] = Get(w) /\ Mounts(w)[2] = Save(w, Loaded)
  BY MountsFormed
<1>6. ASSUME NEW j \in 1..(Len(s) + 2) PROVE (s \o Mounts(w))[j] = b[j]
  <2>1. CASE j <= Len(s)
    BY <1>2, <1>3, <1>4, <2>1
  <2>2. CASE j = Len(s) + 1
    BY <1>2, <1>3, <1>4, <1>5, <2>2
  <2>3. CASE j = Len(s) + 2
    BY <1>2, <1>3, <1>4, <1>5, <2>3
  <2>4. j <= Len(s) \/ j = Len(s) + 1 \/ j = Len(s) + 2
    BY <1>2
  <2> QED BY <2>1, <2>2, <2>3, <2>4
<1>7. s \o Mounts(w) = b
  <2>1. Len(s \o Mounts(w)) = Len(b) /\ \A j \in 1..Len(b) : (s \o Mounts(w))[j] = b[j]
    BY <1>2, <1>3, <1>4, <1>6
  <2> QED BY <1>3, <1>4, <2>1, SeqEqual
<1> QED BY <1>7 DEF a, b

LEMMA FirstMounts ==
    ASSUME NEW w \in Windows, Loaded \in Hours
    PROVE  Mounts(w) = Append(Append(<<>>, Get(w)), Save(w, Loaded))
<1>1. <<>> \in Seq(Call) /\ Mounts(w) \in Seq(Call)
  BY MountsFormed DEF CallsFormed
<1>2. <<>> \o Mounts(w) = Mounts(w)
  BY <1>1, ConcatEmptySeq
<1> QED BY <1>1, <1>2, MountsAre

\* What each kind of step does to a sequence of calls.
LEMMA LineJoin ==
    ASSUME NEW s \in Seq(Call), NEW c \in Call, c.at = "sent", NEW rows, Line(s, rows)
    PROVE  Line(Append(s, c), rows)
  BY LineAppend, RowsAppend DEF Line

LEMMA LineQuit ==
    ASSUME NEW s \in Seq(Call), NEW i \in 1..Len(s), NEW rows, Line(s, rows)
    PROVE  Line(RemoveAt(s, i), rows)
  BY LineRemove, RowsRemove DEF Line

LEMMA AsksJoin ==
    ASSUME NEW s \in Seq(Call), NEW c \in Call, c.at = "sent", NEW m
    PROVE  /\ /\ AsksFilled(s, m)
              /\ c.by # "migration" \/ c.op # "get" \/ Filled(s, Len(s), m)
              => AsksFilled(Append(s, c), m)
           /\ Filled(s, Len(s), m) \/ Unsaved(c, {"sent"}) => Filled(Append(s, c), Len(Append(s, c)), m)
<1>1. ASSUME AsksFilled(s, m), c.by # "migration" \/ c.op # "get" \/ Filled(s, Len(s), m)
      PROVE  AsksFilled(Append(s, c), m)
  BY <1>1, AsksAppend
<1>2. Len(Append(s, c)) = Len(s) + 1
  BY Appended
<1>3. Filled(s, Len(s), m) \/ Unsaved(c, {"sent"}) => Filled(Append(s, c), Len(s) + 1, m)
  BY FilledAppend
<1> QED BY <1>1, <1>2, <1>3

LEMMA AsksQuit ==
    ASSUME NEW s \in Seq(Call), NEW i \in 1..Len(s), ~Unsaved(s[i], {"sent"}), NEW m
    PROVE  /\ AsksFilled(s, m) => AsksFilled(RemoveAt(s, i), m)
           /\ Filled(s, Len(s), m) => Filled(RemoveAt(s, i), Len(RemoveAt(s, i)), m)
<1>1. AsksFilled(s, m) => AsksFilled(RemoveAt(s, i), m)
  BY AsksRemove
<1>2. Len(RemoveAt(s, i)) = Len(s) - 1
  BY Removed
<1>3. Filled(s, Len(s), m) => Filled(RemoveAt(s, i), Len(s) - 1, m)
  BY FilledRemove
<1> QED BY <1>1, <1>2, <1>3

LEMMA MendsJoin ==
    ASSUME NEW s \in Seq(Call), NEW c \in Call, c.at = "sent", ~Unsaved(c, {"sent"}),
           NEW m, Mends(s, m)
    PROVE  Mends(Append(s, c), m)
<1> DEFINE t == Append(s, c)
<1>1. /\ t[Len(s) + 1] = c /\ \A j \in 1..Len(s) : t[j] = s[j] /\ j \in 1..Len(t)
      /\ \A j \in 1..Len(t) : j \in 1..Len(s) \/ j = Len(s) + 1
  BY Appended
<1>2. c.op = "save" => c.hours \in Refused
  BY DEF Unsaved
<1> HIDE DEF t
<1>3. Unsent(t)
  BY <1>1, <1>2 DEF Mends, Unsent
<1>4. Waits(t)
  BY <1>1 DEF Mends, Waits
<1>5. Reads(t, m)
  BY <1>1 DEF Mends, Reads
<1> QED BY <1>3, <1>4, <1>5 DEF Mends, t

LEMMA MendsQuit ==
    ASSUME NEW s \in Seq(Call), NEW i \in 1..Len(s), ~(Wait(s[i]) /\ s[i].by = "splash"),
           NEW m, Mends(s, m)
    PROVE  Mends(RemoveAt(s, i), m)
<1> DEFINE t == RemoveAt(s, i)
<1>1. /\ \A j \in 1..Len(t) : Was(i, j) \in 1..Len(s) /\ t[j] = s[Was(i, j)]
      /\ \A k \in 1..Len(s) : k # i => \E j \in 1..Len(t) : Was(i, j) = k
  BY Removed
<1> HIDE DEF t
<1>2. Unsent(t)
  BY <1>1 DEF Mends, Unsent
<1>3. Waits(t)
  <2>1. PICK k \in 1..Len(s) : Wait(s[k]) /\ s[k].by = "splash"
    BY DEF Mends, Waits
  <2>2. PICK j \in 1..Len(t) : Was(i, j) = k
    BY <1>1, <2>1
  <2>3. t[j] = s[k]
    BY <1>1, <2>2
  <2> QED BY <2>1, <2>2, <2>3 DEF Waits
<1>4. Reads(t, m)
  BY <1>1 DEF Mends, Reads
<1> QED BY <1>2, <1>3, <1>4 DEF Mends, t

LEMMA BothStages ==
    ASSUME NEW c
    PROVE  /\ Unsaved(c, {"sent"}) => Unsaved(c, {"sent", "local"})
           /\ Unsaved(c, {"local"}) => Unsaved(c, {"sent", "local"})
           /\ Unsaved(c, {"sent", "local"}) => Unsaved(c, {"sent"}) \/ Unsaved(c, {"local"})
  BY DEF Unsaved

LEMMA ThereIs ==
    ASSUME NEW v, NEW m, NEW rows, NEW pg
    PROVE  (m = v) \in BOOLEAN /\ RowThere(v, rows, pg) \in BOOLEAN
  BY DEF RowThere

LEMMA WordJoin ==
    ASSUME NEW s \in Seq(Call), NEW c \in Call, c.at = "sent",
           NEW v, NEW m, NEW rows, NEW pg
    PROVE  /\ Unsaved(c, {"sent"}) /\ c.hours = v => Word(Append(s, c), v, m, rows, pg)
           /\ ~Unsaved(c, {"sent"}) /\ Word(s, v, m, rows, pg) => Word(Append(s, c), v, m, rows, pg)
<1> DEFINE new == Unsaved(c, {"sent"})
<1>1. Len(Append(s, c)) = Len(s) + 1
  BY Appended
<1>2. (m = v) \in BOOLEAN /\ RowThere(v, rows, pg) \in BOOLEAN
  BY ThereIs
<1>3. ASSUME NEW S, "sent" \in S, NEW there \in BOOLEAN
      PROVE  /\ new /\ c.hours = v => Will(Append(s, c), Len(s) + 1, S, v, there)
             /\ ~new /\ Will(s, Len(s), S, v, there) => Will(Append(s, c), Len(s) + 1, S, v, there)
  <2>1. Unsaved(c, S) <=> new
    BY <1>3 DEF Unsaved
  <2> QED BY <2>1, WillAppend
<1> HIDE DEF new
<1>4. /\ new /\ c.hours = v => LiteWill(Append(s, c), Len(s) + 1, v, m)
      /\ ~new /\ LiteWill(s, Len(s), v, m) => LiteWill(Append(s, c), Len(s) + 1, v, m)
  BY <1>2, <1>3 DEF LiteWill
<1>5. /\ new /\ c.hours = v => RowWill(Append(s, c), v, rows, pg)
      /\ ~new /\ RowWill(s, v, rows, pg) => RowWill(Append(s, c), v, rows, pg)
  BY <1>1, <1>2, <1>3 DEF RowWill
<1>6. /\ new /\ c.hours = v => Word(Append(s, c), v, m, rows, pg)
      /\ ~new /\ Word(s, v, m, rows, pg) => Word(Append(s, c), v, m, rows, pg)
  BY <1>1, <1>4, <1>5 DEF Word
<1> QED BY <1>6 DEF new

LEMMA WordQuit ==
    ASSUME NEW s \in Seq(Call), NEW i \in 1..Len(s), ~Unsaved(s[i], {"sent", "local"}),
           NEW v, NEW m, NEW rows, NEW pg, Word(s, v, m, rows, pg)
    PROVE  Word(RemoveAt(s, i), v, m, rows, pg)
<1>1. Len(RemoveAt(s, i)) = Len(s) - 1
  BY Removed
<1>2. (m = v) \in BOOLEAN /\ RowThere(v, rows, pg) \in BOOLEAN
  BY ThereIs
<1>3. ~Unsaved(s[i], {"sent"})
  BY BothStages
<1>4. LiteWill(RemoveAt(s, i), Len(s) - 1, v, m)
  BY <1>2, <1>3, WillRemove DEF Word, LiteWill
<1>5. RowWill(RemoveAt(s, i), v, rows, pg)
  BY <1>1, <1>2, WillRemove DEF Word, RowWill
<1> QED BY <1>1, <1>4, <1>5 DEF Word

\* What was brought is brought still when another call joins or leaves.
LEMMA BringsJoin ==
    ASSUME NEW s \in Seq(Call), NEW c \in Call, NEW v, NEW m, NEW j \in 1..Len(s),
           Brings(s, j, v, m)
    PROVE  Brings(Append(s, c), j, v, m)
<1>1. Append(s, c)[j] = s[j]
  BY Appended
<1>2. LiteWill(s, j, v, m) => LiteWill(Append(s, c), j, v, m)
  <2>1. (m = v) \in BOOLEAN
    BY ThereIs
  <2> QED BY <2>1, WillAppend DEF LiteWill
<1> QED BY <1>1, <1>2 DEF Brings

LEMMA BringsQuit ==
    ASSUME NEW s \in Seq(Call), NEW i \in 1..Len(s), ~Unsaved(s[i], {"sent"}), NEW v, NEW m,
           NEW j \in 1..Len(RemoveAt(s, i)), Brings(s, Was(i, j), v, m)
    PROVE  Brings(RemoveAt(s, i), j, v, m)
<1>1. RemoveAt(s, i)[j] = s[Was(i, j)] /\ Len(RemoveAt(s, i)) = Len(s) - 1
  BY Removed
<1>2. LiteWill(s, Was(i, j), v, m) => LiteWill(RemoveAt(s, i), j, v, m)
  <2>1. (m = v) \in BOOLEAN
    BY ThereIs
  <2> QED BY <1>1, <2>1, WillRemove DEF LiteWill
<1> QED BY <1>1, <1>2 DEF Brings

LEMMA ComesJoin ==
    ASSUME NEW s \in Seq(Call), NEW c \in Call, c.at = "sent", NEW v, NEW m, NEW p,
           ~Heard(c, p), ~Unsaved(c, {"sent"}), Comes(s, v, m, p)
    PROVE  Comes(Append(s, c), v, m, p)
<1> DEFINE t == Append(s, c)
<1>1. /\ Len(s) \in Nat /\ Len(t) = Len(s) + 1 /\ t[Len(s) + 1] = c
      /\ \A j \in 1..Len(s) : t[j] = s[j]
      /\ \A j \in 1..Len(t) : j \in 1..Len(s) \/ j = Len(s) + 1
  BY Appended
<1>2. LiteWill(s, Len(s), v, m) => LiteWill(t, Len(t), v, m)
  <2>1. (m = v) \in BOOLEAN
    BY ThereIs
  <2> QED BY <1>1, <2>1, WillAppend DEF LiteWill
<1>3. \A j \in 1..Len(s) : /\ Brings(s, j, v, m) => Brings(t, j, v, m)
                           /\ Brings(s, j, None, m) => Brings(t, j, None, m)
  BY BringsJoin
<1> HIDE DEF t
<1>4. ASSUME NEW j \in 1..Len(t), Heard(t[j], p)
      PROVE  Brings(t, j, v, m) \/ (Brings(t, j, None, m) /\ LiteWill(t, Len(t), v, m))
  <2>1. j \in 1..Len(s) /\ Heard(s[j], p)
    BY <1>1, <1>4
  <2> QED BY <1>2, <1>3, <2>1 DEF Comes
<1>5. ASSUME \A j \in 1..Len(t) : ~Heard(t[j], p)
      PROVE  LiteWill(t, Len(t), v, m)
  <2>1. \A j \in 1..Len(s) : ~Heard(s[j], p)
    BY <1>1, <1>5
  <2> QED BY <1>2, <2>1 DEF Comes
<1>6. Comes(t, v, m, p)
  BY <1>4, <1>5 DEF Comes
<1> QED BY <1>6 DEF t

LEMMA ComesQuit ==
    ASSUME NEW s \in Seq(Call), NEW i \in 1..Len(s), ~Unsaved(s[i], {"sent"}),
           NEW v, NEW m, NEW p, Comes(s, v, m, p),
           ~Heard(s[i], p) \/ LiteWill(s, Len(s), v, m)
    PROVE  Comes(RemoveAt(s, i), v, m, p)
<1> DEFINE t == RemoveAt(s, i)
<1>1. /\ Len(t) = Len(s) - 1
      /\ \A j \in 1..Len(t) : Was(i, j) \in 1..Len(s) /\ t[j] = s[Was(i, j)]
      /\ \A k \in 1..Len(s) : k # i => \E j \in 1..Len(t) : Was(i, j) = k
  BY Removed
<1>2. LiteWill(s, Len(s), v, m) => LiteWill(t, Len(t), v, m)
  <2>1. (m = v) \in BOOLEAN
    BY ThereIs
  <2> QED BY <1>1, <2>1, WillRemove DEF LiteWill
<1>3. \A j \in 1..Len(t) : /\ Brings(s, Was(i, j), v, m) => Brings(t, j, v, m)
                           /\ Brings(s, Was(i, j), None, m) => Brings(t, j, None, m)
  BY BringsQuit
<1> HIDE DEF t
<1>4. ASSUME NEW j \in 1..Len(t), Heard(t[j], p)
      PROVE  Brings(t, j, v, m) \/ (Brings(t, j, None, m) /\ LiteWill(t, Len(t), v, m))
  <2>1. Was(i, j) \in 1..Len(s) /\ Heard(s[Was(i, j)], p)
    BY <1>1, <1>4
  <2> QED BY <1>2, <1>3, <2>1 DEF Comes
<1>5. ASSUME \A j \in 1..Len(t) : ~Heard(t[j], p)
      PROVE  LiteWill(t, Len(t), v, m)
  <2>1. CASE LiteWill(s, Len(s), v, m)
    BY <1>2, <2>1
  <2>2. CASE ~Heard(s[i], p)
    <3>1. ASSUME NEW k \in 1..Len(s) PROVE ~Heard(s[k], p)
      <4>1. CASE k = i
        BY <2>2, <4>1
      <4>2. CASE k # i
        <5>1. PICK j \in 1..Len(t) : Was(i, j) = k
          BY <1>1, <4>2
        <5> QED BY <1>1, <1>5, <5>1
      <4> QED BY <4>1, <4>2
    <3> QED BY <1>2, <3>1 DEF Comes
  <2> QED BY <2>1, <2>2
<1>6. Comes(t, v, m, p)
  BY <1>4, <1>5 DEF Comes
<1> QED BY <1>6 DEF t

-----------------------------------------------------------------------------
(* The commands, each in its turn.                                          *)

LEMMA OddGrows ==
    ASSUME [HoursNext]_hoursVars
    PROVE  odd \subseteq odd'
<1> USE DEF hoursVars, link, copies, windows, backend, outside, hoursHistory, IsOdd
<1>1. CASE UNCHANGED hoursVars
  BY <1>1
<1>2. CASE Launches \/ Connects \/ SidecarStarts \/ Replays \/ Opens \/ Watches \/ PgChanges \/ Ends
  BY <1>2 DEF Launches, Connects, SidecarStarts, Replays, Opens, Watches, PgChanges, Ends
<1>3. CASE Wizard
  BY <1>3 DEF Wizard, Turns, DatabaseContinue, SetupFails, DatabaseIsSet,
              ServicesStart, AdministratorsKnown, AdministratorCreated, HoursContinue, Chooses
<1>4. CASE CallWorks
  BY <1>4 DEF CallWorks, ReadsHours, ReadFails, Answers, Migrates, SavesLocal, Drops, Queues, Upserts, Steps
<1>5. ASSUME NEW h \in Hours, Edits(h) PROVE odd \subseteq odd'
  BY <1>5 DEF Edits, Chooses
<1> QED BY <1>1, <1>2, <1>3, <1>4, <1>5 DEF HoursNext

LEMMA InTurn ==
    ASSUME HoursTyped, InOrder', NEW i \in 1..Len(calls), NEW op,
           NEW at \in CommandStages, Steps(i, op, at)
    PROVE  /\ calls[i].op = op /\ calls[i].at = at
           /\ \A j \in 1..(i - 1) :
                 /\ at = "sent" => calls[j].at # "sent"
                 /\ at = "local" => calls[j].at \notin {"sent", "local"}
<1>1. calls[i].op = op /\ calls[i].at = at /\ ~Overtakes(i)
  BY DEF Steps, Stands, IsOdd, InOrder
<1>2. ASSUME NEW j \in 1..(i - 1)
      PROVE  /\ at = "sent" => calls[j].at # "sent"
             /\ at = "local" => calls[j].at \notin {"sent", "local"}
  <2>1. ~(Rank[calls[j].at] <= Rank[calls[i].at])
    BY <1>1 DEF Overtakes
  <2> QED BY <1>1, <2>1 DEF Rank
<1> QED BY <1>1, <1>2

\* A command under way has its window, and its place.
LEMMA UnderWay ==
    ASSUME HoursTyped, OneWindow, NEW i \in 1..Len(calls)
    PROVE  ~Off /\ calls \in Seq(Call) /\ calls[i] \in Call /\ Formed(calls[i]) /\ Len(calls) \in Nat
<1>1. calls \in Seq(Call) /\ calls[i] \in Call /\ Formed(calls[i]) /\ Len(calls) \in Nat
  BY CallsShape, TypedParts DEF CallsFormed
<1>2. calls # <<>>
  BY <1>1, EmptySeq
<1> QED BY <1>1, <1>2 DEF OneWindow

\* A step that leaves the pages alone keeps the order if it keeps every word, or
\* the answer that will mend it.
LEMMA Carries ==
    ASSUME Ordered, UNCHANGED <<stored, page>>, Line(calls', outbox'),
           \A v \in MaybeHours : IsWord(v) => Word(calls', v, lite', outbox', central'),
           ~Off /\ ~InMain /\ Mends(calls, lite) =>
               \/ \E v \in MaybeHours : Word(calls', v, lite', outbox', central')
               \/ Mends(calls', lite')
    PROVE  Ordered'
<1>1. (Off' <=> Off) /\ (InMain' <=> InMain)
  BY DEF Off, InMain
<1>2. MainWord'
  BY <1>1 DEF Ordered, MainWord, IsWord
<1>3. SplashWord'
  BY <1>1 DEF Ordered, SplashWord, IsWord
<1> QED BY <1>2, <1>3 DEF Ordered

\* The word of the last save is what the main window keeps.
LEMMA Given ==
    ASSUME Line(calls', outbox'), NEW v \in MaybeHours,
           Word(calls', v, lite', outbox', central'),
           InMain' => stored' = v \/ stored' \in Refused
    PROVE  Ordered'
<1>1. MainWord'
  BY DEF MainWord, IsWord
<1>2. SplashWord'
  BY DEF SplashWord, IsWord
<1> QED BY <1>1, <1>2 DEF Ordered

LEMMA ReadOrder ==
    ASSUME HoursTyped, OneWindow, InOrder', NEW i \in 1..Len(calls), ReadsHours(i)
    PROVE  /\ Ordered => Ordered'
           /\ Comes(calls, chosen, lite, page) => Comes(calls', chosen', lite', page')
           /\ Asked => Asked'
<1> DEFINE c == [calls[i] EXCEPT !.hours = lite, !.at = "read"]
           t == [calls EXCEPT ![i] = c]
<1>a. ~Off /\ calls \in Seq(Call) /\ calls[i] \in Call /\ Formed(calls[i]) /\ Len(calls) \in Nat
  BY UnderWay
<1>b. calls' = t /\ UNCHANGED <<page, stored, lite, outbox, central, chosen>>
  BY DEF ReadsHours, copies, windows
<1>c. c \in Call /\ c.op = calls[i].op /\ c.by = calls[i].by /\ c.hours = lite /\ c.at = "read"
  BY <1>a, TypedParts, StagesAre DEF Call, OthersTyped, MaybeTaken, Taken
<1>d. /\ calls[i].op = "get" /\ calls[i].at = "sent"
      /\ \A j \in 1..(i - 1) : calls[j].at # "sent"
  <2>1. "sent" \in CommandStages
    BY StagesAre
  <2> QED BY <2>1, InTurn DEF ReadsHours
<1> HIDE DEF c
<1>e. /\ Len(t) = Len(calls)
      /\ \A j \in 1..Len(calls) : t[j] = IF j = i THEN c ELSE calls[j]
  BY <1>a, <1>c, Changed
<1>f. \A S : ~Unsaved(calls[i], S) /\ ~Unsaved(c, S)
  BY <1>c, <1>d DEF Unsaved
<1>g. \A j \in 1..i : ~Unsaved(calls[j], {"sent"})
  BY <1>d, <1>f DEF Unsaved
<1>h. ASSUME NEW S, NEW v, NEW there \in BOOLEAN, NEW n \in 0..Len(calls), Will(calls, n, S, v, there)
      PROVE  Will(t, n, S, v, there)
  BY <1>a, <1>c, <1>f, <1>h, WillExcept
<1>i. Off' <=> Off
  BY <1>b DEF Off
<1> HIDE DEF t
<1>1. ASSUME Ordered PROVE Ordered'
  <2>1. InLine(t)
    <3> SUFFICES ASSUME NEW k \in 1..Len(t), NEW j \in 1..Len(t), j < k
                 PROVE  /\ t[j].at = "sent" => t[k].at = "sent"
                        /\ Unsaved(t[j], {"local"}) /\ t[k].op = "save" => t[k].at \in {"sent", "local"}
      BY DEF InLine
    <3>1. /\ calls[j].at = "sent" => calls[k].at = "sent"
          /\ Unsaved(calls[j], {"local"}) /\ calls[k].op = "save" => calls[k].at \in {"sent", "local"}
      BY <1>1, <1>e DEF Ordered, Line, InLine
    <3>2. CASE k = i
      BY <1>c, <1>d, <1>e, <3>2
    <3>3. CASE j = i
      BY <1>c, <1>e, <1>f, <3>3
    <3>4. CASE k # i /\ j # i
      BY <1>e, <3>1, <3>4
    <3> QED BY <3>2, <3>3, <3>4
  <2>2. RowsWait(t, outbox)
    BY <1>1, <1>c, <1>e DEF Ordered, Line, RowsWait
  <2>3. ASSUME NEW v \in MaybeHours, IsWord(v) PROVE Word(t, v, lite, outbox, central)
    <3>1. Len(calls) \in 0..Len(calls)
      BY <1>a
    <3>2. (lite = v) \in BOOLEAN /\ RowThere(v, outbox, central) \in BOOLEAN
      BY ThereIs
    <3>3. LiteWill(t, Len(t), v, lite)
      BY <1>e, <1>h, <2>3, <3>1, <3>2 DEF IsWord, Word, LiteWill
    <3>4. RowWill(t, v, outbox, central)
      BY <1>e, <1>h, <2>3, <3>1, <3>2 DEF IsWord, Word, RowWill
    <3> QED BY <3>3, <3>4 DEF Word
  <2>4. ASSUME Mends(calls, lite) PROVE Mends(t, lite)
    <3>1. Unsent(t)
      BY <2>4, <1>c, <1>d, <1>e DEF Mends, Unsent
    <3>2. Waits(t)
      BY <2>4, <1>c, <1>e DEF Mends, Waits, Wait
    <3>3. Reads(t, lite)
      BY <2>4, <1>c, <1>e DEF Mends, Reads
    <3> QED BY <3>1, <3>2, <3>3 DEF Mends
  <2> QED BY <1>1, <1>b, <2>1, <2>2, <2>3, <2>4, Carries DEF Line
<1>2. ASSUME Comes(calls, chosen, lite, page) PROVE Comes(t, chosen, lite, page)
  <2>1. \A j \in 1..Len(calls) : Heard(t[j], page) <=> Heard(calls[j], page)
    BY <1>c, <1>e DEF Heard, Wait
  <2>2. \A n \in 0..Len(calls) : \A v : LiteWill(calls, n, v, lite) => LiteWill(t, n, v, lite)
    BY <1>h, ThereIs DEF LiteWill
  <2>3. ASSUME NEW j \in 1..Len(calls), NEW v, Brings(calls, j, v, lite) PROVE Brings(t, j, v, lite)
    <3>1. CASE j = i
      <4>1. LiteWill(calls, i, v, lite)
        BY <1>d, <2>3, <3>1 DEF Brings
      <4>2. lite = v
        BY <1>g, <4>1 DEF LiteWill, Will
      <4> QED BY <1>c, <1>e, <3>1, <4>2 DEF Brings
    <3>2. CASE j # i
      <4>1. j \in 0..Len(calls)
        BY <1>a
      <4> QED BY <1>e, <2>2, <2>3, <3>2, <4>1 DEF Brings
    <3> QED BY <3>1, <3>2
  <2>4. LiteWill(calls, Len(calls), chosen, lite) => LiteWill(t, Len(t), chosen, lite)
    BY <1>a, <1>e, <2>2
  <2> QED BY <1>2, <1>e, <2>1, <2>3, <2>4 DEF Comes
<1>3. ASSUME Asked PROVE Asked'
  <2>1. ASSUME NEW n \in 1..Len(calls), Filled(calls, n, lite) PROVE Filled(t, n, lite)
    BY <1>e, <1>f, <2>1 DEF Filled
  <2>2. calls[i].by = "migration" => lite # None
    BY <1>3, <1>d, <1>g DEF Asked, AsksFilled, Filled
  <2>3. AsksFilled(t, lite)
    BY <1>3, <1>c, <1>e, <2>1, <2>2 DEF Asked, AsksFilled
  <2>4. Len(calls) \in 1..Len(calls)
    BY <1>a
  <2>5. Filled(t, Len(t), lite)
    BY <1>3, <1>a, <1>e, <2>1, <2>4 DEF Asked
  <2> QED BY <1>b, <2>3, <2>5 DEF Asked
<1> QED BY <1>1, <1>2, <1>3, <1>b

\* The mirror takes the hours of the save that was sent first.
LEMMA LocalOrder ==
    ASSUME HoursTyped, OneWindow, InOrder', NEW i \in 1..Len(calls), SavesLocal(i)
    PROVE  /\ Ordered => Ordered'
           /\ Comes(calls, chosen, lite, page) => Comes(calls', chosen', lite', page')
           /\ Asked => Asked'
<1> DEFINE c == [calls[i] EXCEPT !.at = "local"]
           t == [calls EXCEPT ![i] = c]
           m == calls[i].hours
<1>a. ~Off /\ calls \in Seq(Call) /\ calls[i] \in Call /\ Formed(calls[i]) /\ Len(calls) \in Nat
  BY UnderWay
<1>b. calls' = t /\ lite' = m /\ UNCHANGED <<page, stored, outbox, central, chosen>>
  BY DEF SavesLocal, windows
<1>c. c \in Call /\ c.op = calls[i].op /\ c.by = calls[i].by /\ c.hours = m /\ c.at = "local"
  BY <1>a, StagesAre DEF Call
<1>d. /\ calls[i].op = "save" /\ calls[i].at = "sent" /\ m \notin Refused
      /\ \A j \in 1..(i - 1) : calls[j].at # "sent"
  <2>1. "sent" \in CommandStages
    BY StagesAre
  <2> QED BY <2>1, InTurn DEF SavesLocal
<1>m. m \in Hours /\ m # None
  BY <1>a, <1>d, WorkHoursAssumption DEF Formed
<1> HIDE DEF c
<1>e. /\ Len(t) = Len(calls)
      /\ \A j \in 1..Len(calls) : t[j] = IF j = i THEN c ELSE calls[j]
  BY <1>a, <1>c, Changed
<1>f. /\ Unsaved(calls[i], {"sent"}) /\ ~Unsaved(c, {"sent"})
      /\ Unsaved(calls[i], {"sent", "local"}) /\ Unsaved(c, {"sent", "local"})
  BY <1>c, <1>d DEF Unsaved
<1>g. \A j \in 1..(i - 1) : ~Unsaved(calls[j], {"sent"})
  BY <1>d DEF Unsaved
<1>h. ASSUME NEW v, NEW n \in i..Len(calls), LiteWill(calls, n, v, lite) PROVE LiteWill(t, n, v, m)
  <2>1. (lite = v) \in BOOLEAN /\ (m = v) \in BOOLEAN
    OBVIOUS
  <2> QED BY <1>a, <1>c, <1>f, <1>g, <1>h, <2>1, WillGo DEF LiteWill
<1>i. ASSUME NEW v, RowWill(calls, v, outbox, central) PROVE RowWill(t, v, outbox, central)
  <2>1. RowThere(v, outbox, central) \in BOOLEAN /\ Len(calls) \in 0..Len(calls)
    BY <1>a, ThereIs
  <2>2. Will(calls, Len(calls), {"sent", "local"}, v, RowThere(v, outbox, central))
    BY <1>i DEF RowWill
  <2>3. Unsaved(c, {"sent", "local"}) <=> Unsaved(calls[i], {"sent", "local"})
    BY <1>f
  <2>4. Will(t, Len(calls), {"sent", "local"}, v, RowThere(v, outbox, central))
    BY <1>a, <1>c, <2>1, <2>2, <2>3, WillExcept
  <2> QED BY <1>e, <2>4 DEF RowWill
<1>j. Len(calls) \in i..Len(calls)
  BY <1>a
<1>k. ~Mends(calls, lite)
  BY <1>d DEF Mends, Unsent
<1> HIDE DEF t, m
<1>1. ASSUME Ordered PROVE Ordered'
  <2>1. InLine(t)
    <3> SUFFICES ASSUME NEW k \in 1..Len(t), NEW j \in 1..Len(t), j < k
                 PROVE  /\ t[j].at = "sent" => t[k].at = "sent"
                        /\ Unsaved(t[j], {"local"}) /\ t[k].op = "save" => t[k].at \in {"sent", "local"}
      BY DEF InLine
    <3>1. /\ calls[j].at = "sent" => calls[k].at = "sent"
          /\ Unsaved(calls[j], {"local"}) /\ calls[k].op = "save" => calls[k].at \in {"sent", "local"}
      BY <1>1, <1>e DEF Ordered, Line, InLine
    <3>2. CASE k = i
      BY <1>c, <1>d, <1>e, <3>2
    <3>3. CASE j = i
      BY <1>c, <1>d, <1>e, <3>1, <3>3
    <3>4. CASE k # i /\ j # i
      BY <1>e, <3>1, <3>4
    <3> QED BY <3>2, <3>3, <3>4
  <2>2. RowsWait(t, outbox)
    BY <1>1, <1>c, <1>e DEF Ordered, Line, RowsWait
  <2>3. ASSUME NEW v \in MaybeHours, IsWord(v) PROVE Word(t, v, m, outbox, central)
    BY <1>e, <1>h, <1>i, <1>j, <2>3 DEF IsWord, Word
  <2> QED BY <1>1, <1>b, <1>k, <2>1, <2>2, <2>3, Carries DEF Line
<1>2. ASSUME Comes(calls, chosen, lite, page) PROVE Comes(t, chosen, m, page)
  <2>1. \A j \in 1..Len(calls) : Heard(t[j], page) <=> Heard(calls[j], page)
    BY <1>c, <1>e DEF Heard, Wait
  <2>3. ASSUME NEW j \in 1..Len(calls), Heard(calls[j], page), NEW v, Brings(calls, j, v, lite)
        PROVE  Brings(t, j, v, m)
    <3>1. j # i
      BY <1>d, <2>3 DEF Heard, Wait
    <3>2. CASE calls[j].at = "sent"
      <4>1. j \in i..Len(calls)
        BY <1>a, <1>d, <3>2
      <4> QED BY <1>e, <1>h, <2>3, <3>1, <3>2, <4>1 DEF Brings
    <3>3. CASE calls[j].at # "sent"
      BY <1>e, <2>3, <3>1, <3>3 DEF Brings
    <3> QED BY <3>2, <3>3
  <2>4. LiteWill(calls, Len(calls), chosen, lite) => LiteWill(t, Len(t), chosen, m)
    BY <1>e, <1>h, <1>j
  <2> QED BY <1>2, <1>e, <2>1, <2>3, <2>4 DEF Comes
<1>3. ASSUME Asked PROVE Asked'
  <2>1. \A n : Filled(t, n, m)
    BY <1>m DEF Filled
  <2>2. AsksFilled(t, m)
    BY <1>3, <1>c, <1>d, <1>e, <2>1 DEF Asked, AsksFilled
  <2> QED BY <1>b, <2>1, <2>2 DEF Asked
<1> QED BY <1>1, <1>2, <1>3, <1>b

\* The row of the save that was sent first goes to the end of the outbox.
LEMMA QueueOrder ==
    ASSUME HoursTyped, OneWindow, InOrder', NEW i \in 1..Len(calls), Queues(i)
    PROVE  /\ Ordered => Ordered'
           /\ Comes(calls, chosen, lite, page) => Comes(calls', chosen', lite', page')
           /\ Asked => Asked'
<1> DEFINE c == [calls[i] EXCEPT !.at = "queued"]
           t == [calls EXCEPT ![i] = c]
           rows == Append(outbox, calls[i].hours)
<1>a. ~Off /\ calls \in Seq(Call) /\ calls[i] \in Call /\ Formed(calls[i]) /\ Len(calls) \in Nat
  BY UnderWay
<1>b. calls' = t /\ outbox' = rows /\ UNCHANGED <<page, stored, lite, central, chosen>>
  BY DEF Queues, windows
<1>c. c \in Call /\ c.op = calls[i].op /\ c.by = calls[i].by /\ c.hours = calls[i].hours /\ c.at = "queued"
  BY <1>a, StagesAre DEF Call
<1>d. /\ calls[i].op = "save" /\ calls[i].at = "local" /\ calls[i].hours \in Taken
      /\ \A j \in 1..(i - 1) : calls[j].at \notin {"sent", "local"}
  <2>1. "local" \in CommandStages
    BY StagesAre
  <2>2. /\ calls[i].op = "save" /\ calls[i].at = "local"
        /\ \A j \in 1..(i - 1) : calls[j].at \notin {"sent", "local"}
    BY <2>1, InTurn DEF Queues
  <2> QED BY <1>a, <2>2 DEF Formed, Taken
<1>r. rows # <<>> /\ rows[Len(rows)] = calls[i].hours
  <2>1. outbox \in Seq(Taken) /\ calls[i].hours \in Taken
    BY <1>d, TypedParts DEF OthersTyped
  <2>2. Len(rows) = Len(outbox) + 1 /\ rows[Len(outbox) + 1] = calls[i].hours /\ Len(outbox) \in Nat
    BY <2>1, AppendShape, LenProperties
  <2>3. rows # <<>>
    BY <2>1, AppendProperties
  <2> QED BY <2>2, <2>3
<1> HIDE DEF c, rows
<1>e. /\ Len(t) = Len(calls)
      /\ \A j \in 1..Len(calls) : t[j] = IF j = i THEN c ELSE calls[j]
  BY <1>a, <1>c, Changed
<1>f. /\ ~Unsaved(calls[i], {"sent"}) /\ ~Unsaved(c, {"sent"})
      /\ Unsaved(calls[i], {"sent", "local"}) /\ ~Unsaved(c, {"sent", "local"})
  BY <1>c, <1>d DEF Unsaved, Taken
<1>g. \A j \in 1..(i - 1) : ~Unsaved(calls[j], {"sent", "local"})
  BY <1>d DEF Unsaved
<1>h. ASSUME NEW v, NEW n \in 0..Len(calls), LiteWill(calls, n, v, lite) PROVE LiteWill(t, n, v, lite)
  <2>1. (lite = v) \in BOOLEAN /\ (Unsaved(c, {"sent"}) <=> Unsaved(calls[i], {"sent"}))
    BY <1>f
  <2>2. Will(calls, n, {"sent"}, v, lite = v)
    BY <1>h DEF LiteWill
  <2>3. Will(t, n, {"sent"}, v, lite = v)
    BY <1>a, <1>c, <1>f, <2>1, <2>2, WillExcept
  <2> QED BY <2>3 DEF LiteWill
<1>j. Len(calls) \in i..Len(calls) /\ \A k \in 1..Len(calls) : k \in 0..Len(calls)
  BY <1>a
<1>i. ASSUME NEW v, RowWill(calls, v, outbox, central) PROVE RowWill(t, v, rows, central)
  <2>1. RowThere(v, outbox, central) \in BOOLEAN /\ RowThere(v, rows, central) \in BOOLEAN
    BY ThereIs
  <2>2. calls[i].hours = v => RowThere(v, rows, central)
    BY <1>r DEF RowThere
  <2>3. Will(calls, Len(calls), {"sent", "local"}, v, RowThere(v, outbox, central))
    BY <1>i DEF RowWill
  <2>4. Will(t, Len(calls), {"sent", "local"}, v, RowThere(v, rows, central))
    BY <1>a, <1>c, <1>f, <1>g, <1>j, <2>1, <2>2, <2>3, WillGo
  <2> QED BY <1>e, <2>4 DEF RowWill
<1>k. ~Mends(calls, lite)
  BY <1>d DEF Mends, Unsent, Taken
<1> HIDE DEF t
<1>1. ASSUME Ordered PROVE Ordered'
  <2>1. InLine(t)
    <3> SUFFICES ASSUME NEW k \in 1..Len(t), NEW j \in 1..Len(t), j < k
                 PROVE  /\ t[j].at = "sent" => t[k].at = "sent"
                        /\ Unsaved(t[j], {"local"}) /\ t[k].op = "save" => t[k].at \in {"sent", "local"}
      BY DEF InLine
    <3>1. /\ calls[j].at = "sent" => calls[k].at = "sent"
          /\ Unsaved(calls[j], {"local"}) /\ calls[k].op = "save" => calls[k].at \in {"sent", "local"}
      BY <1>1, <1>e DEF Ordered, Line, InLine
    <3>2. CASE k = i
      <4>1. calls[j].at \notin {"sent", "local"} /\ t[j] = calls[j]
        BY <1>d, <1>e, <3>2
      <4> QED BY <4>1 DEF Unsaved
    <3>3. CASE j = i
      BY <1>c, <1>e, <3>3 DEF Unsaved
    <3>4. CASE k # i /\ j # i
      BY <1>e, <3>1, <3>4
    <3> QED BY <3>2, <3>3, <3>4
  <2>2. RowsWait(t, rows)
    BY <1>r DEF RowsWait
  <2>3. ASSUME NEW v \in MaybeHours, IsWord(v) PROVE Word(t, v, lite, rows, central)
    <3>1. Len(calls) \in 0..Len(calls)
      BY <1>a
    <3> QED BY <1>e, <1>h, <1>i, <2>3, <3>1 DEF IsWord, Word
  <2> QED BY <1>1, <1>b, <1>k, <2>1, <2>2, <2>3, Carries DEF Line
<1>2. ASSUME Comes(calls, chosen, lite, page) PROVE Comes(t, chosen, lite, page)
  <2>1. \A j \in 1..Len(calls) : Heard(t[j], page) <=> Heard(calls[j], page)
    BY <1>c, <1>e DEF Heard, Wait
  <2>3. ASSUME NEW j \in 1..Len(calls), Heard(calls[j], page), NEW v, Brings(calls, j, v, lite)
        PROVE  Brings(t, j, v, lite)
    <3>1. j # i
      BY <1>d, <2>3 DEF Heard, Wait
    <3> QED BY <1>e, <1>h, <1>j, <2>3, <3>1 DEF Brings
  <2>4. LiteWill(calls, Len(calls), chosen, lite) => LiteWill(t, Len(t), chosen, lite)
    <3>1. Len(calls) \in 0..Len(calls)
      BY <1>a
    <3> QED BY <1>e, <1>h, <3>1
  <2> QED BY <1>2, <1>e, <2>1, <2>3, <2>4 DEF Comes
<1>3. ASSUME Asked PROVE Asked'
  <2>1. ASSUME NEW n \in 1..Len(calls), Filled(calls, n, lite) PROVE Filled(t, n, lite)
    BY <1>e, <1>f, <2>1 DEF Filled
  <2>2. AsksFilled(t, lite)
    BY <1>3, <1>c, <1>d, <1>e, <2>1 DEF Asked, AsksFilled
  <2>3. Len(calls) \in 1..Len(calls)
    BY <1>a
  <2>4. Filled(t, Len(t), lite)
    BY <1>3, <1>a, <1>e, <2>1, <2>3 DEF Asked
  <2> QED BY <1>b, <2>2, <2>4 DEF Asked
<1> QED BY <1>1, <1>2, <1>3, <1>b

\* A command that has nothing left to bring ends; an answer that does brings what
\* the mirror has already.
LEMMA QuitOrder ==
    ASSUME HoursTyped, OneWindow, NEW i \in 1..Len(calls), calls' = RemoveAt(calls, i),
           ~Unsaved(calls[i], {"sent", "local"}),
           UNCHANGED <<page, stored, lite, outbox, chosen>>,
           outbox # <<>> \/ central' = central,
           ~InMain /\ Mends(calls, lite) =>
               ~(Wait(calls[i]) /\ calls[i].by = "splash") \/ \E v \in MaybeHours : IsWord(v)
    PROVE  /\ Ordered => Ordered'
           /\ /\ Comes(calls, chosen, lite, page)
              /\ ~Heard(calls[i], page) \/ LiteWill(calls, Len(calls), chosen, lite)
              => Comes(calls', chosen', lite', page')
           /\ Asked => Asked'
<1>a. ~Off /\ calls \in Seq(Call)
  BY UnderWay
<1>b. ~Unsaved(calls[i], {"sent"})
  BY BothStages
<1>1. ASSUME Ordered PROVE Ordered'
  <2>1. Line(calls', outbox)
    BY <1>1, <1>a, LineQuit DEF Ordered
  <2>2. ASSUME NEW v \in MaybeHours, IsWord(v) PROVE Word(calls', v, lite, outbox, central')
    <3>1. RowThere(v, outbox, central') <=> RowThere(v, outbox, central)
      BY DEF RowThere
    <3>2. Word(calls', v, lite, outbox, central)
      BY <1>a, <2>2, WordQuit DEF IsWord
    <3> QED BY <3>1, <3>2 DEF Word, RowWill, Will
  <2>3. ASSUME ~InMain, Mends(calls, lite)
        PROVE  (\E v \in MaybeHours : Word(calls', v, lite, outbox, central')) \/ Mends(calls', lite)
    BY <1>a, <2>2, <2>3, MendsQuit
  <2> QED BY <1>1, <2>1, <2>2, <2>3, Carries
<1>2. ASSUME Comes(calls, chosen, lite, page),
             ~Heard(calls[i], page) \/ LiteWill(calls, Len(calls), chosen, lite)
      PROVE  Comes(calls', chosen, lite, page)
  BY <1>a, <1>b, <1>2, ComesQuit
<1>3. ASSUME Asked PROVE Asked'
  BY <1>3, <1>a, <1>b, AsksQuit DEF Asked
<1> QED BY <1>1, <1>2, <1>3

LEMMA UpsertOrder ==
    ASSUME HoursTyped, OneWindow, Ordered, NEW i \in 1..Len(calls), Upserts(i)
    PROVE  /\ Ordered'
           /\ Comes(calls, chosen, lite, page) => Comes(calls', chosen', lite', page')
           /\ Asked => Asked'
<1>1. calls[i].op = "save" /\ calls[i].at = "queued"
  BY DEF Upserts, Steps, Stands
<1>2. ~Unsaved(calls[i], {"sent", "local"}) /\ ~Wait(calls[i]) /\ ~Heard(calls[i], page) /\ outbox # <<>>
  BY <1>1 DEF Unsaved, Heard, Wait, Ordered, Line, RowsWait
<1>3. calls' = RemoveAt(calls, i) /\ UNCHANGED <<page, stored, lite, outbox, chosen>>
  BY DEF Upserts, Returns
<1> QED BY <1>2, <1>3, QuitOrder

\* A save that is refused leaves the copies as they are.
LEMMA DropOrder ==
    ASSUME HoursTyped, OneWindow, InOrder', NEW i \in 1..Len(calls), Drops(i)
    PROVE  /\ Ordered => Ordered'
           /\ Comes(calls, chosen, lite, page) => Comes(calls', chosen', lite', page')
           /\ Asked => Asked'
<1>1. calls[i].op = "save" /\ calls[i].hours \in Refused
  BY DEF Drops, Steps, Stands, IsOdd, InOrder
<1>2. ~Unsaved(calls[i], {"sent", "local"}) /\ ~Wait(calls[i]) /\ ~Heard(calls[i], page)
  BY <1>1 DEF Unsaved, Heard, Wait
<1>3. calls' = RemoveAt(calls, i) /\ UNCHANGED <<page, stored, lite, outbox, central, chosen>>
  BY DEF Drops, Returns, copies
<1> QED BY <1>2, <1>3, QuitOrder

\* The migration saves what localStorage has, if the mirror had nothing.
LEMMA MigrateOrder ==
    ASSUME HoursTyped, OneWindow, Guided, NEW i \in 1..Len(calls), Migrates(i)
    PROVE  /\ Ordered => Ordered'
           /\ Asked /\ Comes(calls, chosen, lite, page) => Comes(calls', chosen', lite', page')
           /\ Asked => Asked'
<1> DEFINE rest == RemoveAt(calls, i)
           c == Save("migration", Loaded)
<1>a. ~Off /\ calls \in Seq(Call) /\ calls[i] \in Call /\ Formed(calls[i])
  BY UnderWay
<1>1. calls[i].by = "migration" /\ calls[i].at = "read" /\ calls[i].op = "get"
  BY <1>a DEF Migrates, Formed, Call
<1>2. ~Unsaved(calls[i], {"sent", "local"}) /\ ~Wait(calls[i]) /\ ~Heard(calls[i], page)
  BY <1>1 DEF Unsaved, Heard, Wait, Windows
<1>3. UNCHANGED <<page, stored, lite, outbox, central, chosen>>
  BY DEF Migrates, copies, windows, hoursHistory
<1>4. CASE calls[i].hours # None
  <2>1. calls' = rest
    BY <1>4 DEF Migrates
  <2> QED BY <1>2, <1>3, <2>1, QuitOrder
<1>5. CASE calls[i].hours = None
  <2>1. calls' = Append(rest, c)
    BY <1>5 DEF Migrates
  <2>2. ~Asked
    BY <1>1, <1>5 DEF Asked, AsksFilled
  <2>3. Loaded \in Hours /\ Loaded \in MaybeHours
    BY TypedParts, LoadedType DEF MaybeHours
  <2>4. rest \in Seq(Call) /\ c \in Call /\ c.at = "sent" /\ c.op = "save" /\ c.hours = Loaded
    BY <1>a, <2>3, Removed, SentFormed DEF Formed, Save
  <2>5. ~InMain
    BY <1>1 DEF Guided, NoneBy
  <2>6. InMain' <=> InMain
    BY <1>3 DEF InMain
  <2>7. ASSUME Ordered PROVE Ordered'
    <3> HIDE DEF c
    <3>1. Line(rest, outbox)
      BY <2>7, <1>a, LineQuit DEF Ordered
    <3>2. Line(calls', outbox)
      BY <2>1, <2>4, <3>1, LineJoin
    <3>3. CASE Loaded \notin Refused
      <4>1. Unsaved(c, {"sent"})
        BY <2>4, <3>3 DEF Unsaved
      <4>2. Word(calls', Loaded, lite, outbox, central)
        BY <2>1, <2>4, <4>1, WordJoin
      <4> QED BY <1>3, <2>3, <2>5, <2>6, <3>2, <4>2, Given
    <3>4. CASE Loaded \in Refused
      <4>1. ~Unsaved(c, {"sent"})
        BY <2>4, <3>4 DEF Unsaved
      <4>2. ASSUME NEW v \in MaybeHours, IsWord(v) PROVE Word(calls', v, lite, outbox, central)
        <5>1. Word(rest, v, lite, outbox, central)
          BY <1>a, <1>2, <4>2, WordQuit DEF IsWord
        <5> QED BY <2>1, <2>4, <4>1, <5>1, WordJoin
      <4>3. ASSUME Mends(calls, lite) PROVE Mends(calls', lite)
        <5>1. Mends(rest, lite)
          BY <1>a, <1>2, <4>3, MendsQuit
        <5> QED BY <2>1, <2>4, <4>1, <5>1, MendsJoin
      <4> QED BY <1>3, <2>7, <3>2, <4>2, <4>3, Carries
    <3> QED BY <3>3, <3>4
  <2> QED BY <2>2, <2>7
<1> QED BY <1>4, <1>5

\* A save of v is sent: all that waits may bring nothing.
LEMMA ComesSave ==
    ASSUME NEW s \in Seq(Call), NEW c \in Call, c.op = "save", Unsaved(c, {"sent"}),
           NEW m, NEW p,
           \A j \in 1..Len(s) : Heard(s[j], p) => Brings(s, j, c.hours, m) \/ Brings(s, j, None, m)
    PROVE  Comes(Append(s, c), c.hours, m, p)
<1> DEFINE t == Append(s, c)
           v == c.hours
<1>1. /\ Len(s) \in Nat /\ Len(t) = Len(s) + 1 /\ t[Len(s) + 1] = c
      /\ \A j \in 1..Len(s) : t[j] = s[j]
      /\ \A j \in 1..Len(t) : j \in 1..Len(s) \/ j = Len(s) + 1
  BY Appended
<1>2. LiteWill(t, Len(t), v, m)
  <2>1. (m = v) \in BOOLEAN
    BY ThereIs
  <2> QED BY <1>1, <2>1, WillAppend DEF LiteWill
<1>3. \A j \in 1..Len(s) : /\ Brings(s, j, v, m) => Brings(t, j, v, m)
                           /\ Brings(s, j, None, m) => Brings(t, j, None, m)
  BY BringsJoin
<1>4. ~Heard(c, p)
  BY DEF Heard, Wait
<1> HIDE DEF t
<1>5. ASSUME NEW j \in 1..Len(t), Heard(t[j], p)
      PROVE  Brings(t, j, v, m) \/ Brings(t, j, None, m)
  <2>1. j \in 1..Len(s) /\ Heard(s[j], p)
    BY <1>1, <1>4, <1>5
  <2> QED BY <1>3, <2>1
<1>6. Comes(t, v, m, p)
  BY <1>2, <1>5 DEF Comes
<1> QED BY <1>6 DEF t

\* The page takes the answer, and sends it back.
LEMMA AnswerOrder ==
    ASSUME HoursTyped, OneWindow, Blank, NEW i \in 1..Len(calls), Answers(i)
    PROVE  /\ Ordered => Ordered'
           /\ chosen # None /\ Comes(calls, chosen, lite, page) => Comes(calls', chosen', lite', page')
           /\ Asked => Asked'
<1> DEFINE w == calls[i].by
           h == calls[i].hours
           rest == RemoveAt(calls, i)
<1>a. ~Off /\ calls \in Seq(Call) /\ calls[i] \in Call /\ Formed(calls[i])
  BY UnderWay
<1>b. /\ Wait(calls[i]) /\ calls[i].op = "get" /\ calls[i].at = "read" /\ w \in Windows
      /\ UNCHANGED <<lite, outbox, central, chosen>>
  BY DEF Answers, Wait, hoursHistory
<1>c. ~Unsaved(calls[i], {"sent", "local"}) /\ ~Unsaved(calls[i], {"sent"})
  BY <1>b DEF Unsaved
<1>d. Heard(calls[i], page) <=> page[w] # None
  BY <1>b DEF Heard
<1>e. ASSUME Comes(calls, chosen, lite, page), Heard(calls[i], page)
      PROVE  h = chosen \/ (h = None /\ LiteWill(calls, Len(calls), chosen, lite))
  BY <1>b, <1>e DEF Comes, Brings
<1>1. CASE ~(page[w] # None /\ h # None)
  <2>1. calls' = rest /\ UNCHANGED <<page, stored>>
    BY <1>1 DEF Answers
  <2>2. ASSUME chosen # None, Comes(calls, chosen, lite, page)
        PROVE  ~Heard(calls[i], page) \/ LiteWill(calls, Len(calls), chosen, lite)
    BY <1>1, <1>d, <1>e, <2>2
  <2>3. ASSUME ~InMain, Mends(calls, lite), w = "splash" PROVE \E v \in MaybeHours : IsWord(v)
    <3>1. page["splash"] # None
      BY <1>a, <2>3, TypedParts DEF InMain, Off, Windows, OthersTyped
    <3>2. lite = None
      BY <1>1, <1>b, <2>3, <3>1 DEF Mends, Reads
    <3>3. \A j \in 1..Len(calls) : \A S : ~Unsaved(calls[j], S)
      BY <2>3 DEF Mends, Unsent, Unsaved
    <3>4. RowThere(None, outbox, central)
      BY <3>2 DEF Blank, RowThere
    <3>5. IsWord(None)
      BY <3>2, <3>3, <3>4 DEF IsWord, Word, LiteWill, RowWill, Will
    <3> QED BY <3>5 DEF MaybeHours
  <2> QED BY <1>b, <1>c, <2>1, <2>2, <2>3, QuitOrder
<1>2. CASE page[w] # None /\ h # None
  <2>1. calls' = Append(rest, Save(w, h)) /\ page' = [page EXCEPT ![w] = h] /\ stored' = h
    BY <1>2 DEF Answers, Keeps
  <2>2. h \in Hours /\ h \in MaybeHours /\ h \notin Refused
    BY <1>2, <1>a, <1>b DEF Formed, Call, MaybeHours
  <2>3. Save(w, h) \in Call /\ rest \in Seq(Call)
    BY <1>a, <1>b, <2>2, SentFormed, Removed DEF Formed
  <2>4. /\ Save(w, h).op = "save" /\ Save(w, h).at = "sent" /\ Save(w, h).hours = h
        /\ Unsaved(Save(w, h), {"sent"})
    BY <2>2 DEF Save, Unsaved
  <2>5. \A x \in Windows : page'[x] = IF x = w THEN h ELSE page[x]
    BY <2>1, TypedParts DEF OthersTyped
  <2>6. \A x \in Windows : page'[x] # None <=> page[x] # None
    BY <1>2, <2>5
  <2>7. ASSUME Ordered PROVE Ordered'
    <3>1. Line(rest, outbox)
      BY <2>7, <1>a, LineQuit DEF Ordered
    <3>2. Line(calls', outbox)
      BY <2>1, <2>3, <2>4, <3>1, LineJoin
    <3>3. Word(calls', h, lite, outbox, central)
      BY <2>1, <2>3, <2>4, WordJoin
    <3> QED BY <1>b, <2>1, <2>2, <3>2, <3>3, Given
  <2>8. ASSUME chosen # None, Comes(calls, chosen, lite, page)
        PROVE  Comes(calls', chosen, lite, page')
    <3>1. h = chosen
      BY <1>2, <1>d, <1>e, <2>8
    <3>2. ASSUME NEW j \in 1..Len(rest), Heard(rest[j], page')
          PROVE  Brings(rest, j, chosen, lite) \/ Brings(rest, j, None, lite)
      <4>1. Was(i, j) \in 1..Len(calls) /\ rest[j] = calls[Was(i, j)]
        <5>1. \A k \in 1..Len(rest) : Was(i, k) \in 1..Len(calls) /\ rest[k] = calls[Was(i, k)]
          BY <1>a, Removed
        <5> QED BY <5>1
      <4>2. Heard(calls[Was(i, j)], page)
        BY <2>6, <3>2, <4>1 DEF Heard, Wait
      <4>3. Brings(calls, Was(i, j), chosen, lite) \/ Brings(calls, Was(i, j), None, lite)
        BY <2>8, <4>1, <4>2 DEF Comes
      <4> QED BY <1>a, <1>c, <4>3, BringsQuit
    <3> HIDE DEF rest
    <3>3. Comes(Append(rest, Save(w, h)), Save(w, h).hours, lite, page')
      BY <2>3, <2>4, <3>1, <3>2, ComesSave
    <3> QED BY <2>1, <2>4, <3>1, <3>3
  <2>9. ASSUME Asked PROVE Asked'
    <3>1. AsksFilled(rest, lite)
      BY <2>9, <1>a, <1>c, AsksQuit DEF Asked
    <3>2. AsksFilled(calls', lite) /\ Filled(calls', Len(calls'), lite)
      BY <2>1, <2>3, <2>4, <3>1, AsksJoin
    <3> QED BY <1>b, <3>2 DEF Asked
  <2> QED BY <1>b, <2>7, <2>8, <2>9
<1> QED BY <1>1, <1>2

-----------------------------------------------------------------------------
(* The windows, the person and PostgreSQL.                                  *)

LEMMA RestOrder ==
    ASSUME Rests
    PROVE  /\ Ordered => Ordered'
           /\ ChosenComes => ChosenComes'
           /\ Asked => Asked'
<1>1. UNCHANGED <<calls, stored, lite, central, outbox, page, chosen>>
  BY DEF Rests, Others
<1>2. (Off' <=> Off) /\ (InMain' <=> InMain)
  BY <1>1 DEF Off, InMain
<1> QED BY <1>1, <1>2 DEF Ordered, MainWord, SplashWord, IsWord, ChosenComes, Asked

\* A question of no window joins.
LEMMA AskOrder ==
    ASSUME HoursTyped, AsksMirror
    PROVE  /\ Ordered => Ordered'
           /\ Comes(calls, chosen, lite, page) => Comes(calls', chosen', lite', page')
           /\ Asked => Asked'
<1> DEFINE c == Get("migration")
<1>a. calls \in Seq(Call) /\ c \in Call
  BY CallsShape, SentFormed DEF Formed
<1>b. /\ c.at = "sent" /\ c.op = "get" /\ c.by = "migration" /\ ~Heard(c, page)
      /\ ~Unsaved(c, {"sent"})
  BY DEF Get, Heard, Wait, Windows, Unsaved
<1>c. ~Off /\ calls' = Append(calls, c) /\ UNCHANGED <<stored, lite, central, outbox, page, chosen>>
  BY DEF AsksMirror, Others
<1> HIDE DEF c
<1>1. ASSUME Ordered PROVE Ordered'
  <2>1. Line(calls', outbox)
    BY <1>1, <1>a, <1>b, <1>c, LineJoin DEF Ordered
  <2>2. ASSUME NEW v \in MaybeHours, IsWord(v) PROVE Word(calls', v, lite, outbox, central)
    BY <2>2, <1>a, <1>b, <1>c, WordJoin DEF IsWord
  <2>3. Mends(calls, lite) => Mends(calls', lite)
    BY <1>a, <1>b, <1>c, MendsJoin
  <2> QED BY <1>1, <1>c, <2>1, <2>2, <2>3, Carries
<1>2. Comes(calls, chosen, lite, page) => Comes(calls', chosen, lite, page)
  BY <1>a, <1>b, <1>c, ComesJoin
<1>3. ASSUME Asked PROVE Asked'
  <2>1. AsksFilled(calls', lite) /\ Filled(calls', Len(calls'), lite)
    BY <1>3, <1>a, <1>b, <1>c, AsksJoin DEF Asked
  <2> QED BY <1>c, <2>1 DEF Asked
<1> QED BY <1>1, <1>2, <1>3, <1>c

\* The oldest row of the outbox is the newest only when it is the last.
LEMMA ReplayOrder ==
    ASSUME HoursTyped, Ordered, InOrder', Replays
    PROVE  Ordered'
<1>a. UNCHANGED <<calls, stored, lite, page, chosen>> /\ replay > 0
  BY DEF Replays, windows
<1>c. \A i \in 1..Len(calls) : calls[i].at # "queued"
  BY CallsShape DEF Replays, IsOdd, InOrder
<1>d. Line(calls, outbox')
  BY <1>c DEF Ordered, Line, RowsWait
<1>e. ASSUME NEW v, RowThere(v, outbox, central) PROVE RowThere(v, outbox', central')
  <2>1. CASE pgUp
    <3>1. outbox \in Seq(Taken) /\ outbox # <<>>
      BY <1>a, TypedParts DEF OthersTyped
    <3>2. /\ Tail(outbox) \in Seq(Taken) /\ Len(Tail(outbox)) = Len(outbox) - 1 /\ Len(outbox) \in Nat \ {0}
          /\ Head(outbox) = outbox[1]
          /\ \A k \in 1..Len(Tail(outbox)) : Tail(outbox)[k] = outbox[k + 1]
      BY <3>1, HeadTailProperties, LenProperties, EmptySeq
    <3>3. outbox[Len(outbox)] = v
      BY <1>e, <3>1 DEF RowThere
    <3>4. central' = outbox[1] /\ outbox' = Tail(outbox)
      BY <2>1, <3>2 DEF Replays
    <3>5. CASE Tail(outbox) = <<>>
      <4>1. Len(Tail(outbox)) = 0
        BY <3>5, <3>2, EmptySeq
      <4> QED BY <3>2, <3>3, <3>4, <3>5, <4>1 DEF RowThere
    <3>6. CASE Tail(outbox) # <<>>
      <4>1. Len(Tail(outbox)) \in 1..Len(Tail(outbox))
        BY <3>2, <3>6, EmptySeq, LenProperties
      <4>2. Tail(outbox)[Len(Tail(outbox))] = outbox[Len(outbox)]
        BY <3>2, <4>1
      <4> QED BY <3>3, <3>4, <3>6, <4>2 DEF RowThere
    <3> QED BY <3>5, <3>6
  <2>2. CASE ~pgUp
    BY <1>e, <2>2 DEF Replays
  <2> QED BY <2>1, <2>2
<1>1. ASSUME NEW v \in MaybeHours, IsWord(v) PROVE Word(calls, v, lite, outbox', central')
  BY <1>e, <1>1 DEF IsWord, Word, RowWill, Will
<1> QED BY <1>a, <1>d, <1>1, Carries

\* Questions that a window will hear bring v, and there is one.
LEMMA ComesAll ==
    ASSUME NEW s, NEW v, NEW m, NEW p,
           \A j \in 1..Len(s) : Heard(s[j], p) => Brings(s, j, v, m),
           \E j \in 1..Len(s) : Heard(s[j], p)
    PROVE  Comes(s, v, m, p)
  BY DEF Comes

\* A window mounts where no other hears: its question brings what is under way,
\* or, with nothing under way, its save brings what was stored.
LEMMA MountComes ==
    ASSUME NEW s \in Seq(Call), NEW w \in Windows, NEW v, NEW m, NEW p,
           Loaded \in Hours, p[w] # None,
           \A j \in 1..Len(s) : ~Heard(s[j], p),
           \/ LiteWill(s, Len(s), v, m)
           \/ s = <<>> /\ m = None /\ Loaded = v /\ Loaded \notin Refused
    PROVE  Comes(Append(Append(s, Get(w)), Save(w, Loaded)), v, m, p)
<1> DEFINE g == Get(w)
           c == Save(w, Loaded)
           a == Append(s, g)
           b == Append(a, c)
<1>a. g \in Call /\ c \in Call
  BY SentFormed DEF Formed
<1>b. /\ g.at = "sent" /\ g.op = "get" /\ Heard(g, p)
      /\ c.at = "sent" /\ c.op = "save" /\ c.hours = Loaded /\ ~Heard(c, p)
  BY DEF Get, Save, Heard, Wait
<1> HIDE DEF g, c
<1>c. /\ a \in Seq(Call) /\ Len(s) \in Nat /\ Len(a) = Len(s) + 1 /\ a[Len(s) + 1] = g
      /\ \A j \in 1..Len(s) : a[j] = s[j]
      /\ \A j \in 1..Len(a) : j \in 1..Len(s) \/ j = Len(s) + 1
  BY <1>a, Appended
<1> HIDE DEF a
<1>d. /\ Len(b) = Len(a) + 1 /\ b[Len(a) + 1] = c
      /\ \A j \in 1..Len(a) : b[j] = a[j]
      /\ \A j \in 1..Len(b) : j \in 1..Len(a) \/ j = Len(a) + 1
  BY <1>a, <1>c, Appended
<1>e. Len(a) \in 1..Len(a)
  BY <1>c
<1>f. \A j \in 1..Len(a) : Heard(a[j], p) => j = Len(a)
  BY <1>c
<1>g. \A x : LiteWill(s, Len(s), x, m) => Brings(a, Len(a), x, m)
  <2>1. ~Unsaved(g, {"sent"})
    BY <1>b DEF Unsaved
  <2>2. ASSUME NEW x, LiteWill(s, Len(s), x, m) PROVE LiteWill(a, Len(a), x, m)
    <3>1. (m = x) \in BOOLEAN /\ a = Append(s, g)
      BY DEF a
    <3>2. Will(s, Len(s), {"sent"}, x, m = x)
      BY <2>2 DEF LiteWill
    <3>3. Will(Append(s, g), Len(s) + 1, {"sent"}, x, m = x)
      BY <1>a, <2>1, <3>1, <3>2, WillAppend
    <3> QED BY <1>c, <3>1, <3>3 DEF LiteWill
  <2> QED BY <1>b, <1>c, <2>2 DEF Brings
<1>1. CASE LiteWill(s, Len(s), v, m)
  <2>1. \A j \in 1..Len(a) : Heard(a[j], p) => Brings(b, j, v, m)
    BY <1>1, <1>a, <1>c, <1>f, <1>g, BringsJoin
  <2>2. \A j \in 1..Len(b) : Heard(b[j], p) => Brings(b, j, v, m)
    BY <1>b, <1>d, <2>1
  <2>3. Len(a) \in 1..Len(b) /\ Heard(b[Len(a)], p)
    BY <1>b, <1>c, <1>d, <1>e
  <2> HIDE DEF b
  <2>4. Comes(b, v, m, p)
    BY <2>2, <2>3, ComesAll
  <2> QED BY <2>4 DEF a, b, c, g
<1>2. CASE s = <<>> /\ m = None /\ Loaded = v /\ Loaded \notin Refused
  <2>1. LiteWill(s, Len(s), None, m)
    <3>1. Len(s) = 0
      BY <1>2
    <3> QED BY <1>2, <3>1 DEF LiteWill, Will
  <2>2. \A j \in 1..Len(a) : Heard(a[j], p) => Brings(a, j, c.hours, m) \/ Brings(a, j, None, m)
    BY <1>f, <1>g, <2>1
  <2>3. Unsaved(c, {"sent"})
    BY <1>2, <1>b DEF Unsaved
  <2>4. Comes(b, c.hours, m, p)
    BY <1>a, <1>b, <1>c, <2>2, <2>3, ComesSave DEF b
  <2> QED BY <1>2, <1>b, <2>4 DEF a, b, c, g
<1> QED BY <1>1, <1>2

\* It brings its own word, if that can be taken; if not, another stays, or the answer
\* that the window waits for will mend it.
LEMMA MountOrder ==
    ASSUME NEW s \in Seq(Call), NEW w \in Windows, NEW m, NEW rows, NEW pg,
           Loaded \in Hours, Line(s, rows)
    PROVE  LET b == Append(Append(s, Get(w)), Save(w, Loaded))
           IN  /\ b \in Seq(Call) /\ Line(b, rows)
               /\ Loaded \notin Refused => Word(b, Loaded, m, rows, pg)
               /\ Loaded \in Refused => \A v : Word(s, v, m, rows, pg) => Word(b, v, m, rows, pg)
               /\ AsksFilled(s, m) => AsksFilled(b, m)
               /\ Filled(s, Len(s), m) \/ Loaded \notin Refused => Filled(b, Len(b), m)
<1> DEFINE g == Get(w)
           c == Save(w, Loaded)
           a == Append(s, g)
           b == Append(a, c)
<1>a. g \in Call /\ c \in Call
  BY SentFormed DEF Formed
<1>b. /\ g.at = "sent" /\ g.by # "migration" /\ ~Unsaved(g, {"sent"})
      /\ c.at = "sent" /\ c.op = "save" /\ c.hours = Loaded
      /\ Unsaved(c, {"sent"}) <=> Loaded \notin Refused
  BY DEF Get, Save, Windows, Unsaved
<1> HIDE DEF g, c
<1>1. a \in Seq(Call) /\ Line(a, rows)
  BY <1>a, <1>b, Appended, LineJoin
<1>2. \A v : Word(s, v, m, rows, pg) => Word(a, v, m, rows, pg)
  BY <1>a, <1>b, WordJoin
<1>3. /\ AsksFilled(s, m) => AsksFilled(a, m)
      /\ Filled(s, Len(s), m) => Filled(a, Len(a), m)
  BY <1>a, <1>b, AsksJoin
<1> HIDE DEF a
<1>4. b \in Seq(Call) /\ Line(b, rows)
  BY <1>a, <1>b, <1>1, Appended, LineJoin
<1>5. Loaded \notin Refused => Word(b, Loaded, m, rows, pg)
  BY <1>a, <1>b, <1>1, WordJoin
<1>6. ASSUME Loaded \in Refused, NEW v, Word(s, v, m, rows, pg) PROVE Word(b, v, m, rows, pg)
  BY <1>a, <1>b, <1>1, <1>2, <1>6, WordJoin
<1>7. /\ AsksFilled(a, m) => AsksFilled(b, m)
      /\ Filled(a, Len(a), m) \/ Loaded \notin Refused => Filled(b, Len(b), m)
  BY <1>a, <1>b, <1>1, AsksJoin
<1> HIDE DEF b
<1>8. /\ b \in Seq(Call) /\ Line(b, rows)
      /\ Loaded \notin Refused => Word(b, Loaded, m, rows, pg)
      /\ Loaded \in Refused => \A v : Word(s, v, m, rows, pg) => Word(b, v, m, rows, pg)
      /\ AsksFilled(s, m) => AsksFilled(b, m)
      /\ Filled(s, Len(s), m) \/ Loaded \notin Refused => Filled(b, Len(b), m)
  BY <1>3, <1>4, <1>5, <1>6, <1>7
<1> QED BY <1>8 DEF a, b, c, g

LEMMA NothingSent ==
    ASSUME NEW rows, NEW m
    PROVE  <<>> \in Seq(Call) /\ Len(<<>>) = 0 /\ Line(<<>>, rows) /\ AsksFilled(<<>>, m)
<1>1. <<>> \in Seq(Call) /\ Len(<<>>) = 0
  OBVIOUS
<1> QED BY <1>1 DEF Line, InLine, RowsWait, AsksFilled

LEMMA LaunchOrder ==
    ASSUME HoursTyped, OneWindow, Launches
    PROVE  /\ Ordered'
           /\ chosen # None /\ "reread" \notin odd' /\ ChosenComes =>
                 Comes(calls', chosen', lite', page') /\ Asked'
<1> DEFINE b == Append(Append(<<>>, Get("splash")), Save("splash", Loaded))
           g == Get("migration")
<1>a. OthersTyped /\ Loaded \in Hours /\ None \notin Hours /\ {"splash", "main"} = Windows
  BY TypedParts, LoadedType, WorkHoursAssumption DEF Windows
<1>b. /\ calls = <<>> /\ page' = [page EXCEPT !["splash"] = Loaded]
      /\ UNCHANGED <<lite, outbox, central, chosen>>
      /\ calls' = b \/ calls' = Append(b, g)
  <2>1. Mounts("splash") = b
    BY <1>a, FirstMounts
  <2> QED BY <2>1, <1>a DEF Launches, Loads, OneWindow
<1>c. page'["splash"] # None /\ page'["main"] = None
  BY <1>a, <1>b DEF Launches, Off, OthersTyped
<1>d. /\ g \in Call /\ g.at = "sent" /\ g.op = "get" /\ g.by = "migration"
      /\ ~Unsaved(g, {"sent"})
      /\ \A p : ~Heard(g, p)
  BY <1>a, SentFormed DEF Formed, Get, Heard, Wait, Unsaved
<1>1. /\ b \in Seq(Call) /\ Line(b, outbox) /\ AsksFilled(b, lite)
      /\ Loaded \notin Refused => Word(b, Loaded, lite, outbox, central)
      /\ Loaded \notin Refused => Filled(b, Len(b), lite)
  BY <1>a, NothingSent, MountOrder
<1>2. ASSUME Loaded \in Refused PROVE Mends(b, lite)
  <2>1. /\ Mounts("splash") = b /\ Len(Mounts("splash")) = 2
        /\ Mounts("splash")[1] = Get("splash") /\ Mounts("splash")[2] = Save("splash", Loaded)
    BY <1>a, FirstMounts, MountsFormed
  <2> HIDE DEF b
  <2>2. Len(b) = 2 /\ b[1] = Get("splash") /\ b[2] = Save("splash", Loaded)
    BY <2>1
  <2>3. /\ b[1].op = "get" /\ b[1].by = "splash" /\ b[1].at = "sent"
        /\ b[2].op = "save" /\ b[2].hours = Loaded
    BY <2>2 DEF Get, Save
  <2>4. \A j \in 1..Len(b) : j = 1 \/ j = 2
    BY <2>2
  <2>5. Unsent(b)
    BY <1>2, <2>3, <2>4 DEF Unsent
  <2>6. Waits(b)
    <3>1. 1 \in 1..Len(b)
      BY <2>2
    <3> QED BY <1>a, <2>3, <3>1 DEF Waits, Wait
  <2>7. Reads(b, lite)
    BY <2>3, <2>4 DEF Reads, Wait
  <2> QED BY <2>5, <2>6, <2>7 DEF Mends
<1> HIDE DEF b, g
<1>3. Ordered'
  <2>1. Line(calls', outbox)
    BY <1>b, <1>d, <1>1, LineJoin
  <2>2. ~InMain'
    BY <1>c DEF InMain
  <2>3. CASE Loaded \notin Refused
    <3>1. Word(calls', Loaded, lite, outbox, central)
      BY <1>b, <1>d, <1>1, <2>3, WordJoin
    <3> QED BY <1>a, <1>b, <2>1, <2>2, <3>1, Given DEF MaybeHours
  <2>4. CASE Loaded \in Refused
    <3>1. Mends(calls', lite)
      BY <1>b, <1>d, <1>1, <1>2, <2>4, MendsJoin
    <3> QED BY <1>b, <2>1, <2>2, <3>1 DEF Ordered, MainWord, SplashWord
  <2> QED BY <2>3, <2>4
<1>4. ASSUME chosen # None, "reread" \notin odd', ChosenComes
      PROVE  Comes(calls', chosen, lite, page') /\ Asked'
  <2>1. \/ LiteWill(<<>>, Len(<<>>), chosen, lite) /\ lite # None
        \/ lite = None /\ Loaded = chosen /\ Loaded \notin Refused
    <3>1. CASE Comes(calls, chosen, lite, page)
      <4>1. LiteWill(<<>>, Len(<<>>), chosen, lite)
        BY <1>b, <3>1 DEF Comes
      <4>2. lite = chosen
        BY <4>1, NothingSent DEF LiteWill, Will
      <4> QED BY <1>4, <4>1, <4>2
    <3>2. CASE lite = None /\ stored = chosen
      <4>1. Loaded = stored
        BY <1>4, <3>2 DEF Launches, IsOdd
      <4>2. chosen \notin Refused
        BY <1>4, <1>a DEF OthersTyped, MaybeTaken, Taken
      <4> QED BY <3>2, <4>1, <4>2
    <3> QED BY <1>4, <3>1, <3>2 DEF ChosenComes
  <2>2. \A j \in 1..Len(<<>>) : ~Heard(<<>>[j], page')
    OBVIOUS
  <2>3. Comes(b, chosen, lite, page')
    BY <1>a, <1>c, <2>1, <2>2, NothingSent, MountComes DEF b
  <2>4. Comes(Append(b, g), chosen, lite, page')
    BY <1>d, <1>1, <2>3, ComesJoin
  <2>5. Filled(b, Len(b), lite)
    BY <1>1, <2>1 DEF Filled
  <2>6. AsksFilled(calls', lite) /\ Filled(calls', Len(calls'), lite)
    BY <1>b, <1>d, <1>1, <2>5, AsksJoin
  <2> QED BY <1>b, <2>3, <2>4, <2>6 DEF Asked
<1> QED BY <1>b, <1>3, <1>4

LEMMA OpenOrder ==
    ASSUME HoursTyped, OneWindow, Guided, InOrder', Opens
    PROVE  /\ Ordered => Ordered'
           /\ Comes(calls, chosen, lite, page) => Comes(calls', chosen', lite', page')
           /\ Asked => Asked'
<1> DEFINE b == Append(Append(calls, Get("main")), Save("main", Loaded))
<1>a. OthersTyped /\ Loaded \in Hours /\ None \notin Hours /\ {"splash", "main"} = Windows
  BY TypedParts, LoadedType, WorkHoursAssumption DEF Windows
<1>b. /\ page' = [splash |-> None, main |-> Loaded] /\ stored' = Loaded
      /\ UNCHANGED <<lite, outbox, central, chosen>>
      /\ ~Asking("splash") /\ boot = "finish"
  BY DEF Opens, IsOdd, InOrder
<1>c. calls' = b /\ calls \in Seq(Call) /\ DOMAIN calls = 1..Len(calls)
  BY <1>a, CallsShape, MountsAre DEF Opens
<1>d. page["main"] = None /\ NoneBy(calls, "main") /\ page'["main"] # None /\ page'["splash"] = None
  BY <1>a, <1>b DEF Guided, InMain
<1>e. \A j \in 1..Len(calls) : ~Heard(calls[j], page) /\ ~Heard(calls[j], page')
  BY <1>a, <1>b, <1>c, <1>d DEF Heard, Wait, Asking, NoneBy
<1>f. ~Off /\ ~InMain
  BY <1>b, <1>d DEF OneWindow, InMain
<1>1. ASSUME Ordered PROVE Ordered'
  <2>1. /\ Line(b, outbox)
        /\ Loaded \notin Refused => Word(b, Loaded, lite, outbox, central)
        /\ Loaded \in Refused => \A v : IsWord(v) => Word(b, v, lite, outbox, central)
    BY <1>1, <1>a, <1>c, MountOrder DEF Ordered, IsWord
  <2> HIDE DEF b
  <2>2. CASE Loaded \notin Refused
    BY <1>a, <1>b, <1>c, <2>1, <2>2, Given DEF MaybeHours
  <2>3. CASE Loaded \in Refused
    <3>1. ~Mends(calls, lite)
      BY <1>b, <1>c DEF Mends, Waits, Asking
    <3>2. PICK v \in MaybeHours : IsWord(v)
      BY <1>1, <1>f, <3>1 DEF Ordered, SplashWord
    <3> QED BY <1>b, <1>c, <2>1, <2>3, <3>2, Given
  <2> QED BY <2>2, <2>3
<1>2. ASSUME Comes(calls, chosen, lite, page) PROVE Comes(b, chosen, lite, page')
  <2>1. LiteWill(calls, Len(calls), chosen, lite)
    BY <1>2, <1>e DEF Comes
  <2> QED BY <1>a, <1>c, <1>d, <1>e, <2>1, MountComes
<1>3. ASSUME Asked PROVE Asked'
  <2>1. AsksFilled(calls, lite) /\ Filled(calls, Len(calls), lite)
    BY <1>3, <1>f DEF Asked
  <2>2. AsksFilled(b, lite) /\ Filled(b, Len(b), lite)
    <3>1. /\ AsksFilled(calls, lite) => AsksFilled(b, lite)
          /\ Filled(calls, Len(calls), lite) \/ Loaded \notin Refused => Filled(b, Len(b), lite)
      <4> DEFINE g == Get("main")
                 c == Save("main", Loaded)
      <4>1. /\ g \in Call /\ g.at = "sent" /\ g.by # "migration"
            /\ c \in Call /\ c.at = "sent" /\ c.by # "migration"
        BY <1>a, SentFormed DEF Formed, Get, Save
      <4> HIDE DEF g, c
      <4>2. Append(calls, g) \in Seq(Call)
        BY <1>c, <4>1, Appended
      <4>3. AsksFilled(Append(calls, g), lite) /\ Filled(Append(calls, g), Len(Append(calls, g)), lite)
        BY <1>c, <2>1, <4>1, AsksJoin
      <4>4. /\ AsksFilled(Append(Append(calls, g), c), lite)
            /\ Filled(Append(Append(calls, g), c), Len(Append(Append(calls, g), c)), lite)
        BY <4>1, <4>2, <4>3, AsksJoin
      <4> QED BY <4>4 DEF g, c
    <3> QED BY <2>1, <3>1
  <2> QED BY <1>b, <1>c, <2>2 DEF Asked
<1> HIDE DEF b
<1> QED BY <1>b, <1>c, <1>1, <1>2, <1>3

LEMMA EndOrder ==
    ASSUME HoursTyped, Ends
    PROVE  /\ Ordered' /\ Asked'
           /\ "crash" \notin odd' /\ Comes(calls, chosen, lite, page) => Comes(calls', chosen', lite', page')
<1>1. calls' = <<>> /\ page' = [w \in Windows |-> None] /\ UNCHANGED <<lite, chosen>>
  BY DEF Ends
<1>2. Off' /\ ~InMain'
  BY <1>1 DEF Off, InMain, Windows
<1>3. Ordered' /\ Asked'
  BY <1>1, <1>2, NothingSent DEF Ordered, MainWord, SplashWord, Asked
<1>4. ASSUME "crash" \notin odd', Comes(calls, chosen, lite, page) PROVE Comes(<<>>, chosen, lite, page')
  <2>1. calls = <<>>
    BY <1>4 DEF Ends, IsOdd, Settled
  <2>2. Len(<<>>) = 0
    OBVIOUS
  <2> QED BY <1>4, <2>1, <2>2 DEF Comes
<1> QED BY <1>1, <1>3, <1>4

\* A person sends hours that can be taken, from a window that waits for no answer.
LEMMA SendOrder ==
    ASSUME NEW s \in Seq(Call), NEW w \in {"main", "wizard"}, NEW h \in Hours, h \notin Refused,
           NEW rows, NEW m, NEW pg, NEW p, Line(s, rows)
    PROVE  LET t == Append(s, Save(w, h))
           IN  /\ Line(t, rows) /\ Filled(t, Len(t), m) /\ Word(t, h, m, rows, pg)
               /\ NoneBy(s, "migration") => AsksFilled(t, m)
               /\ (\A j \in 1..Len(s) : ~Heard(s[j], p)) => Comes(t, h, m, p)
<1> DEFINE c == Save(w, h)
<1>a. /\ c \in Call /\ c.op = "save" /\ c.at = "sent" /\ c.hours = h /\ c.by # "migration"
      /\ Unsaved(c, {"sent"})
  BY SentFormed DEF Formed, Save, Windows, Unsaved
<1> HIDE DEF c
<1>1. Line(Append(s, c), rows)
  BY <1>a, LineJoin
<1>2. Word(Append(s, c), h, m, rows, pg)
  BY <1>a, WordJoin
<1>3. ASSUME \A j \in 1..Len(s) : ~Heard(s[j], p) PROVE Comes(Append(s, c), c.hours, m, p)
  BY <1>a, <1>3, ComesSave
<1>4. Filled(Append(s, c), Len(Append(s, c)), m)
  BY <1>a, AsksJoin
<1>5. ASSUME NoneBy(s, "migration") PROVE AsksFilled(Append(s, c), m)
  <2>1. AsksFilled(s, m)
    BY <1>5 DEF NoneBy, AsksFilled
  <2> QED BY <1>a, <2>1, AsksJoin
<1> QED BY <1>a, <1>1, <1>2, <1>3, <1>4, <1>5 DEF c

\* A person sends hours that will be refused.
LEMMA RefusedOrder ==
    ASSUME NEW s \in Seq(Call), NEW w \in {"main", "wizard"}, NEW h \in Hours, h \in Refused,
           NEW rows, NEW m, NEW pg, NEW p, Line(s, rows)
    PROVE  LET t == Append(s, Save(w, h))
           IN  /\ Line(t, rows)
               /\ \A v : Word(s, v, m, rows, pg) => Word(t, v, m, rows, pg)
               /\ Mends(s, m) => Mends(t, m)
               /\ \A v : Comes(s, v, m, p) => Comes(t, v, m, p)
               /\ AsksFilled(s, m) => AsksFilled(t, m)
               /\ Filled(s, Len(s), m) => Filled(t, Len(t), m)
<1> DEFINE c == Save(w, h)
<1>a. /\ c \in Call /\ c.op = "save" /\ c.at = "sent" /\ c.by # "migration"
      /\ ~Unsaved(c, {"sent"}) /\ ~Heard(c, p)
  BY SentFormed DEF Formed, Save, Windows, Unsaved, Heard, Wait
<1> HIDE DEF c
<1>1. Line(Append(s, c), rows)
  BY <1>a, LineJoin
<1>2. \A v : Word(s, v, m, rows, pg) => Word(Append(s, c), v, m, rows, pg)
  BY <1>a, WordJoin
<1>3. Mends(s, m) => Mends(Append(s, c), m)
  BY <1>a, MendsJoin
<1>4. \A v : Comes(s, v, m, p) => Comes(Append(s, c), v, m, p)
  BY <1>a, ComesJoin
<1>5. /\ AsksFilled(s, m) => AsksFilled(Append(s, c), m)
      /\ Filled(s, Len(s), m) => Filled(Append(s, c), Len(Append(s, c)), m)
  BY <1>a, AsksJoin
<1> QED BY <1>1, <1>2, <1>3, <1>4, <1>5 DEF c

LEMMA ContinueOrder ==
    ASSUME HoursTyped, OneWindow, Guided, InOrder', NEW h \in Hours, HoursContinue(h), Ordered
    PROVE  /\ Ordered'
           /\ chosen' # chosen => Comes(calls', chosen', lite', page') /\ Asked'
           /\ chosen' = chosen /\ Comes(calls, chosen, lite, page) /\ Asked =>
                 Comes(calls', chosen', lite', page') /\ Asked'
<1>a. calls \in Seq(Call) /\ DOMAIN calls = 1..Len(calls) /\ Line(calls, outbox)
  BY CallsShape DEF Ordered
<1>b. /\ calls' = Append(calls, Save("wizard", h))
      /\ chosen' = IF h \in Refused THEN chosen ELSE h
      /\ UNCHANGED <<page, stored, lite, outbox, central>>
      /\ ~Asking("splash") /\ step = "hours"
  BY DEF HoursContinue, Chooses, IsOdd, InOrder, copies, windows
<1>c. page["main"] = None /\ NoneBy(calls, "migration")
  BY <1>b DEF Guided, InMain
<1>d. \A j \in 1..Len(calls) : ~Heard(calls[j], page)
  BY <1>a, <1>b, <1>c DEF Heard, Wait, Asking, Windows
<1>e. ~InMain' /\ ~Off
  BY <1>b, <1>c DEF InMain, OneWindow
<1>f. Off' <=> Off
  BY <1>b DEF Off
<1>1. CASE h \notin Refused
  <2>1. /\ Line(calls', outbox) /\ Filled(calls', Len(calls'), lite) /\ Word(calls', h, lite, outbox, central)
        /\ AsksFilled(calls', lite) /\ Comes(calls', h, lite, page)
    BY <1>1, <1>a, <1>b, <1>c, <1>d, SendOrder
  <2>2. Ordered'
    BY <1>b, <1>e, <2>1, Given DEF MaybeHours
  <2> QED BY <1>1, <1>b, <2>1, <2>2 DEF Asked
<1>2. CASE h \in Refused
  <2>1. /\ Line(calls', outbox)
        /\ \A v : Word(calls, v, lite, outbox, central) => Word(calls', v, lite, outbox, central)
        /\ Mends(calls, lite) => Mends(calls', lite)
        /\ Comes(calls, chosen, lite, page) => Comes(calls', chosen, lite, page)
        /\ AsksFilled(calls, lite) => AsksFilled(calls', lite)
        /\ Filled(calls, Len(calls), lite) => Filled(calls', Len(calls'), lite)
    BY <1>2, <1>a, <1>b, RefusedOrder
  <2>2. Ordered'
    BY <1>b, <2>1, Carries DEF IsWord
  <2> QED BY <1>2, <1>b, <1>f, <2>1, <2>2 DEF Asked
<1> QED BY <1>1, <1>2

LEMMA EditOrder ==
    ASSUME HoursTyped, OneWindow, Guided, InOrder', NEW h \in Hours, Edits(h), Ordered
    PROVE  /\ Ordered'
           /\ chosen' # chosen => Comes(calls', chosen', lite', page') /\ Asked'
           /\ chosen' = chosen /\ Comes(calls, chosen, lite, page) =>
                 Comes(calls', chosen', lite', page')
           /\ chosen' = chosen /\ Asked => Asked'
<1>a. /\ calls \in Seq(Call) /\ DOMAIN calls = 1..Len(calls) /\ OthersTyped /\ {"splash", "main"} = Windows
      /\ Line(calls, outbox)
  BY CallsShape, TypedParts DEF Windows, Ordered
<1>b. /\ calls' = Append(calls, Save("main", h)) /\ stored' = h
      /\ chosen' = IF h \in Refused THEN chosen ELSE h
      /\ page' = [page EXCEPT !["main"] = h] /\ page["main"] # None
      /\ UNCHANGED <<lite, outbox, central>>
      /\ ~Asking("main")
  BY DEF Edits, Keeps, Chooses, IsOdd, InOrder
<1>c. page["splash"] = None /\ page'["splash"] = None
  BY <1>a, <1>b DEF OneWindow, OthersTyped
<1>d. \A j \in 1..Len(calls) : ~Heard(calls[j], page') /\ ~Heard(calls[j], page)
  BY <1>a, <1>b, <1>c DEF Heard, Wait, Asking
<1>e. InMain /\ ~Off /\ NoneBy(calls, "migration")
  BY <1>a, <1>b DEF InMain, Off, Guided
<1>1. CASE h \notin Refused
  <2>1. /\ Line(calls', outbox) /\ Filled(calls', Len(calls'), lite) /\ Word(calls', h, lite, outbox, central)
        /\ AsksFilled(calls', lite) /\ Comes(calls', h, lite, page')
    BY <1>1, <1>a, <1>b, <1>d, <1>e, SendOrder
  <2>2. Ordered'
    BY <1>b, <2>1, Given DEF MaybeHours
  <2> QED BY <1>1, <1>b, <2>1, <2>2 DEF Asked
<1>2. CASE h \in Refused
  <2>1. /\ Line(calls', outbox)
        /\ \A v : Word(calls, v, lite, outbox, central) => Word(calls', v, lite, outbox, central)
        /\ Comes(calls, chosen, lite, page') => Comes(calls', chosen, lite, page')
        /\ AsksFilled(calls, lite) => AsksFilled(calls', lite)
        /\ Filled(calls, Len(calls), lite) => Filled(calls', Len(calls'), lite)
    BY <1>2, <1>a, <1>b, RefusedOrder
  <2>2. Ordered'
    <3>1. PICK v \in MaybeHours : IsWord(v)
      BY <1>e DEF Ordered, MainWord
    <3> QED BY <1>2, <1>b, <2>1, <3>1, Given DEF IsWord
  <2>3. Comes(calls, chosen, lite, page) => Comes(calls, chosen, lite, page')
    BY <1>d DEF Comes
  <2>4. ASSUME Asked PROVE Asked'
    BY <2>4, <1>b, <1>e, <2>1 DEF Asked
  <2> QED BY <1>2, <1>b, <2>1, <2>2, <2>3, <2>4
<1> QED BY <1>1, <1>2

-----------------------------------------------------------------------------
(* An empty mirror.                                                         *)

LEMMA StillJoin ==
    ASSUME NEW s \in Seq(Call), Still(s), NEW c \in Call, c.at = "sent"
    PROVE  Still(Append(s, c))
  BY Appended DEF Still

LEMMA StillQuit ==
    ASSUME NEW s \in Seq(Call), Still(s), NEW i \in 1..Len(s)
    PROVE  Still(RemoveAt(s, i))
  BY Removed DEF Still

LEMMA StillMounts ==
    ASSUME NEW s \in Seq(Call), Still(s), NEW w \in Windows, Loaded \in Hours
    PROVE  Still(Append(Append(s, Get(w)), Save(w, Loaded)))
<1>1. Get(w) \in Call /\ Save(w, Loaded) \in Call
  BY SentFormed DEF Formed
<1>2. Get(w).at = "sent" /\ Save(w, Loaded).at = "sent"
  BY DEF Get, Save
<1>3. Append(s, Get(w)) \in Seq(Call) /\ Still(Append(s, Get(w)))
  BY <1>1, <1>2, Appended, StillJoin
<1> QED BY <1>1, <1>2, <1>3, StillJoin

LEMMA StillStep ==
    ASSUME HoursTyped, OneWindow, Guided, [HoursNext]_hoursVars,
           lite = None, lite' = None, outbox = <<>>, central = None, Still(calls)
    PROVE  outbox' = <<>> /\ central' = None /\ Still(calls')
<1>a. calls \in Seq(Call) /\ Loaded \in Hours /\ None \notin Hours /\ {"splash", "main"} = Windows
  BY CallsShape, TypedParts, LoadedType, WorkHoursAssumption DEF Windows
<1>b. \A b \in Windows \cup {"wizard", "migration"} :
         /\ Get(b) \in Call /\ Get(b).at = "sent"
         /\ \A h \in Hours : Save(b, h) \in Call /\ Save(b, h).at = "sent"
  BY SentFormed DEF Formed, Get, Save
<1>1. CASE Rests
  BY <1>1 DEF Rests, Others
<1>2. CASE AsksMirror
  <2>1. Still(calls')
    BY <1>2, <1>a, <1>b, StillJoin DEF AsksMirror
  <2> QED BY <1>2, <2>1 DEF AsksMirror, Others
<1>3. CASE Launches
  <2> DEFINE b == Append(Append(<<>>, Get("splash")), Save("splash", Loaded))
  <2>1. Mounts("splash") = b /\ Mounts("splash") \in Seq(Call)
    BY <1>a, FirstMounts, MountsFormed DEF CallsFormed
  <2>2. Still(<<>>) /\ <<>> \in Seq(Call)
    BY DEF Still
  <2>3. Still(b)
    BY <1>a, <2>2, StillMounts
  <2> HIDE DEF b
  <2>4. Still(calls')
    BY <1>3, <1>b, <2>1, <2>3, StillJoin DEF Launches, Loads
  <2> QED BY <1>3, <2>4 DEF Launches
<1>4. CASE Replays
  <2>1. Len(outbox) = 0 /\ replay \in 0..Len(outbox)
    BY TypedParts DEF OthersTyped
  <2> QED BY <1>4, <2>1 DEF Replays
<1>5. CASE Opens
  <2>1. Still(calls')
    BY <1>5, <1>a, MountsAre, StillMounts DEF Opens
  <2> QED BY <1>5, <2>1 DEF Opens
<1>6. CASE Ends
  BY <1>6 DEF Ends, Still
<1>7. ASSUME NEW h \in Hours, HoursContinue(h) \/ Edits(h)
      PROVE  outbox' = <<>> /\ central' = None /\ Still(calls')
  <2>1. calls' = Append(calls, Save("wizard", h)) \/ calls' = Append(calls, Save("main", h))
    BY <1>7 DEF HoursContinue, Edits, Keeps
  <2>2. Still(calls')
    BY <2>1, <1>a, <1>b, StillJoin
  <2> QED BY <1>7, <2>2 DEF HoursContinue, Edits, copies
<1>8. ASSUME NEW i \in 1..Len(calls),
             \/ ReadsHours(i) \/ ReadFails(i) \/ Answers(i) \/ Migrates(i)
             \/ SavesLocal(i) \/ Drops(i) \/ Queues(i) \/ Upserts(i)
      PROVE  outbox' = <<>> /\ central' = None /\ Still(calls')
  <2>a. calls[i] \in Call /\ Formed(calls[i])
    BY UnderWay
  <2>b. Still(RemoveAt(calls, i)) /\ RemoveAt(calls, i) \in Seq(Call)
    BY <1>a, StillQuit, Removed
  <2>1. CASE ReadsHours(i) \/ ReadFails(i)
    <3>1. PICK c \in Call : calls' = [calls EXCEPT ![i] = c] /\ c.op = "get"
      <4>1. CASE ReadsHours(i)
        <5>1. calls[i].op = "get" /\ calls' = [calls EXCEPT ![i] = [calls[i] EXCEPT !.hours = lite, !.at = "read"]]
          BY <4>1 DEF ReadsHours, Steps, Stands
        <5>2. [calls[i] EXCEPT !.hours = lite, !.at = "read"] \in Call
          BY <2>a, StagesAre DEF Call
        <5>3. [calls[i] EXCEPT !.hours = lite, !.at = "read"].op = "get"
          BY <2>a, <5>1 DEF Call
        <5> QED BY <5>1, <5>2, <5>3
      <4>2. CASE ReadFails(i)
        <5>1. calls[i].op = "get" /\ calls' = [calls EXCEPT ![i] = [calls[i] EXCEPT !.at = "read"]]
          BY <4>2 DEF ReadFails, Stands
        <5>2. [calls[i] EXCEPT !.at = "read"] \in Call
          BY <2>a, StagesAre DEF Call
        <5>3. [calls[i] EXCEPT !.at = "read"].op = "get"
          BY <2>a, <5>1 DEF Call
        <5> QED BY <5>1, <5>2, <5>3
      <4> QED BY <2>1, <4>1, <4>2
    <3>2. Still(calls')
      BY <1>a, <3>1, Changed DEF Still
    <3> QED BY <2>1, <3>2 DEF ReadsHours, ReadFails, copies
  <2>2. CASE Answers(i)
    <3>1. calls' = RemoveAt(calls, i) \/ \E h \in Hours, w \in Windows : calls' = Append(RemoveAt(calls, i), Save(w, h))
      <4>1. calls[i].by \in Windows /\ calls[i].hours \in Hours \cup {None}
        BY <2>2, <2>a DEF Answers, Wait, Call
      <4> QED BY <2>2, <4>1 DEF Answers, Keeps
    <3>2. Still(calls')
      BY <3>1, <2>b, <1>b, StillJoin
    <3> QED BY <2>2, <3>2 DEF Answers
  <2>3. CASE Migrates(i)
    <3>1. calls' = RemoveAt(calls, i) \/ calls' = Append(RemoveAt(calls, i), Save("migration", Loaded))
      BY <2>3 DEF Migrates
    <3>2. Still(calls')
      BY <3>1, <2>b, <1>a, <1>b, StillJoin
    <3> QED BY <2>3, <3>2 DEF Migrates, copies
  <2>4. CASE SavesLocal(i)
    <3>1. calls[i].hours = None /\ calls[i].op = "save"
      BY <2>4 DEF SavesLocal, Steps, Stands
    <3> QED BY <3>1, <2>a, <1>a DEF Formed
  <2>5. CASE Drops(i)
    BY <2>5, <2>b DEF Drops, Returns, copies
  <2>6. CASE Queues(i) \/ Upserts(i)
    BY <2>6 DEF Queues, Upserts, Steps, Stands, Still
  <2> QED BY <1>8, <2>1, <2>2, <2>3, <2>4, <2>5, <2>6
<1> QED BY <1>1, <1>2, <1>3, <1>4, <1>5, <1>6, <1>7, <1>8, StepKinds

LEMMA EmptyStays ==
    ASSUME HoursTyped, OneWindow, Guided, [HoursNext]_hoursVars, lite' = None
    PROVE  lite = None
<1>1. UNCHANGED lite \/ \E i \in 1..Len(calls) : SavesLocal(i)
  <2>1. Rests \/ AsksMirror => UNCHANGED lite
    BY DEF Rests, AsksMirror, Others
  <2>2. Launches \/ Replays \/ Opens \/ Ends => UNCHANGED lite
    BY DEF Launches, Replays, Opens, Ends
  <2>3. \A h \in Hours : HoursContinue(h) \/ Edits(h) => UNCHANGED lite
    BY DEF HoursContinue, Edits, copies
  <2>4. \A i \in 1..Len(calls) :
           ReadsHours(i) \/ ReadFails(i) \/ Answers(i) \/ Migrates(i)
           \/ Drops(i) \/ Queues(i) \/ Upserts(i) => UNCHANGED lite
    BY DEF ReadsHours, ReadFails, Answers, Migrates, Drops, Queues, Upserts, copies
  <2> QED BY <2>1, <2>2, <2>3, <2>4, StepKinds
<1>2. ASSUME NEW i \in 1..Len(calls), SavesLocal(i) PROVE FALSE
  <2>1. Formed(calls[i])
    BY UnderWay
  <2>2. calls[i].op = "save" /\ calls[i].hours = None
    BY <1>2 DEF SavesLocal, Steps, Stands
  <2> QED BY <2>1, <2>2, WorkHoursAssumption DEF Formed
<1> QED BY <1>1, <1>2

LEMMA BlankStep ==
    ASSUME HoursTyped, OneWindow, Guided, Blank, [HoursNext]_hoursVars
    PROVE  Blank'
  BY EmptyStays, StillStep DEF Blank

-----------------------------------------------------------------------------
(* The inductive invariant.                                                 *)

LEMMA HoursInvInit == HoursInit => HoursInv
<1> SUFFICES ASSUME HoursInit PROVE HoursInv
  OBVIOUS
<1>1. HoursTyped /\ OneWindow /\ Guided
  BY TypedInit, WindowInit, GuidedInit
<1>2. /\ calls = <<>> /\ Off /\ ~InMain /\ outbox = <<>> /\ central = lite
      /\ chosen # None => chosen = stored /\ lite \in {None, chosen}
  BY WorkHoursAssumption DEF HoursInit, Off, InMain, Windows
<1>3. Ordered
  BY <1>2, NothingSent DEF Ordered, MainWord, SplashWord
<1>4. ASSUME chosen # None PROVE ChosenComes
  <2>1. CASE lite = None
    BY <1>2, <1>4, <2>1 DEF ChosenComes
  <2>2. CASE lite = chosen
    <3>1. Len(<<>>) = 0
      OBVIOUS
    <3> QED BY <1>2, <2>2, <3>1 DEF ChosenComes, Comes, LiteWill, Will
  <2> QED BY <1>2, <1>4, <2>1, <2>2
<1>5. Asked
  BY <1>2, NothingSent DEF Asked
<1>6. Blank
  BY <1>2, NothingSent DEF Blank, Still
<1> QED BY <1>1, <1>3, <1>4, <1>5, <1>6 DEF HoursInv, Uncut

LEMMA HoursInvStep ==
    ASSUME HoursInv, [HoursNext]_hoursVars
    PROVE  HoursInv'
<1>a. HoursTyped /\ OneWindow /\ Guided /\ Blank
  BY DEF HoursInv
<1>b. HoursTyped' /\ OneWindow' /\ Guided' /\ Blank'
  BY <1>a, TypedStep, WindowStep, GuidedStep, BlankStep
<1>c. InOrder' => InOrder /\ Ordered
  BY OddGrows DEF InOrder, HoursInv
<1>d. Uncut' => InOrder' /\ "crash" \notin odd' /\ "reread" \notin odd' /\ chosen' # None
  BY DEF Uncut, InOrder
<1>e. Uncut' /\ chosen' = chosen => chosen # None /\ ChosenComes /\ Asked
  BY OddGrows DEF Uncut, HoursInv
<1>f. ~Off /\ ChosenComes => Comes(calls, chosen, lite, page)
  BY DEF ChosenComes
<1>l. Comes(calls', chosen', lite', page') => ChosenComes'
  BY DEF ChosenComes
<1> DEFINE Goal == (InOrder' => Ordered') /\ (Uncut' => ChosenComes' /\ Asked')
<1> SUFFICES Goal
  BY <1>b DEF HoursInv
<1>k. ASSUME chosen' = chosen, ~Off,
             InOrder' => Ordered',
             /\ InOrder' /\ Ordered /\ chosen # None
             /\ Comes(calls, chosen, lite, page) /\ Asked
             => Comes(calls', chosen', lite', page') /\ Asked'
      PROVE  Goal
  BY <1>k, <1>c, <1>d, <1>e, <1>f, <1>l
<1>1. CASE Rests
  <2>1. chosen' = chosen
    BY <1>1 DEF Rests, Others
  <2> QED BY <1>1, <2>1, <1>c, <1>e, RestOrder
<1>2. CASE AsksMirror
  <2>1. chosen' = chosen /\ ~Off
    BY <1>2 DEF AsksMirror, Others
  <2> QED BY <1>2, <2>1, <1>a, <1>c, <1>k, AskOrder
<1>3. CASE Launches
  <2>1. chosen' = chosen
    BY <1>3 DEF Launches
  <2> QED BY <1>3, <2>1, <1>a, <1>d, <1>e, <1>l, LaunchOrder
<1>4. CASE Replays
  <2>1. UNCHANGED <<calls, stored, lite, page, chosen>>
    BY <1>4 DEF Replays, windows
  <2>2. Off <=> Off'
    BY <2>1 DEF Off
  <2>3. (ChosenComes => ChosenComes') /\ (Asked => Asked')
    BY <2>1, <2>2 DEF ChosenComes, Asked
  <2>4. InOrder' => Ordered'
    BY <1>4, <1>a, <1>c, ReplayOrder
  <2> QED BY <2>1, <2>3, <2>4, <1>e
<1>5. CASE Opens
  <2>1. chosen' = chosen /\ ~Off
    BY <1>5, <1>a DEF Opens, OneWindow
  <2> QED BY <1>5, <2>1, <1>a, <1>c, <1>k, OpenOrder
<1>6. CASE Ends
  <2>1. chosen' = chosen /\ ~Off
    BY <1>6 DEF Ends
  <2>2. Ordered' /\ Asked'
    BY <1>6, <1>a, EndOrder
  <2>3. Uncut' => ChosenComes'
    BY <1>6, <2>1, <1>a, <1>d, <1>e, <1>f, <1>l, EndOrder
  <2> QED BY <2>2, <2>3
<1>7. ASSUME NEW h \in Hours, HoursContinue(h) PROVE Goal
  <2>1. ~Off
    BY <1>7, <1>a DEF HoursContinue, OneWindow
  <2>2. ASSUME InOrder'
        PROVE  /\ Ordered'
               /\ chosen' # chosen => Comes(calls', chosen', lite', page') /\ Asked'
               /\ chosen' = chosen /\ Comes(calls, chosen, lite, page) /\ Asked =>
                     Comes(calls', chosen', lite', page') /\ Asked'
    BY <1>7, <1>a, <1>c, <2>2, ContinueOrder
  <2>3. CASE chosen' = chosen
    BY <2>1, <2>2, <2>3, <1>k
  <2>4. CASE chosen' # chosen
    BY <2>2, <2>4, <1>d, <1>l
  <2> QED BY <2>3, <2>4
<1>8. ASSUME NEW h \in Hours, Edits(h) PROVE Goal
  <2>1. ~Off
    BY <1>8 DEF Edits, Off, Windows
  <2>2. ASSUME InOrder'
        PROVE  /\ Ordered'
               /\ chosen' # chosen => Comes(calls', chosen', lite', page') /\ Asked'
               /\ chosen' = chosen /\ Comes(calls, chosen, lite, page) /\ Asked =>
                     Comes(calls', chosen', lite', page') /\ Asked'
    BY <1>8, <1>a, <1>c, <2>2, EditOrder
  <2>3. CASE chosen' = chosen
    BY <2>1, <2>2, <2>3, <1>k
  <2>4. CASE chosen' # chosen
    BY <2>2, <2>4, <1>d, <1>l
  <2> QED BY <2>3, <2>4
<1>9. ASSUME NEW i \in 1..Len(calls),
             \/ ReadsHours(i) \/ ReadFails(i) \/ Answers(i) \/ Migrates(i)
             \/ SavesLocal(i) \/ Drops(i) \/ Queues(i) \/ Upserts(i)
      PROVE  Goal
  <2>1. chosen' = chosen
    BY <1>9 DEF ReadsHours, ReadFails, Answers, Migrates, SavesLocal, Drops, Queues, Upserts, hoursHistory
  <2>2. ~Off
    BY <1>a, UnderWay
  <2>3. CASE ReadsHours(i)
    BY <2>1, <2>2, <2>3, <1>a, <1>c, <1>k, ReadOrder
  <2>4. CASE ReadFails(i)
    <3>1. ~InOrder'
      BY <2>4 DEF ReadFails, IsOdd, InOrder
    <3> QED BY <3>1, <1>d
  <2>5. CASE Answers(i)
    BY <2>1, <2>2, <2>5, <1>a, <1>c, <1>k, AnswerOrder
  <2>6. CASE Migrates(i)
    BY <2>1, <2>2, <2>6, <1>a, <1>c, <1>k, MigrateOrder
  <2>7. CASE SavesLocal(i)
    BY <2>1, <2>2, <2>7, <1>a, <1>c, <1>k, LocalOrder
  <2>8. CASE Drops(i)
    BY <2>1, <2>2, <2>8, <1>a, <1>c, <1>k, DropOrder
  <2>9. CASE Queues(i)
    BY <2>1, <2>2, <2>9, <1>a, <1>c, <1>k, QueueOrder
  <2>10. CASE Upserts(i)
    BY <2>1, <2>2, <2>10, <1>a, <1>c, <1>k, UpsertOrder
  <2> QED BY <1>9, <2>3, <2>4, <2>5, <2>6, <2>7, <2>8, <2>9, <2>10
<1> QED BY <1>1, <1>2, <1>3, <1>4, <1>5, <1>6, <1>7, <1>8, <1>9, <1>a, StepKinds

LEMMA HoursInvHolds ==
    HoursSpec => []HoursInv
<1>1. HoursInit => HoursInv
  BY HoursInvInit
<1>2. HoursInv /\ [HoursNext]_hoursVars => HoursInv'
  BY HoursInvStep
<1> QED BY <1>1, <1>2, PTL DEF HoursSpec

\* Type correctness of every copy, every command under way and the history
\* (app-context.tsx, splashscreen.tsx, work_hours.rs).
THEOREM HoursTypeCorrect ==
    HoursSpec => []HoursTypeOK
<1>1. HoursInv => HoursTypeOK
  BY DEF HoursInv, HoursTyped
<1> QED BY <1>1, HoursInvHolds, PTL

\* With every command answered, what was under way is there.
LEMMA AllThere ==
    ASSUME HoursInv, Settled
    PROVE  \A S, v, there : Will(calls, Len(calls), S, v, there) => there
<1>1. Len(calls) = 0
  BY DEF Settled
<1> QED BY <1>1 DEF Will

\* Once every command was answered, in order and by a database that works, the page
\* of the main window and localStorage have the same hours, and the mirror has them
\* too unless save_work_hours_cmd does not take them, also after starts that were cut
\* short and saves that were refused (AppProvider of app-context.tsx, work_hours.rs).
THEOREM CopiesAlwaysAgree ==
    HoursSpec => []CopiesAgree
<1>1. ASSUME HoursInv, InMain, Settled, odd \cap {"overtake", "failed"} = {}
      PROVE  page["main"] = stored /\ (stored = lite \/ stored \in Refused)
  <2>1. page["main"] = stored
    BY <1>1 DEF HoursInv, OneWindow, InMain, Windows
  <2>2. PICK v \in MaybeHours : IsWord(v) /\ (stored = v \/ stored \in Refused)
    BY <1>1 DEF HoursInv, InOrder, Ordered, MainWord
  <2>3. lite = v
    BY <1>1, <2>2, AllThere DEF IsWord, Word, LiteWill
  <2> QED BY <2>1, <2>2, <2>3
<1>2. HoursInv => CopiesAgree
  BY <1>1 DEF CopiesAgree
<1> QED BY <1>2, HoursInvHolds, PTL

\* What a person last chose, in the wizard or in the tab of the administration, that
\* can be taken is what the mirror ends with, unless a command was overtaken, cut off
\* or failed, or localStorage was migrated as other hours than it has
\* (handleHoursContinue of splashscreen.tsx, Admin.tsx, AppProvider).
THEOREM HoursAreKept ==
    HoursSpec => []HoursKept
<1>1. ASSUME HoursInv, InMain, Settled, odd \subseteq {"outage"}, chosen # None
      PROVE  lite = chosen
  <2>1. ~Off
    BY <1>1 DEF InMain, Off, Windows
  <2>2. Comes(calls, chosen, lite, page)
    BY <1>1, <2>1 DEF HoursInv, Uncut, ChosenComes
  <2>3. Len(calls) = 0
    BY <1>1 DEF Settled
  <2>4. LiteWill(calls, Len(calls), chosen, lite)
    BY <2>2, <2>3 DEF Comes
  <2> QED BY <1>1, <2>4, AllThere DEF LiteWill
<1>2. HoursInv => HoursKept
  BY <1>1 DEF HoursKept
<1> QED BY <1>2, HoursInvHolds, PTL

\* PostgreSQL has the hours of the mirror, or the outbox ends with them: what a
\* reconnection sends last is what the terminal has, whatever was refused or cut
\* short (save_work_hours, run_sync).
THEOREM CentralIsOrWillBe ==
    HoursSpec => []CentralOrQueued
<1>1. ASSUME HoursInv, InMain, Settled, odd \cap {"overtake", "failed"} = {}
      PROVE  central = lite \/ (outbox # <<>> /\ Last(outbox) = lite)
  <2>1. PICK v \in MaybeHours : IsWord(v)
    BY <1>1 DEF HoursInv, InOrder, Ordered, MainWord
  <2>2. lite = v
    BY <1>1, <2>1, AllThere DEF IsWord, Word, LiteWill
  <2>3. RowThere(v, outbox, central)
    BY <1>1, <2>1, AllThere DEF IsWord, Word, RowWill
  <2> QED BY <2>2, <2>3 DEF RowThere, Last
<1>2. HoursInv => CentralOrQueued
  BY <1>1 DEF CentralOrQueued
<1> QED BY <1>2, HoursInvHolds, PTL
=============================================================================
