--------------------------- MODULE PunchOtpProofs ---------------------------
(* What holds of PunchOtp for any terminals, any finite number of commands   *)
(* at once, any limits and any Env; in the second part, what holds of        *)
(* PunchScreen, where the codes are typed, for any employees, working hours, *)
(* flows at once and length of the day.                                      *)
EXTENDS PunchOtp, PunchScreen, FiniteSetTheorems, TLAPS

-----------------------------------------------------------------------------
\* The inductive invariant. A code is a request's number, so the next request's
\* is above every code that is anywhere.
Numbered ==
    /\ \A r \in punch_otp : r.code <= started
    /\ \A e \in mailed : e.id <= started
    /\ \A a \in accepted : a.code <= started
    /\ \A c \in Slots : cmd[c] # Idle => cmd[c].code <= started

Issuing(c) == cmd[c].step \in {"removes", "inserts"}

\* A command that has a code to insert or to mail mails the code it drew.
MailsOwn ==
    \A c \in Slots : cmd[c].step \in {"removes", "inserts", "mails"} =>
        cmd[c].code = cmd[c].id

\* The code of a request that has not inserted its row is nowhere else.
Fresh ==
    \A c \in Slots : Issuing(c) =>
        /\ cmd[c].code # Wrong
        /\ \A r \in punch_otp : r.code # cmd[c].code
        /\ \A e \in mailed : e.id # cmd[c].code
        /\ \A a \in accepted : a.code # cmd[c].code
        /\ \A d \in Slots \ {c} : cmd[d] # Idle => cmd[d].code # cmd[c].code

OneRow == \A q, r \in punch_otp : q.code = r.code => q = r

\* The row of a code that was accepted, or is about to be, is gone.
Spent ==
    \A r \in punch_otp :
        /\ \A a \in accepted : a.code # r.code
        /\ \A c \in Slots : cmd[c].step = "logs_ok" => cmd[c].code # r.code

\* A command that found its code right deletes the row of that code.
HitsOwn == \A c \in Slots : cmd[c].step = "hits" => cmd[c].row = cmd[c].code

\* The acceptances of a code, given and still to come.
Given(k) == {a \in accepted : a.code = k}
Coming(k) == {c \in Slots : cmd[c].step \in {"hits", "logs_ok"} /\ cmd[c].code = k}
FewGiven ==
    /\ IsFiniteSet(accepted)
    /\ \A k \in Nat : Cardinality(Given(k)) + Cardinality(Coming(k)) <= Cardinality(Slots)

\* The guesses a row was charged for, and those it still will be: the last one
\* was let in below MaxAttempts.
Missing(r) == {c \in Slots : cmd[c].step = "misses" /\ cmd[c].row = r.code}
FewGuesses ==
    \A r \in punch_otp :
        r.attempts + Cardinality(Missing(r)) <= MaxAttempts + Cardinality(Slots) - 1

IInv ==
    /\ TypeOK /\ Numbered
    /\ MailsOwn /\ Fresh /\ OneRow
    /\ Spent /\ HitsOwn /\ FewGiven
    /\ FewGuesses

-----------------------------------------------------------------------------
(* Type correctness.                                                       *)

LEMMA SlotsFinite ==
    ASSUME NEW S \in SUBSET Slots
    PROVE  IsFiniteSet(S) /\ Cardinality(S) \in Nat /\ Cardinality(S) <= Cardinality(Slots)
  BY PunchOtpAssumption, FS_Subset, FS_CardinalityType

LEMMA TypeStep == TypeOK /\ [Next]_vars => TypeOK'
  <1> SUFFICES ASSUME TypeOK, [Next]_vars PROVE TypeOK'
    OBVIOUS
  <1> USE DEF TypeOK, Goes, Ends, EventOf
  <1>0. \A c \in Slots : cmd[c].step # "idle" => cmd[c] \in Command
    BY DEF Idle
  <1>c. \A c \in Slots, s \in Steps : cmd[c] \in Command =>
          [cmd EXCEPT ![c].step = s] \in [Slots -> Command \cup {Idle}]
    BY DEF Command
  <1>e. \A c \in Slots : cmd[c] \in Command => EventOf(c) \in Event
    BY DEF Command, Event
  <1>1. ASSUME NEW c \in Slots, NEW t \in Terminals, RequestStarts(c, t)
        PROVE  TypeOK'
    <2>1. [id |-> started', step |-> "removes", by |-> t, code |-> started',
           row |-> 0, expires |-> now + Ttl] \in Command
      BY <1>1, PunchOtpAssumption DEF RequestStarts, Command, Steps
    <2> QED
      BY <1>1, <2>1 DEF RequestStarts
  <1>2. ASSUME NEW c \in Slots, NEW t \in Terminals, VerifyStarts(c, t)
        PROVE  TypeOK'
    <2>1. PICK k \in {Wrong} \cup {e.id : e \in mailed} :
            cmd' = [cmd EXCEPT ![c] =
                     [id |-> started', step |-> "selects", by |-> t, code |-> k,
                      row |-> 0, expires |-> 0]]
      BY <1>2 DEF VerifyStarts
    <2>2. k \in Nat
      BY DEF Event, Wrong
    <2>3. [id |-> started', step |-> "selects", by |-> t, code |-> k,
           row |-> 0, expires |-> 0] \in Command
      BY <1>2, <2>2 DEF VerifyStarts, Command, Steps
    <2> QED
      BY <1>2, <2>1, <2>3 DEF VerifyStarts
  <1>3. ASSUME NEW c \in Slots, Removes(c)
        PROVE  TypeOK'
    BY <1>3, <1>0, <1>c DEF Removes, Steps
  <1>4. ASSUME NEW c \in Slots, Inserts(c)
        PROVE  TypeOK'
    <2>1. punch_otp' \subseteq OtpRow
      BY <1>4, <1>0 DEF Inserts, Command, OtpRow
    <2>2. cmd[c].step = "inserts" /\ Goes(c, "mails") /\ born' = born + 1
      BY <1>4 DEF Inserts
    <2>3. cmd' \in [Slots -> Command \cup {Idle}]
      BY <1>0, <1>c, <2>2 DEF Steps
    <2>4. born' \in Nat
      BY <2>2
    <2> QED
      BY <1>4, <2>1, <2>3, <2>4 DEF Inserts
  <1>5. ASSUME NEW c \in Slots, Mails(c)
        PROVE  TypeOK'
    <2>1. cmd[c] \in Command /\ Goes(c, "logs_sent")
      BY <1>5, <1>0 DEF Mails
    <2>2. cmd' \in [Slots -> Command \cup {Idle}]
      BY <1>c, <2>1 DEF Steps
    <2>3. mailed' \subseteq Event
      BY <1>5, <1>e, <2>1 DEF Mails
    <2> QED
      BY <1>5, <2>2, <2>3 DEF Mails
  <1>6. ASSUME NEW c \in Slots, LogsSent(c)
        PROVE  TypeOK'
    BY <1>6, <1>0, <1>e DEF LogsSent
  <1>7. ASSUME NEW c \in Slots, RequestFails(c)
        PROVE  TypeOK'
    BY <1>7 DEF RequestFails
  <1>8. ASSUME NEW c \in Slots, Selects(c)
        PROVE  TypeOK'
    <2>0. /\ cmd[c] \in Command
          /\ UNCHANGED <<punch_otp, sent, failed, now, started, born, mailed, accepted>>
      BY <1>8, <1>0 DEF Selects
    <2>1. ASSUME Goes(c, "logs_failed") PROVE TypeOK'
      BY <2>0, <1>c, <2>1 DEF Steps
    <2>2. ASSUME NEW r \in Latest,
                 cmd' = [cmd EXCEPT ![c].step = Verdict(r, cmd[c].code), ![c].row = r.code]
          PROVE  TypeOK'
      <3>1. r \in OtpRow /\ r.code \in Nat
        BY DEF Latest, OtpRow
      <3>2. Verdict(r, cmd[c].code) \in Steps
        BY DEF Verdict, Steps
      <3>3. cmd' \in [Slots -> Command \cup {Idle}]
        BY <2>0, <2>2, <3>1, <3>2 DEF Command
      <3> QED
        BY <2>0, <3>3
    <2> QED
      BY <1>8, <2>1, <2>2 DEF Selects
  <1>9. ASSUME NEW c \in Slots, Expires(c)
        PROVE  TypeOK'
    BY <1>9, <1>0, <1>c DEF Expires, Without, Steps
  <1>10. ASSUME NEW c \in Slots, Misses(c)
         PROVE  TypeOK'
    <2>1. \A r \in punch_otp : [r EXCEPT !.attempts = @ + 1] \in OtpRow
      BY DEF OtpRow
    <2>2. punch_otp' \subseteq OtpRow
      BY <1>10, <2>1 DEF Misses
    <2> QED
      BY <1>10, <1>0, <1>c, <2>2 DEF Misses, Steps
  <1>11. ASSUME NEW c \in Slots, Hits(c)
         PROVE  TypeOK'
    BY <1>11, <1>0, <1>c DEF Hits, Without, Steps
  <1>12. ASSUME NEW c \in Slots, Accepts(c)
         PROVE  TypeOK'
    <2>1. accepted' \subseteq [id : Nat, code : Nat]
      BY <1>12, <1>0 DEF Accepts, Command
    <2> QED
      BY <1>12, <2>1 DEF Accepts
  <1>13. ASSUME NEW c \in Slots, VerifyBreaks(c)
         PROVE  TypeOK'
    BY <1>13, <1>0, <1>c DEF VerifyBreaks, Steps
  <1>14. ASSUME NEW c \in Slots, LogsFailed(c)
         PROVE  TypeOK'
    BY <1>14, <1>0, <1>e DEF LogsFailed
  <1>15. ASSUME NEW t \in Terminals, Crash(t)
         PROVE  TypeOK'
    BY <1>15 DEF Crash
  <1>16. CASE Tick
    BY <1>16 DEF Tick
  <1>17. CASE UNCHANGED vars
    BY <1>17 DEF vars
  <1> QED
    BY <1>1, <1>2, <1>3, <1>4, <1>5, <1>6, <1>7, <1>8, <1>9, <1>10, <1>11, <1>12,
       <1>13, <1>14, <1>15, <1>16, <1>17 DEF Next

\* Every state of the manual punch's tables, logs and commands is well typed.
THEOREM TypeCorrect == Spec => []TypeOK
  <1>1. Init => TypeOK
    BY DEF Init, TypeOK
  <1> QED
    BY <1>1, TypeStep, PTL DEF Spec

-----------------------------------------------------------------------------
(* The inductive invariant holds of every step.                            *)

Codes == Numbered /\ MailsOwn /\ Fresh /\ OneRow /\ Spent /\ HitsOwn

\* A command that goes on keeps all but its step, and the others stay.
LEMMA GoesOn ==
    ASSUME TypeOK, NEW c \in Slots, cmd[c].step # "idle", NEW s \in Steps, Goes(c, s)
    PROVE  /\ cmd[c] # Idle /\ cmd'[c] # Idle /\ cmd'[c].step = s
           /\ cmd'[c].code = cmd[c].code /\ cmd'[c].id = cmd[c].id /\ cmd'[c].row = cmd[c].row
           /\ \A d \in Slots \ {c} : cmd'[d] = cmd[d]
           /\ cmd[c].code \in Nat
  BY DEF TypeOK, Command, Idle, Goes, Steps

LEMMA Stops ==
    ASSUME TypeOK, NEW c \in Slots, Ends(c)
    PROVE  /\ cmd'[c] = Idle
           /\ \A d \in Slots \ {c} : cmd'[d] = cmd[d]
  BY DEF TypeOK, Ends

\* Where the row it selected sends a verification.
SelectsTo(c) ==
    /\ UNCHANGED <<punch_otp, started, mailed, accepted>>
    /\ cmd[c].step = "selects"
    /\ \A d \in Slots \ {c} : cmd'[d] = cmd[d]
    /\ cmd'[c].code = cmd[c].code
    /\ \/ cmd'[c].step \in {"logs_failed", "expires"}
       \/ \E r \in punch_otp :
            /\ cmd'[c].row = r.code
            /\ \/ cmd'[c].step = "misses" /\ r.attempts < MaxAttempts
               \/ cmd'[c].step = "hits" /\ r.code = cmd[c].code

LEMMA SelectsEffect ==
    ASSUME TypeOK, NEW c \in Slots, Selects(c)
    PROVE  SelectsTo(c)
  <1>1. /\ cmd[c].step = "selects" /\ cmd[c] \in Command
        /\ UNCHANGED <<punch_otp, started, mailed, accepted>>
    BY DEF TypeOK, Selects, Idle
  <1>2. CASE Goes(c, "logs_failed")
    BY <1>1, <1>2, GoesOn DEF SelectsTo, Steps
  <1>3. ASSUME NEW r \in Latest,
               cmd' = [cmd EXCEPT ![c].step = Verdict(r, cmd[c].code), ![c].row = r.code]
        PROVE  SelectsTo(c)
    <2>1. r \in punch_otp /\ r.attempts \in Nat /\ MaxAttempts \in Nat
      BY PunchOtpAssumption DEF Latest, TypeOK, OtpRow
    <2>2. /\ \A d \in Slots \ {c} : cmd'[d] = cmd[d]
          /\ cmd'[c].code = cmd[c].code /\ cmd'[c].row = r.code
          /\ cmd'[c].step = Verdict(r, cmd[c].code)
      BY <1>1, <1>3 DEF TypeOK, Command
    <2> QED
      BY <1>1, <2>1, <2>2 DEF SelectsTo, Verdict
  <1> QED
    BY <1>2, <1>3 DEF Selects

\* What a step may take away without harm: rows and commands.
LEMMA FewerCodes ==
    ASSUME TypeOK, Codes,
           punch_otp' \subseteq punch_otp,
           \A c \in Slots : \/ cmd'[c] = cmd[c]
                            \/ cmd'[c] = Idle
                            \/ /\ cmd[c] # Idle /\ cmd'[c].code = cmd[c].code
                               /\ cmd'[c].step \in {"logs_sent", "logs_failed", "expires", "misses"},
           started' = started, mailed' = mailed, accepted' = accepted
    PROVE  Codes'
  BY DEF TypeOK, Codes, Numbered, MailsOwn, Fresh, OneRow, Spent, HitsOwn, Issuing, Idle

LEMMA CodesStep == TypeOK /\ Codes /\ [Next]_vars => Codes'
  <1> SUFFICES ASSUME TypeOK, Codes, [Next]_vars PROVE Codes'
    OBVIOUS
  <1> USE DEF Codes, Numbered, MailsOwn, Fresh, OneRow, Spent, HitsOwn, Issuing, Wrong
  <1>0. /\ \A r \in punch_otp : r.code \in Nat
        /\ \A e \in mailed : e.id \in Nat
        /\ \A a \in accepted : a.code \in Nat
        /\ \A c \in Slots : cmd[c] # Idle => cmd[c].code \in Nat /\ cmd[c].id \in Nat
        /\ \A c \in Slots : cmd[c].step # "idle" <=> cmd[c] # Idle
        /\ started \in Nat /\ Idle.step = "idle"
    BY DEF TypeOK, OtpRow, Event, Command, Idle, Steps
  <1>1. ASSUME NEW c \in Slots, NEW t \in Terminals, RequestStarts(c, t)
        PROVE  Codes'
    <2>1. /\ cmd'[c].code = started + 1 /\ cmd'[c].id = started + 1
          /\ cmd'[c].step = "removes" /\ cmd'[c] # Idle
          /\ \A d \in Slots \ {c} : cmd'[d] = cmd[d]
      BY <1>1 DEF TypeOK, RequestStarts, Idle
    <2>2. /\ started' = started + 1
          /\ UNCHANGED <<punch_otp, mailed, accepted>>
      BY <1>1 DEF RequestStarts
    <2> QED
      BY <1>0, <2>1, <2>2
  <1>2. ASSUME NEW c \in Slots, NEW t \in Terminals, VerifyStarts(c, t)
        PROVE  Codes'
    <2>1. PICK k \in {Wrong} \cup {e.id : e \in mailed} :
            cmd' = [cmd EXCEPT ![c] =
                     [id |-> started', step |-> "selects", by |-> t, code |-> k,
                      row |-> 0, expires |-> 0]]
      BY <1>2 DEF VerifyStarts
    <2>2. /\ cmd'[c].code = k /\ cmd'[c].step = "selects" /\ cmd'[c] # Idle
          /\ \A d \in Slots \ {c} : cmd'[d] = cmd[d]
      BY <2>1 DEF TypeOK, Idle
    <2>3. k = 0 \/ \E e \in mailed : k = e.id
      OBVIOUS
    <2>4. /\ started' = started + 1
          /\ UNCHANGED <<punch_otp, mailed, accepted>>
      BY <1>2 DEF VerifyStarts
    <2>5. k <= started
      BY <1>0, <2>3
    <2>6. \A d \in Slots \ {c} : Issuing(d) => cmd[d].code # k
      BY <1>0, <2>3
    <2> QED
      BY <1>0, <2>2, <2>4, <2>5, <2>6
  <1>3. ASSUME NEW c \in Slots, Removes(c)
        PROVE  Codes'
    BY <1>0, <1>3, GoesOn DEF Removes, Steps
  <1>4. ASSUME NEW c \in Slots, Inserts(c)
        PROVE  Codes'
    <2>1. PICK r : r.code = cmd[c].code /\ punch_otp' = punch_otp \cup {r}
      BY <1>4 DEF Inserts
    <2>2. /\ cmd[c].step = "inserts" /\ Goes(c, "mails")
          /\ UNCHANGED <<started, mailed, accepted>>
      BY <1>4 DEF Inserts
    <2> QED
      BY <1>0, <2>1, <2>2, GoesOn DEF Steps
  <1>5. ASSUME NEW c \in Slots, Mails(c)
        PROVE  Codes'
    <2>1. PICK e : e.id = cmd[c].id /\ mailed' = mailed \cup {e}
      BY <1>5 DEF Mails, EventOf
    <2>2. /\ cmd[c].step = "mails" /\ Goes(c, "logs_sent")
          /\ UNCHANGED <<started, punch_otp, accepted>>
      BY <1>5 DEF Mails
    <2> QED
      BY <1>0, <2>1, <2>2, GoesOn DEF Steps
  <1>6. ASSUME NEW c \in Slots, LogsSent(c) \/ RequestFails(c) \/ LogsFailed(c)
        PROVE  Codes'
    <2>1. Ends(c) /\ UNCHANGED <<punch_otp, started, mailed, accepted>>
      BY <1>6 DEF LogsSent, RequestFails, LogsFailed
    <2> QED
      BY <2>1, Stops, FewerCodes
  <1>7. ASSUME NEW c \in Slots, Selects(c)
        PROVE  Codes'
    <2>1. SelectsTo(c)
      BY <1>7, SelectsEffect
    <2>2. cmd[c] # Idle /\ cmd'[c] # Idle
      BY <2>1, <1>0 DEF SelectsTo
    <2> QED
      BY <1>0, <2>1, <2>2 DEF SelectsTo
  <1>8. ASSUME NEW c \in Slots, Expires(c)
        PROVE  Codes'
    <2>1. cmd[c].step = "expires" /\ Goes(c, "logs_failed") /\ punch_otp' \subseteq punch_otp
          /\ UNCHANGED <<started, mailed, accepted>>
      BY <1>8 DEF Expires, Without
    <2> QED
      BY <2>1, GoesOn, FewerCodes DEF Steps
  <1>9. ASSUME NEW c \in Slots, Misses(c)
        PROVE  Codes'
    <2>1. cmd[c].step = "misses" /\ Goes(c, "logs_failed")
          /\ UNCHANGED <<started, mailed, accepted>>
      BY <1>9 DEF Misses
    <2>2. \A r \in punch_otp' : \E q \in punch_otp :
             r = (IF q.code = cmd[c].row THEN [q EXCEPT !.attempts = @ + 1] ELSE q)
      BY <1>9 DEF Misses
    <2>3. \A r \in punch_otp' : \E q \in punch_otp :
             /\ r.code = q.code
             /\ r = (IF q.code = cmd[c].row THEN [q EXCEPT !.attempts = @ + 1] ELSE q)
      BY <2>2 DEF TypeOK, OtpRow
    <2>4. OneRow'
      BY <2>3
    <2>5. \A r \in punch_otp' : \E q \in punch_otp : r.code = q.code
      BY <2>3
    <2> QED
      BY <1>0, <2>1, <2>4, <2>5, GoesOn DEF Steps
  <1>10. ASSUME NEW c \in Slots, Hits(c)
         PROVE  Codes'
    BY <1>0, <1>10, GoesOn DEF Hits, Without, Steps
  <1>11. ASSUME NEW c \in Slots, Accepts(c)
         PROVE  Codes'
    <2>1. PICK a : a.code = cmd[c].code /\ accepted' = accepted \cup {a}
      BY <1>11 DEF Accepts
    <2>2. cmd[c].step = "logs_ok" /\ Ends(c) /\ UNCHANGED <<started, punch_otp, mailed>>
      BY <1>11 DEF Accepts
    <2> QED
      BY <1>0, <2>1, <2>2, Stops
  <1>12. ASSUME NEW c \in Slots, VerifyBreaks(c)
         PROVE  Codes'
    <2>1. cmd[c].step # "idle" /\ Goes(c, "logs_failed")
          /\ UNCHANGED <<punch_otp, started, mailed, accepted>>
      BY <1>12 DEF VerifyBreaks
    <2> QED
      BY <2>1, GoesOn, FewerCodes DEF Steps
  <1>13. ASSUME NEW t \in Terminals, Crash(t)
         PROVE  Codes'
    BY <1>13, FewerCodes DEF TypeOK, Crash
  <1>14. CASE Tick
    BY <1>14 DEF Tick
  <1>15. CASE UNCHANGED vars
    BY <1>15 DEF vars
  <1> QED
    BY <1>1, <1>2, <1>3, <1>4, <1>5, <1>6, <1>7, <1>8, <1>9, <1>10, <1>11, <1>12,
       <1>13, <1>14, <1>15 DEF Next

-----------------------------------------------------------------------------
(* Acceptances are counted: only Accepts adds one, and takes it from Coming. *)

GivenLimit(k) == Cardinality(Given(k)) + Cardinality(Coming(k)) <= Cardinality(Slots)

LEMMA CountsTypes ==
    ASSUME FewGiven, NEW k
    PROVE  /\ IsFiniteSet(Given(k)) /\ IsFiniteSet(Coming(k))
           /\ Cardinality(Given(k)) \in Nat /\ Cardinality(Coming(k)) \in Nat
           /\ Cardinality(Coming(k)) <= Cardinality(Slots)
           /\ Cardinality(Slots) \in Nat
  <1>1. Given(k) \in SUBSET accepted /\ Coming(k) \in SUBSET Slots
    BY DEF Given, Coming
  <1>2. Cardinality(Slots) \in Nat
    BY SlotsFinite
  <1> QED
    BY <1>1, <1>2, SlotsFinite, FS_Subset, FS_CardinalityType DEF FewGiven

\* Most steps give nothing, and let nobody further come.
LEMMA NoneComing ==
    ASSUME FewGiven, accepted' = accepted, NEW k \in Nat, Coming(k)' \subseteq Coming(k)
    PROVE  GivenLimit(k)'
  <1>1. Given(k)' = Given(k)
    BY DEF Given
  <1>2. Cardinality(Coming(k)') \in Nat /\ Cardinality(Coming(k)') <= Cardinality(Coming(k))
    BY CountsTypes, FS_Subset, FS_CardinalityType
  <1>3. Cardinality(Given(k)) + Cardinality(Coming(k)) <= Cardinality(Slots)
    BY DEF FewGiven
  <1>4. Cardinality(Given(k)) + Cardinality(Coming(k)') <= Cardinality(Slots)
    BY <1>2, <1>3, CountsTypes
  <1> QED
    BY <1>1, <1>4 DEF GivenLimit

LEMMA FewGivenStep == TypeOK /\ Codes /\ FewGiven /\ [Next]_vars => FewGiven'
  <1> SUFFICES ASSUME TypeOK, Codes, FewGiven, [Next]_vars PROVE FewGiven'
    OBVIOUS
  <1>a. ASSUME IsFiniteSet(accepted'), \A k \in Nat : GivenLimit(k)'
        PROVE  FewGiven'
    BY <1>a DEF FewGiven, GivenLimit
  <1>b. ASSUME accepted' = accepted,
               \A c \in Slots : cmd'[c].step \in {"hits", "logs_ok"} =>
                   cmd[c].step \in {"hits", "logs_ok"} /\ cmd[c].code = cmd'[c].code
        PROVE  FewGiven'
    <2>1. \A k \in Nat : Coming(k)' \subseteq Coming(k)
      BY <1>b DEF Coming
    <2>2. IsFiniteSet(accepted')
      BY <1>b DEF FewGiven
    <2> QED
      BY <1>a, <1>b, <2>1, <2>2, NoneComing
  <1>c. Idle.step = "idle"
    BY DEF Idle
  <1>1. ASSUME NEW c \in Slots, NEW t \in Terminals, RequestStarts(c, t) \/ VerifyStarts(c, t)
        PROVE  FewGiven'
    <2>1. /\ accepted' = accepted /\ cmd'[c].step \in {"removes", "selects"}
          /\ \A d \in Slots \ {c} : cmd'[d] = cmd[d]
      BY <1>1 DEF TypeOK, RequestStarts, VerifyStarts
    <2> QED
      BY <1>b, <2>1
  <1>2. ASSUME NEW c \in Slots, Removes(c) \/ Inserts(c) \/ Mails(c)
                                \/ Expires(c) \/ Misses(c) \/ Hits(c) \/ VerifyBreaks(c)
        PROVE  FewGiven'
    <2>1. PICK s \in {"inserts", "mails", "logs_sent", "logs_failed", "logs_ok"} :
             /\ accepted' = accepted /\ Goes(c, s)
             /\ cmd[c].step # "idle"
             /\ s = "logs_ok" => cmd[c].step = "hits"
      BY <1>2 DEF Removes, Inserts, Mails, Expires, Misses, Hits, VerifyBreaks
    <2>2. /\ cmd'[c].step = s /\ cmd'[c].code = cmd[c].code
          /\ \A d \in Slots \ {c} : cmd'[d] = cmd[d]
      BY <2>1, GoesOn DEF Steps
    <2> QED
      BY <1>b, <2>1, <2>2
  <1>3. ASSUME NEW c \in Slots, LogsSent(c) \/ RequestFails(c) \/ LogsFailed(c)
        PROVE  FewGiven'
    <2>1. accepted' = accepted /\ Ends(c)
      BY <1>3 DEF LogsSent, RequestFails, LogsFailed
    <2> QED
      BY <1>b, <1>c, <2>1, Stops
  <1>4. ASSUME NEW c \in Slots, Selects(c)
        PROVE  FewGiven'
    <2>1. SelectsTo(c)
      BY <1>4, SelectsEffect
    <2>2. CASE cmd'[c].step # "hits"
      BY <1>b, <2>1, <2>2 DEF SelectsTo
    <2>3. CASE cmd'[c].step = "hits"
      <3>1. PICK r \in punch_otp : r.code = cmd[c].code
        BY <2>1, <2>3 DEF SelectsTo
      <3>2. ASSUME NEW k \in Nat PROVE GivenLimit(k)'
        <4>1. CASE k = cmd[c].code
          <5>1. Given(k)' = {}
            BY <2>1, <3>1, <4>1 DEF SelectsTo, Given, Codes, Spent
          <5>2. Coming(k)' \in SUBSET Slots
            BY DEF Coming
          <5>3. Cardinality(Given(k)') = 0 /\ Cardinality(Coming(k)') \in Nat
                /\ Cardinality(Coming(k)') <= Cardinality(Slots) /\ Cardinality(Slots) \in Nat
            BY <5>1, <5>2, SlotsFinite, FS_EmptySet
          <5> QED
            BY <5>3 DEF GivenLimit
        <4>2. CASE k # cmd[c].code
          <5>1. Coming(k)' \subseteq Coming(k) /\ accepted' = accepted
            BY <2>1, <4>2 DEF SelectsTo, Coming
          <5> QED
            BY <5>1, NoneComing
        <4> QED
          BY <4>1, <4>2
      <3>3. IsFiniteSet(accepted')
        BY <2>1 DEF SelectsTo, FewGiven
      <3> QED
        BY <1>a, <3>2, <3>3
    <2> QED
      BY <2>2, <2>3
  <1>5. ASSUME NEW c \in Slots, Accepts(c)
        PROVE  FewGiven'
    <2>1. PICK a : a.code = cmd[c].code /\ accepted' = accepted \cup {a}
      BY <1>5 DEF Accepts
    <2>2. cmd[c].step = "logs_ok" /\ Ends(c)
      BY <1>5 DEF Accepts
    <2>3. IsFiniteSet(accepted')
      BY <2>1, FS_AddElement DEF FewGiven
    <2>4. ASSUME NEW k \in Nat PROVE GivenLimit(k)'
      <3>1. CASE k = cmd[c].code
        <4>1. Given(k)' = Given(k) \cup {a}
          BY <2>1, <3>1 DEF Given
        <4>2. Coming(k)' = Coming(k) \ {c} /\ c \in Coming(k)
          BY <1>c, <2>2, <3>1, Stops DEF Coming
        <4>3. /\ Cardinality(Given(k)') \in Nat
              /\ Cardinality(Given(k)') <= Cardinality(Given(k)) + 1
          BY <4>1, CountsTypes, FS_AddElement, FS_CardinalityType
        <4>4. Cardinality(Coming(k)') = Cardinality(Coming(k)) - 1
          <5>1. IsFiniteSet(Coming(k))
            BY CountsTypes
          <5> QED
            BY <4>2, <5>1, FS_RemoveElement
        <4>5. Cardinality(Given(k)) + Cardinality(Coming(k)) <= Cardinality(Slots)
          BY DEF FewGiven
        <4>6. Cardinality(Given(k)') + Cardinality(Coming(k)') <= Cardinality(Slots)
          BY <4>3, <4>4, <4>5, CountsTypes
        <4> QED
          BY <4>6 DEF GivenLimit
      <3>2. CASE k # cmd[c].code
        <4>1. Given(k)' = Given(k)
          BY <2>1, <3>2 DEF Given
        <4>2. Coming(k)' = Coming(k)
          BY <1>c, <2>2, <3>2, Stops DEF Coming
        <4> QED
          BY <4>1, <4>2 DEF FewGiven, GivenLimit
      <3> QED
        BY <3>1, <3>2
    <2> QED
      BY <1>a, <2>3, <2>4
  <1>6. ASSUME NEW t \in Terminals, Crash(t)
        PROVE  FewGiven'
    <2>1. accepted' = accepted /\ \A c \in Slots : cmd'[c] = cmd[c] \/ cmd'[c] = Idle
      BY <1>6 DEF TypeOK, Crash
    <2> QED
      BY <1>b, <1>c, <2>1
  <1>7. CASE Tick \/ UNCHANGED vars
    BY <1>b, <1>7 DEF Tick, vars
  <1> QED
    BY <1>1, <1>2, <1>3, <1>4, <1>5, <1>6, <1>7 DEF Next

-----------------------------------------------------------------------------
(* Guesses are counted: Misses charges its row for one, and stops missing.  *)

GuessLimit(r) == r.attempts + Cardinality(Missing(r)) <= MaxAttempts + Cardinality(Slots) - 1

LEMMA MissingTypes ==
    ASSUME NEW r
    PROVE  /\ IsFiniteSet(Missing(r)) /\ Cardinality(Missing(r)) \in Nat
           /\ IsFiniteSet(Missing(r)') /\ Cardinality(Missing(r)') \in Nat
           /\ Cardinality(Slots) \in Nat
  <1>1. Missing(r) \in SUBSET Slots /\ Missing(r)' \in SUBSET Slots
    BY DEF Missing
  <1> QED
    BY <1>1, SlotsFinite

LEMMA NoneMissing ==
    ASSUME TypeOK, FewGuesses, NEW r \in punch_otp, Missing(r)' \subseteq Missing(r)
    PROVE  GuessLimit(r)'
  <1>1. Cardinality(Missing(r)') <= Cardinality(Missing(r))
    BY MissingTypes, FS_Subset
  <1>2. GuessLimit(r) /\ r.attempts \in Nat /\ MaxAttempts \in Nat
    BY PunchOtpAssumption DEF FewGuesses, GuessLimit, TypeOK, OtpRow
  <1>3. r.attempts + Cardinality(Missing(r)') <= MaxAttempts + Cardinality(Slots) - 1
    BY <1>1, <1>2, MissingTypes DEF GuessLimit
  <1> QED
    BY <1>3 DEF GuessLimit

LEMMA FewGuessesStep == TypeOK /\ Codes /\ FewGuesses /\ [Next]_vars => FewGuesses'
  <1> SUFFICES ASSUME TypeOK, Codes, FewGuesses, [Next]_vars PROVE FewGuesses'
    OBVIOUS
  <1>a. ASSUME \A r \in punch_otp' : GuessLimit(r)'
        PROVE  FewGuesses'
    BY <1>a DEF FewGuesses, GuessLimit
  <1>b. ASSUME punch_otp' \subseteq punch_otp,
               \A c \in Slots : cmd'[c].step = "misses" => cmd'[c] = cmd[c]
        PROVE  FewGuesses'
    <2>1. \A r : Missing(r)' \subseteq Missing(r)
      BY <1>b DEF Missing
    <2> QED
      BY <1>a, <1>b, <2>1, NoneMissing
  <1>c. Idle.step = "idle"
    BY DEF Idle
  <1>1. ASSUME NEW c \in Slots, NEW t \in Terminals, RequestStarts(c, t) \/ VerifyStarts(c, t)
        PROVE  FewGuesses'
    <2>1. /\ punch_otp' = punch_otp /\ cmd'[c].step \in {"removes", "selects"}
          /\ \A d \in Slots \ {c} : cmd'[d] = cmd[d]
      BY <1>1 DEF TypeOK, RequestStarts, VerifyStarts
    <2> QED
      BY <1>b, <2>1
  <1>2. ASSUME NEW c \in Slots, Removes(c) \/ Mails(c) \/ Expires(c) \/ Hits(c) \/ VerifyBreaks(c)
        PROVE  FewGuesses'
    <2>1. PICK s \in {"inserts", "logs_sent", "logs_failed", "logs_ok"} :
             punch_otp' \subseteq punch_otp /\ Goes(c, s) /\ cmd[c].step # "idle"
      BY <1>2 DEF Removes, Mails, Expires, Hits, VerifyBreaks, Without
    <2>2. cmd'[c].step = s /\ \A d \in Slots \ {c} : cmd'[d] = cmd[d]
      BY <2>1, GoesOn DEF Steps
    <2> QED
      BY <1>b, <2>1, <2>2
  <1>3. ASSUME NEW c \in Slots, LogsSent(c) \/ RequestFails(c) \/ LogsFailed(c) \/ Accepts(c)
        PROVE  FewGuesses'
    <2>1. punch_otp' = punch_otp /\ Ends(c)
      BY <1>3 DEF LogsSent, RequestFails, LogsFailed, Accepts
    <2> QED
      BY <1>b, <1>c, <2>1, Stops
  <1>4. ASSUME NEW c \in Slots, Inserts(c)
        PROVE  FewGuesses'
    <2>1. PICK n : n.attempts = 0 /\ punch_otp' = punch_otp \cup {n}
      BY <1>4 DEF Inserts
    <2>2. cmd[c].step = "inserts" /\ Goes(c, "mails")
      BY <1>4 DEF Inserts
    <2>3. cmd'[c].step = "mails" /\ \A d \in Slots \ {c} : cmd'[d] = cmd[d]
      BY <2>2, GoesOn DEF Steps
    <2>4. GuessLimit(n)'
      <3>1. Missing(n)' \in SUBSET (Slots \ {c})
        BY <2>3 DEF Missing
      <3>2. Cardinality(Slots \ {c}) = Cardinality(Slots) - 1 /\ IsFiniteSet(Slots \ {c})
        BY PunchOtpAssumption, FS_RemoveElement
      <3>3. Cardinality(Missing(n)') <= Cardinality(Slots) - 1
        BY <3>1, <3>2, FS_Subset
      <3>4. n.attempts + Cardinality(Missing(n)') <= MaxAttempts + Cardinality(Slots) - 1
        BY <2>1, <3>3, MissingTypes, PunchOtpAssumption
      <3> QED
        BY <3>4 DEF GuessLimit
    <2>5. \A r \in punch_otp : GuessLimit(r)'
      <3>1. \A r : Missing(r)' \subseteq Missing(r)
        BY <2>3 DEF Missing
      <3> QED
        BY <3>1, NoneMissing
    <2> QED
      BY <1>a, <2>1, <2>4, <2>5
  <1>5. ASSUME NEW c \in Slots, Selects(c)
        PROVE  FewGuesses'
    <2>1. SelectsTo(c)
      BY <1>5, SelectsEffect
    <2>2. CASE cmd'[c].step # "misses"
      BY <1>b, <2>1, <2>2 DEF SelectsTo
    <2>3. CASE cmd'[c].step = "misses"
      <3>1. PICK q \in punch_otp : cmd'[c].row = q.code /\ q.attempts < MaxAttempts
        BY <2>1, <2>3 DEF SelectsTo
      <3>2. ASSUME NEW r \in punch_otp PROVE GuessLimit(r)'
        <4>1. CASE r.code = q.code
          <5>1. r = q /\ r.attempts \in Nat /\ MaxAttempts \in Nat
            BY <4>1, PunchOtpAssumption DEF Codes, OneRow, TypeOK, OtpRow
          <5>2. Missing(r)' \in SUBSET Slots
            BY DEF Missing
          <5>3. Cardinality(Missing(r)') <= Cardinality(Slots)
            BY <5>2, SlotsFinite
          <5>4. r.attempts + Cardinality(Missing(r)') <= MaxAttempts + Cardinality(Slots) - 1
            BY <3>1, <5>1, <5>3, MissingTypes
          <5> QED
            BY <5>4 DEF GuessLimit
        <4>2. CASE r.code # q.code
          <5>1. Missing(r)' \subseteq Missing(r)
            BY <2>1, <3>1, <4>2 DEF SelectsTo, Missing
          <5> QED
            BY <5>1, NoneMissing
        <4> QED
          BY <4>1, <4>2
      <3> QED
        BY <1>a, <2>1, <3>2 DEF SelectsTo
    <2> QED
      BY <2>2, <2>3
  <1>6. ASSUME NEW c \in Slots, Misses(c)
        PROVE  FewGuesses'
    <2>1. cmd[c].step = "misses" /\ Goes(c, "logs_failed")
      BY <1>6 DEF Misses
    <2>2. /\ cmd'[c].step = "logs_failed"
          /\ \A d \in Slots \ {c} : cmd'[d] = cmd[d]
      BY <2>1, GoesOn DEF Steps
    <2>3. ASSUME NEW r \in punch_otp'
          PROVE  GuessLimit(r)'
      <3>1. PICK q \in punch_otp :
               r = (IF q.code = cmd[c].row THEN [q EXCEPT !.attempts = @ + 1] ELSE q)
        BY <1>6 DEF Misses
      <3>2. q \in OtpRow
        BY DEF TypeOK
      <3>3. CASE q.code = cmd[c].row
        <4>1. r.code = q.code /\ r.attempts = q.attempts + 1 /\ q.attempts \in Nat
          BY <3>1, <3>2, <3>3 DEF OtpRow
        <4>2. Missing(r)' = Missing(q) \ {c} /\ c \in Missing(q)
          BY <2>1, <2>2, <3>3, <4>1 DEF Missing
        <4>3. Cardinality(Missing(r)') = Cardinality(Missing(q)) - 1
          BY <4>2, MissingTypes, FS_RemoveElement
        <4>4. GuessLimit(q) /\ MaxAttempts \in Nat
          BY PunchOtpAssumption DEF FewGuesses, GuessLimit
        <4>5. r.attempts + Cardinality(Missing(r)') <= MaxAttempts + Cardinality(Slots) - 1
          BY <4>1, <4>3, <4>4, MissingTypes DEF GuessLimit
        <4> QED
          BY <4>5 DEF GuessLimit
      <3>4. CASE q.code # cmd[c].row
        <4>1. r = q /\ Missing(r)' \subseteq Missing(r)
          BY <2>2, <3>1, <3>4 DEF Missing
        <4> QED
          BY <4>1, NoneMissing
      <3> QED
        BY <3>3, <3>4
    <2> QED
      BY <1>a, <2>3
  <1>7. ASSUME NEW t \in Terminals, Crash(t)
        PROVE  FewGuesses'
    <2>1. punch_otp' = punch_otp /\ \A c \in Slots : cmd'[c] = cmd[c] \/ cmd'[c] = Idle
      BY <1>7 DEF TypeOK, Crash
    <2> QED
      BY <1>b, <1>c, <2>1
  <1>8. CASE Tick \/ UNCHANGED vars
    BY <1>b, <1>8 DEF Tick, vars
  <1> QED
    BY <1>1, <1>2, <1>3, <1>4, <1>5, <1>6, <1>7, <1>8 DEF Next

-----------------------------------------------------------------------------
(* The theorems.                                                           *)

LEMMA InductiveInit == Init => IInv
  <1> SUFFICES ASSUME Init PROVE IInv
    OBVIOUS
  <1>1. TypeOK
    BY DEF Init, TypeOK
  <1>2. Codes
    BY DEF Init, Codes, Numbered, MailsOwn, Fresh, OneRow, Spent, HitsOwn, Issuing, Idle
  <1>3. FewGuesses
    BY DEF Init, FewGuesses
  <1>4. FewGiven
    <2>1. ASSUME NEW k \in Nat
          PROVE  Cardinality(Given(k)) + Cardinality(Coming(k)) <= Cardinality(Slots)
      <3>1. Given(k) = {} /\ Coming(k) = {}
        BY DEF Init, Given, Coming, Idle
      <3> QED
        BY <3>1, SlotsFinite, FS_EmptySet
    <2> QED
      BY <2>1, FS_EmptySet DEF Init, FewGiven
  <1> QED
    BY <1>1, <1>2, <1>3, <1>4 DEF IInv, Codes

LEMMA Inductive == Spec => []IInv
  <1>1. IInv /\ [Next]_vars => IInv'
    BY TypeStep, CodesStep, FewGivenStep, FewGuessesStep DEF IInv, Codes
  <1> QED
    BY <1>1, InductiveInit, PTL DEF Spec

\* A code that was mailed lets its holder in once; if verifications overlap, at
\* most once for each command under way at once (verifyPunchOtp deletes the row
\* before it answers, and a later SELECT no longer finds it).
THEOREM AcceptedAtMostOnce == Spec => []AcceptedOnce
  <1>1. IInv => AcceptedOnce
    <2> SUFFICES ASSUME IInv, NEW k \in {a.code : a \in accepted}
                 PROVE  Cardinality({a \in accepted : a.code = k}) <= 1 + Over
      BY DEF AcceptedOnce
    <2>1. k \in Nat /\ FewGiven
      BY DEF IInv, TypeOK
    <2>2. Cardinality(Given(k)) + Cardinality(Coming(k)) <= Cardinality(Slots)
      BY <2>1 DEF FewGiven
    <2>3. Cardinality(Given(k)) <= 1 + Over
      BY <2>1, <2>2, CountsTypes DEF Over
    <2> QED
      BY <2>3 DEF Given
  <1> QED
    BY <1>1, Inductive, PTL

\* A code takes at most MAX_VERIFY_ATTEMPTS wrong guesses, plus those that had
\* already passed the limit when the last one was charged for (verifyPunchOtp
\* reads verify_attempts and adds to it in two statements).
THEOREM GuessesAreLimited == Spec => []GuessesPerCode
  <1>1. IInv => GuessesPerCode
    <2> SUFFICES ASSUME IInv, NEW r \in punch_otp
                 PROVE  r.attempts <= MaxAttempts + Over
      BY DEF GuessesPerCode
    <2>1. GuessLimit(r) /\ r.attempts \in Nat /\ MaxAttempts \in Nat
      BY PunchOtpAssumption DEF IInv, FewGuesses, GuessLimit, TypeOK, OtpRow
    <2> QED
      BY <2>1, MissingTypes DEF GuessLimit, Over
  <1> QED
    BY <1>1, Inductive, PTL

-----------------------------------------------------------------------------
(* The punch screen.                                                       *)

ScreenTyped == ScreenTypeOK /\ clock <= LastHour

\* Whoever waits for a card holds op_lock.
Holds == \A s \in Flows : flow[s].pc = "waiting" => queue # <<>> /\ Head(queue) = s

\* The promises that hold a list of the employees, and those on their way to
\* record, before and after the mirror was written.
Reads(f) == f.pc \in {"queued", "waiting", "verifying", "identified"}
AtRecord(f) == f.pc \in {"updating", "written"}
Unwritten(f) == f.pc = "updating" /\ f.call # "second"

\* A dialog whose button records, and the day and the employee it records for.
Offers == dialog.open /\ dialog.type \in DOMAIN Bypass

\* Without an overlap there is one flow at a time, and none while a dialog offers.
OneFlow ==
    /\ \A s, t \in Flows : flow[s] # NoFlow /\ flow[t] # NoFlow => s = t
    /\ Offers => Settled

\* What the screen keeps belongs to the reading that it is about.
ActsOwn ==
    /\ \A s \in Flows :
          /\ flow[s].pc \in {"queued", "waiting", "identified"} => source = "card"
          /\ AtRecord(flow[s]) => flow[s].of = flow[s].asked /\ flow[s].source = flow[s].how
    /\ Offers => source = dialog.how /\ (clockUser # NoUser => clockUser.of = dialog.of)

\* The screen, what a flow captured and the mirror are the same but for the punch
\* that a flow has written and not yet shown.
ShownSo(f) == [users EXCEPT ![f.of] = With(f.check, f.field, f.hour)]
Shown ==
    /\ Settled => row = users
    /\ \A s \in Flows :
          /\ Reads(flow[s]) => flow[s].seen = users /\ row = users
          /\ AtRecord(flow[s]) =>
                /\ flow[s].seen = users /\ flow[s].check = users[flow[s].of]
                /\ row = IF Unwritten(flow[s]) THEN users ELSE ShownSo(flow[s])
    /\ Offers /\ clockUser # NoUser => clockUser.check = users[clockUser.of]

\* What is to be recorded has no value.
Free(day, f) == day = NoDay \/ day[f] = Unset
RecordsFree ==
    /\ \A s \in Flows : AtRecord(flow[s]) => Free(flow[s].check, flow[s].field)
    /\ Offers /\ dialog.type # "release" /\ clockUser # NoUser =>
          Free(clockUser.check, Bypass[dialog.type])

ScreenInv ==
    /\ ScreenTyped /\ Holds
    /\ Calm({"overlap"}) => OneFlow /\ ActsOwn
    /\ Calm({"overlap", "others", "half"}) => Shown
    /\ Calm({"overlap", "release"}) => RecordsFree

-----------------------------------------------------------------------------
(* Types, and the logic of the day.                                         *)

Flow == {NoFlow} \cup Reading \cup Identified \cup Recording

LEMMA FieldNames == Fields = {"clock_in", "lunch_break_out", "lunch_break_return", "clocked_out"}
<1>1. /\ Order[1] = "clock_in" /\ Order[2] = "lunch_break_out"
      /\ Order[3] = "lunch_break_return" /\ Order[4] = "clocked_out"
  BY DEF Order
<1>2. 1..4 = {1, 2, 3, 4}
  OBVIOUS
<1> QED BY <1>1, <1>2 DEF Fields

\* The next field is the first that has no value.
LEMMA NextFieldUnset ==
    ASSUME NEW day, NextField(day) \in Fields
    PROVE  day[NextField(day)] = Unset
<1> DEFINE First(i) == day[Order[i]] = Unset /\ \A j \in 1..(i - 1) : day[Order[j]] # Unset
<1>1. \E f \in Fields : day[f] = Unset
  <2>1. "none" \notin Fields
    BY FieldNames
  <2> QED BY <2>1 DEF NextField
<1>2. \E i \in 1..4 : day[Order[i]] = Unset
  BY <1>1 DEF Fields
<1>3. \E i \in 1..4 : First(i)
  <2>1. day[Order[1]] = Unset => First(1)
    OBVIOUS
  <2>2. day[Order[1]] # Unset /\ day[Order[2]] = Unset => First(2)
    OBVIOUS
  <2>3. day[Order[1]] # Unset /\ day[Order[2]] # Unset /\ day[Order[3]] = Unset => First(3)
    <3>1. \A j \in 1..(3 - 1) : j = 1 \/ j = 2
      OBVIOUS
    <3> QED BY <3>1
  <2>4. (\A j \in {1, 2, 3} : day[Order[j]] # Unset) /\ day[Order[4]] = Unset => First(4)
    <3>1. \A j \in 1..(4 - 1) : j = 1 \/ j = 2 \/ j = 3
      OBVIOUS
    <3> QED BY <3>1
  <2>5. 1..4 = {1, 2, 3, 4}
    OBVIOUS
  <2> HIDE DEF First
  <2> QED BY <1>2, <2>1, <2>2, <2>3, <2>4, <2>5
<1> DEFINE n == CHOOSE i \in 1..4 : First(i)
<1>4. First(n)
  <2> HIDE DEF First
  <2> QED BY <1>3
<1>5. NextField(day) = Order[n]
  BY <1>1 DEF NextField
<1> QED BY <1>4, <1>5

LEMMA WithType ==
    ASSUME NEW day \in Day, NEW f \in Fields, NEW t \in Hours
    PROVE  /\ With(day, f, t) \in Day
           /\ With(day, f, t)[f] = t
           /\ \A g \in Fields : g # f /\ day # NoDay => With(day, f, t)[g] = day[g]
<1> DEFINE from == IF day = NoDay THEN Blank ELSE day
<1>1. from \in [Fields -> Hours \cup {Unset}]
  BY DEF Day, Blank
<1>2. With(day, f, t) = [from EXCEPT ![f] = t]
  BY DEF With
<1> HIDE DEF from
<1>3. /\ With(day, f, t) \in [Fields -> Hours \cup {Unset}]
      /\ \A g \in Fields : With(day, f, t)[g] = IF g = f THEN t ELSE from[g]
  BY <1>1, <1>2
<1> QED BY <1>3 DEF Day, from

\* No day at all is not a day without punches.
LEMMA NoDayApart == \A day \in [Fields -> Hours \cup {Unset}] : day # NoDay
<1>1. DOMAIN NoDay = {} /\ "clock_in" \in Fields
  BY FieldNames DEF NoDay
<1> QED BY <1>1

\* A punch written twice is written once.
LEMMA WithTwice ==
    ASSUME NEW day \in Day, NEW f \in Fields, NEW t \in Hours
    PROVE  With(With(day, f, t), f, t) = With(day, f, t)
<1> DEFINE from == IF day = NoDay THEN Blank ELSE day
           d == [from EXCEPT ![f] = t]
<1>1. from \in [Fields -> Hours \cup {Unset}]
  BY DEF Day, Blank
<1>2. With(day, f, t) = d
  BY DEF With
<1> HIDE DEF from
<1>3. d \in [Fields -> Hours \cup {Unset}] /\ d[f] = t
  BY <1>1
<1>4. d # NoDay
  BY <1>3, NoDayApart
<1>5. With(d, f, t) = [d EXCEPT ![f] = t]
  BY <1>4 DEF With
<1>6. [d EXCEPT ![f] = t] = d
  BY <1>3
<1> QED BY <1>2, <1>5, <1>6

LEMMA FlowParts ==
    ASSUME NEW x \in Flow
    PROVE  /\ x = NoFlow <=> x.pc = "idle"
           /\ x.pc \in {"queued", "waiting", "verifying"} => x \in Reading
           /\ x.pc = "identified" => x \in Identified
           /\ AtRecord(x) => x \in Recording
           /\ x.pc \in {"idle", "queued", "waiting", "verifying", "identified", "updating", "written"}
  BY DEF Flow, NoFlow, Reading, Identified, Recording, AtRecord

\* The types of what the steps set.
LEMMA ScreenParts ==
    ASSUME ScreenTyped
    PROVE  /\ row \in Users /\ users \in Users /\ flow \in [Flows -> Flow]
           /\ \A s \in Flows : flow[s] \in Flow
           /\ clock \in Hours
  BY DEF ScreenTyped, ScreenTypeOK, Flow, Hours

LEMMA FlowGoes ==
    ASSUME ScreenTyped, NEW s \in Flows, NEW x, FlowTo(s, x)
    PROVE  /\ flow'[s] = x
           /\ \A t \in Flows : t # s => flow'[t] = flow[t]
           /\ x \in Flow => flow' \in [Flows -> Flow]
  BY ScreenParts DEF FlowTo

\* What HandleClockIn does with an employee as a flow knows it: it records the
\* next field, which has no value, or shows a dialog that offers to.
Punch(x, seen, e, how) ==
    /\ x \in Recording
    /\ x.pc = "updating" /\ x.call = "only" /\ x.seen = seen /\ x.of = e /\ x.check = seen[e]
    /\ x.asked = e /\ x.source = how /\ x.how = how
    /\ Free(x.check, x.field)

Answer(d, seen, e, how) ==
    /\ d \in Dialog
    /\ d.of = e /\ d.how = how
    /\ d.type \in DOMAIN Bypass /\ d.type # "release" => Free(seen[e], Bypass[d.type])

LEMMA BypassOf ==
    /\ DOMAIN Bypass = {"bypass-clock-out", "bypass-clock-lunch-return", "release"}
    /\ Bypass["bypass-clock-out"] = "clocked_out"
    /\ Bypass["bypass-clock-lunch-return"] = "lunch_break_return"
    /\ Bypass["release"] = "clocked_out"
  BY DEF Bypass

LEMMA RefusalType ==
    ASSUME NEW day, NEW t
    PROVE  /\ Refusal(day, t) \in Types
           /\ Refusal(day, t) \in DOMAIN Bypass /\ Refusal(day, t) # "release" =>
                 Free(day, Bypass[Refusal(day, t)])
<1>1. Refusal(day, t) \in {"warning", "release", "bypass-clock-lunch-return", "bypass-clock-out", "info"}
  BY DEF Refusal
<1>2. Refusal(day, t) = "bypass-clock-lunch-return" => NextField(day) = "lunch_break_return"
  BY DEF Refusal
<1>3. Refusal(day, t) = "bypass-clock-out" => NextField(day) = "clocked_out"
  BY DEF Refusal
<1>4. {"lunch_break_return", "clocked_out"} \subseteq Fields
  BY FieldNames
<1>5. NextField(day) \in Fields => day[NextField(day)] = Unset
  BY NextFieldUnset
<1> QED BY <1>1, <1>2, <1>3, <1>4, <1>5, BypassOf DEF Types, Free

LEMMA ClocksInDoes ==
    ASSUME ScreenTyped, NEW s \in Flows, NEW seen \in Users, NEW e \in Employees,
           NEW how \in Sources, ClocksIn(s, seen, e, how)
    PROVE  \/ (\E x \in Recording : Punch(x, seen, e, how) /\ FlowTo(s, x)) /\ dialog' = dialog
           \/ Answer(dialog', seen, e, how) /\ FlowTo(s, NoFlow)
<1>a. seen[e] \in Day /\ clock \in Hours
  BY ScreenParts DEF Users
<1>1. ASSUME NEW f \in Fields, Records(e, seen[e], clock, f),
             FlowTo(s, [pc |-> "updating", seen |-> seen, of |-> e, check |-> seen[e],
                        field |-> f, hour |-> clock, source |-> how, call |-> "only",
                        asked |-> e, how |-> how])
      PROVE  \E x \in Recording : Punch(x, seen, e, how) /\ FlowTo(s, x)
  <2> DEFINE x == [pc |-> "updating", seen |-> seen, of |-> e, check |-> seen[e],
                   field |-> f, hour |-> clock, source |-> how, call |-> "only",
                   asked |-> e, how |-> how]
  <2>1. x \in Recording
    BY <1>a DEF Recording, Calls
  <2>2. Free(seen[e], f)
    BY <1>1, NextFieldUnset DEF Records, Free
  <2> QED BY <1>1, <2>1, <2>2 DEF Punch
<1>2. ASSUME dialog' = Shows(Refusal(seen[e], clock), e, how)
      PROVE  Answer(dialog', seen, e, how)
  BY <1>2, RefusalType DEF Answer, Shows, Dialog
<1> QED BY <1>1, <1>2 DEF ClocksIn

LEMMA HiddenType == Hidden \in Dialog
<1>1. "" \in Types /\ "card" \in Sources
  BY DEF Types, Sources
<1> QED BY <1>1 DEF Hidden, Dialog

LEMMA ScreenTypedInit == ScreenInit => ScreenTyped
<1> SUFFICES ASSUME ScreenInit PROVE ScreenTyped
  OBVIOUS
<1>1. Begun \subseteq Day
  BY PunchScreenAssumption DEF Begun, Day, Hours, Unset
<1>2. row \in Users /\ users \in Users
  BY <1>1 DEF ScreenInit, Users
<1>3. dialog \in Dialog /\ source \in Sources
  BY HiddenType DEF ScreenInit, Sources
<1>4. queue \in Seq(Flows \cup {"status"})
  BY DEF ScreenInit
<1>5. flow \in [Flows -> {NoFlow} \cup Reading \cup Identified \cup Recording]
  BY DEF ScreenInit
<1>6. clock \in Nat /\ begun \in Nat /\ clock <= LastHour /\ odd \subseteq Oddities
  BY PunchScreenAssumption DEF ScreenInit
<1>7. noCard \in {"closed", "email", "otp", "verifying"} /\ asking \in BOOLEAN /\ cancel \in BOOLEAN
      /\ clockUser \in [of : Employees, check : Day] \cup {NoUser}
  BY DEF ScreenInit
<1> QED BY <1>2, <1>3, <1>4, <1>5, <1>6, <1>7 DEF ScreenTyped, ScreenTypeOK

LEMMA QueueType ==
    ASSUME ScreenTyped
    PROVE  /\ queue # <<>> => Tail(queue) \in Seq(Flows \cup {"status"})
           /\ \A c \in Flows \cup {"status"} : Append(queue, c) \in Seq(Flows \cup {"status"})
<1> DEFINE Callers == Flows \cup {"status"}
<1>1. queue \in Seq(Callers)
  BY DEF ScreenTyped, ScreenTypeOK
<1> HIDE DEF Callers
<1>2. queue # <<>> => Tail(queue) \in Seq(Callers)
  BY <1>1
<1>3. \A c \in Callers : Append(queue, c) \in Seq(Callers)
  BY <1>1
<1> QED BY <1>2, <1>3 DEF Callers

LEMMA OddTyped ==
    ASSUME ScreenTyped, NEW what, IsOdd(what)
    PROVE  odd' \subseteq Oddities
  BY PunchScreenAssumption DEF ScreenTyped, ScreenTypeOK, IsOdd

LEMMA ReplacedType ==
    ASSUME ScreenTyped, NEW type \in Types, Replaces(type)
    PROVE  dialog' \in Dialog
  BY DEF ScreenTyped, ScreenTypeOK, Dialog, Replaces

LEMMA ClocksInType ==
    ASSUME ScreenTyped, NEW s \in Flows, NEW seen \in Users, NEW e \in Employees,
           NEW how \in Sources, ClocksIn(s, seen, e, how)
    PROVE  flow' \in [Flows -> Flow] /\ dialog' \in Dialog
<1>1. ASSUME NEW x \in Recording, FlowTo(s, x) PROVE flow' \in [Flows -> Flow]
  BY <1>1, FlowGoes DEF Flow
<1>2. FlowTo(s, NoFlow) => flow' \in [Flows -> Flow]
  BY FlowGoes DEF Flow
<1>3. dialog \in Dialog
  BY DEF ScreenTyped, ScreenTypeOK
<1> QED BY <1>1, <1>2, <1>3, ClocksInDoes DEF Answer

LEMMA ScreenTypedStep ==
    ASSUME ScreenTyped, Holds, [ScreenNext]_screenVars
    PROVE  ScreenTyped'
<1> SUFFICES ScreenTypeOK' /\ clock' <= LastHour
  BY DEF ScreenTyped
<1>a. ScreenTypeOK /\ clock <= LastHour /\ LastHour \in Nat
  BY PunchScreenAssumption DEF ScreenTyped
<1>b. \A s \in Flows : flow[s] \in Flow
  BY ScreenParts
<1>f. flow' \in [Flows -> Flow] => flow' \in [Flows -> {NoFlow} \cup Reading \cup Identified \cup Recording]
  BY DEF Flow
<1>i. NoFlow \in Flow
  BY DEF Flow
<1> USE DEF screenVars, screen, service
<1>1. CASE UNCHANGED screenVars
  BY <1>1, <1>a DEF ScreenTypeOK
<1>2. ASSUME NEW s \in Flows, Clicks(s) PROVE ScreenTypeOK' /\ clock' <= LastHour
  <2>1. [pc |-> "queued", seen |-> users] \in Flow
    BY <1>a DEF ScreenTypeOK, Flow, Reading
  <2>2. flow' \in [Flows -> Flow] /\ odd' \subseteq Oddities
    BY <1>2, <2>1, FlowGoes, OddTyped DEF Clicks
  <2>3. queue' \in Seq(Flows \cup {"status"})
    BY <1>2, QueueType DEF Clicks
  <2> QED BY <1>2, <1>a, <1>f, <2>2, <2>3 DEF Clicks, ScreenTypeOK, Starts, Sources
<1>3. CASE Polls \/ Polled
  <2>1. queue' \in Seq(Flows \cup {"status"})
    BY <1>3, QueueType DEF Polls, Polled
  <2> QED BY <1>3, <1>a, <2>1 DEF Polls, Polled, ScreenTypeOK
<1>4. ASSUME NEW s \in Flows, Waits(s) PROVE ScreenTypeOK' /\ clock' <= LastHour
  <2>1. [flow[s] EXCEPT !.pc = "waiting"] \in Flow
    BY <1>4, <1>b, FlowParts DEF Waits, Reading, Flow
  <2>2. flow' \in [Flows -> Flow]
    BY <1>4, <2>1, FlowGoes DEF Waits
  <2> QED BY <1>4, <1>a, <1>f, <2>2 DEF Waits, ScreenTypeOK
<1>5. ASSUME NEW s \in Flows, SeesCard(s) PROVE ScreenTypeOK' /\ clock' <= LastHour
  <2>1. PICK e \in Employees \cup {Nobody} :
              FlowTo(s, [pc |-> "identified", seen |-> flow[s].seen, of |-> e])
    BY <1>5 DEF SeesCard
  <2>2. [pc |-> "identified", seen |-> flow[s].seen, of |-> e] \in Flow
    BY <1>5, <1>b, FlowParts DEF SeesCard, Reading, Identified, Flow
  <2>3. flow' \in [Flows -> Flow]
    BY <2>1, <2>2, FlowGoes
  <2>4. queue' \in Seq(Flows \cup {"status"})
    BY <1>5, QueueType DEF SeesCard, Holds
  <2> QED BY <1>5, <1>a, <1>f, <2>3, <2>4 DEF SeesCard, ScreenTypeOK
<1>6. ASSUME NEW s \in Flows, GivesUp(s) PROVE ScreenTypeOK' /\ clock' <= LastHour
  <2>1. flow' \in [Flows -> Flow]
    BY <1>6, <1>i, FlowGoes DEF GivesUp
  <2>2. dialog' \in Dialog
    <3>1. "destroy" \in Types
      BY DEF Types
    <3> QED BY <1>6, <3>1, ReplacedType DEF GivesUp
  <2>3. queue' \in Seq(Flows \cup {"status"})
    BY <1>6, QueueType DEF GivesUp, Holds
  <2> QED BY <1>6, <1>a, <1>f, <2>1, <2>2, <2>3 DEF GivesUp, ScreenTypeOK
<1>7. ASSUME NEW s \in Flows, TapOk(s) PROVE ScreenTypeOK' /\ clock' <= LastHour
  <2>1. flow[s].seen \in Users /\ flow[s].of \in Employees
    BY <1>7, <1>b, FlowParts DEF TapOk, Identified
  <2>2. flow' \in [Flows -> Flow] /\ dialog' \in Dialog
    BY <1>7, <2>1, ClocksInType DEF TapOk, Sources
  <2>3. clockUser' \in [of : Employees, check : Day]
    BY <1>7, <2>1 DEF TapOk, Users
  <2> QED BY <1>7, <1>a, <1>f, <2>2, <2>3 DEF TapOk, ScreenTypeOK
<1>8. ASSUME NEW s \in Flows, TapRefused(s) PROVE ScreenTypeOK' /\ clock' <= LastHour
  <2>1. flow' \in [Flows -> Flow]
    BY <1>8, <1>i, FlowGoes DEF TapRefused
  <2>2. dialog' \in Dialog
    BY <1>8 DEF TapRefused, Shows, Dialog, Types, Sources
  <2> QED BY <1>8, <1>a, <1>f, <2>1, <2>2 DEF TapRefused, ScreenTypeOK
<1>9. CASE Cancels \/ OpensNoCard \/ RequestsOtp \/ NoCardMoves
  BY <1>9, <1>a DEF Cancels, OpensNoCard, RequestsOtp, NoCardMoves, ScreenTypeOK
<1>10. ASSUME NEW s \in Flows, Verifies(s) PROVE ScreenTypeOK' /\ clock' <= LastHour
  <2>1. [pc |-> "verifying", seen |-> users] \in Flow
    BY <1>a DEF ScreenTypeOK, Flow, Reading
  <2>2. flow' \in [Flows -> Flow] /\ odd' \subseteq Oddities
    BY <1>10, <2>1, FlowGoes, OddTyped DEF Verifies
  <2> QED BY <1>10, <1>a, <1>f, <2>2 DEF Verifies, ScreenTypeOK, Starts
<1>11. ASSUME NEW s \in Flows, Verified(s) PROVE ScreenTypeOK' /\ clock' <= LastHour
  <2>1. flow[s].seen \in Users
    BY <1>11, <1>b, FlowParts DEF Verified, Reading
  <2>2. PICK e \in Employees : /\ clockUser' = [of |-> e, check |-> flow[s].seen[e]]
                               /\ ClocksIn(s, flow[s].seen, e, "manual_otp")
    BY <1>11 DEF Verified
  <2>3. flow' \in [Flows -> Flow] /\ dialog' \in Dialog
    BY <2>1, <2>2, ClocksInType DEF Sources
  <2>4. clockUser' \in [of : Employees, check : Day]
    BY <2>1, <2>2 DEF Users
  <2> QED BY <1>11, <1>a, <1>f, <2>3, <2>4 DEF Verified, ScreenTypeOK, Sources
<1>12. ASSUME NEW s \in Flows, VerifyFails(s) PROVE ScreenTypeOK' /\ clock' <= LastHour
  <2>1. flow' \in [Flows -> Flow]
    BY <1>12, <1>i, FlowGoes DEF VerifyFails
  <2> QED BY <1>12, <1>a, <1>f, <2>1 DEF VerifyFails, ScreenTypeOK
<1>13. ASSUME NEW s \in Flows, Writes(s) PROVE ScreenTypeOK' /\ clock' <= LastHour
  <2>1. flow[s] \in Recording
    BY <1>13, <1>b, FlowParts DEF Writes, AtRecord
  <2>2. [flow[s] EXCEPT !.pc = "written"] \in Flow
    BY <2>1 DEF Recording, Flow
  <2>3. flow' \in [Flows -> Flow]
    BY <1>13, <2>2, FlowGoes DEF Writes
  <2>4. With(row[flow[s].of], flow[s].field, flow[s].hour) \in Day
    BY <1>a, <2>1, WithType DEF ScreenTypeOK, Users, Recording
  <2>5. row' \in Users
    BY <1>13, <1>a, <2>4 DEF Writes, ScreenTypeOK, Users
  <2> QED BY <1>13, <1>a, <1>f, <2>3, <2>5 DEF Writes, ScreenTypeOK
<1>14. ASSUME NEW s \in Flows, Resolves(s) PROVE ScreenTypeOK' /\ clock' <= LastHour
  <2>1. flow[s] \in Recording
    BY <1>14, <1>b, FlowParts DEF Resolves, AtRecord
  <2>2. [flow[s] EXCEPT !.pc = "updating", !.call = "second"] \in Flow
    BY <2>1 DEF Recording, Flow, Calls
  <2>3. flow' \in [Flows -> Flow]
    BY <1>14, <1>i, <2>2, FlowGoes DEF Resolves
  <2>4. With(flow[s].check, flow[s].field, flow[s].hour) \in Day
    BY <2>1, WithType DEF Recording
  <2>5. users' \in Users
    BY <1>14, <1>a, <2>1, <2>4 DEF Resolves, ScreenTypeOK, Users, Recording
  <2>6. dialog' \in Dialog
    BY <1>14, <2>1 DEF Resolves, Shows, Dialog, Types, Recording
  <2> QED BY <1>14, <1>a, <1>f, <2>3, <2>5, <2>6 DEF Resolves, ScreenTypeOK
<1>15. ASSUME NEW s \in Flows, UpdateFails(s) PROVE ScreenTypeOK' /\ clock' <= LastHour
  <2>1. flow[s] \in Recording
    BY <1>15, <1>b, FlowParts DEF UpdateFails, AtRecord
  <2>2. flow' \in [Flows -> Flow] /\ odd' \subseteq Oddities
    BY <1>15, <1>i, FlowGoes, OddTyped DEF UpdateFails
  <2>3. dialog' \in Dialog
    <3>1. "destroy" \in Types /\ Shows("destroy", flow[s].of, flow[s].source) \in Dialog
      BY <2>1 DEF Shows, Dialog, Types, Recording
    <3> QED BY <1>15, <3>1, ReplacedType DEF UpdateFails
  <2> QED BY <1>15, <1>a, <1>f, <2>2, <2>3 DEF UpdateFails, ScreenTypeOK
<1>16. ASSUME NEW s \in Flows, Confirms(s) PROVE ScreenTypeOK' /\ clock' <= LastHour
  <2>1. dialog' \in Dialog
    BY <1>16, HiddenType DEF Confirms
  <2>2. CASE clockUser = NoUser
    <3>1. asking' \in BOOLEAN
      BY <1>16, <1>a, <2>2 DEF Confirms, ScreenTypeOK
    <3> QED BY <1>16, <1>a, <2>1, <2>2, <3>1 DEF Confirms, ScreenTypeOK
  <2>3. CASE clockUser # NoUser
    <3> DEFINE x == [pc |-> "updating", seen |-> users, of |-> clockUser.of,
                     check |-> clockUser.check, field |-> Bypass[dialog.type],
                     hour |-> clock, source |-> source, call |-> "first",
                     asked |-> dialog.of, how |-> dialog.how]
    <3>1. clockUser \in [of : Employees, check : Day] /\ dialog \in Dialog /\ source \in Sources
      BY <1>a, <2>3 DEF ScreenTypeOK
    <3>2. Bypass[dialog.type] \in Fields
      BY <1>16, BypassOf, FieldNames DEF Confirms
    <3>3. x \in Recording
      BY <1>a, <3>1, <3>2, ScreenParts DEF ScreenTypeOK, Recording, Dialog, Calls
    <3>4. FlowTo(s, x) /\ asking' = FALSE /\ Starts
          /\ IsOdd(Overlap \cup ({dialog.type} \cap {"release"}))
      BY <1>16, <2>3 DEF Confirms
    <3>5. flow' \in [Flows -> Flow] /\ odd' \subseteq Oddities
      BY <3>3, <3>4, FlowGoes, OddTyped DEF Flow
    <3>6. asking' \in BOOLEAN /\ begun' = begun + 1 /\ begun \in Nat
      BY <1>a, <3>4 DEF ScreenTypeOK, Starts
    <3>8. begun' \in Nat
      BY <3>6
    <3>7. UNCHANGED <<row, users, noCard, clockUser, source, queue, cancel, clock>>
      BY <1>16 DEF Confirms
    <3> HIDE DEF x
    <3> QED BY <1>a, <1>f, <2>1, <3>5, <3>6, <3>7, <3>8 DEF ScreenTypeOK
  <2> QED BY <2>2, <2>3
<1>17. CASE Dismisses
  <2>1. dialog' \in Dialog /\ asking' \in BOOLEAN
    BY <1>17, <1>a, HiddenType DEF Dismisses, ScreenTypeOK
  <2> QED BY <1>17, <1>a, <2>1 DEF Dismisses, ScreenTypeOK
<1>18. CASE Refreshes
  BY <1>18, <1>a DEF Refreshes, ScreenTypeOK
<1>19. CASE OthersWrite
  <2>1. PICK e \in Employees, f \in Fields : row' = [row EXCEPT ![e] = With(@, f, clock)]
    BY <1>19 DEF OthersWrite
  <2>2. With(row[e], f, clock) \in Day
    BY <1>a, ScreenParts, WithType DEF Users
  <2>3. row' \in Users /\ odd' \subseteq Oddities
    BY <1>19, <1>a, <2>1, <2>2, OddTyped DEF OthersWrite, ScreenTypeOK, Users
  <2> QED BY <1>19, <1>a, <2>3 DEF OthersWrite, ScreenTypeOK
<1>20. CASE HourPasses
  BY <1>20, <1>a DEF HourPasses, ScreenTypeOK
<1> QED BY <1>1, <1>2, <1>3, <1>4, <1>5, <1>6, <1>7, <1>8, <1>9, <1>10, <1>11, <1>12, <1>13, <1>14,
           <1>15, <1>16, <1>17, <1>18, <1>19, <1>20 DEF ScreenNext, Proceeds

-----------------------------------------------------------------------------
(* One promise at a time.                                                   *)

LEMMA OddGrows == [ScreenNext]_screenVars => odd \subseteq odd'
<1> SUFFICES ASSUME [ScreenNext]_screenVars PROVE odd \subseteq odd'
  OBVIOUS
<1>1. ASSUME NEW what, IsOdd(what) PROVE odd \subseteq odd'
  BY <1>1 DEF IsOdd
<1>2. ASSUME NEW s \in Flows, Proceeds(s) PROVE odd \subseteq odd'
  BY <1>2, <1>1 DEF Proceeds, Waits, SeesCard, GivesUp, TapOk, TapRefused, Verified,
                    VerifyFails, Writes, Resolves, UpdateFails
<1>3. ASSUME NEW s \in Flows, Clicks(s) \/ Verifies(s) \/ Confirms(s) PROVE odd \subseteq odd'
  BY <1>3, <1>1 DEF Clicks, Verifies, Confirms
<1>4. CASE \/ Polls \/ Polled \/ Cancels \/ OpensNoCard \/ RequestsOtp \/ NoCardMoves
           \/ Dismisses \/ Refreshes \/ OthersWrite \/ HourPasses
  BY <1>4, <1>1 DEF Polls, Polled, Cancels, OpensNoCard, RequestsOtp, NoCardMoves,
                    Dismisses, Refreshes, OthersWrite, HourPasses
<1> QED BY <1>2, <1>3, <1>4 DEF ScreenNext, screenVars

LEMMA HoldsStep ==
    ASSUME ScreenTyped, Holds, [ScreenNext]_screenVars
    PROVE  Holds'
<1>i. NoFlow.pc = "idle"
  BY DEF NoFlow
<1>1. ASSUME NEW s \in Flows, NEW x, FlowTo(s, x), x.pc # "waiting", queue' = queue
      PROVE  Holds'
  BY <1>1, FlowGoes DEF Holds
<1>2. ASSUME NEW s \in Flows, NEW x, FlowTo(s, x), x.pc # "waiting", flow[s].pc = "waiting"
      PROVE  Holds'
  BY <1>2, FlowGoes DEF Holds
<1>3. ASSUME NEW c \in Flows \cup {"status"}, queue' = Append(queue, c), queue # <<>>
      PROVE  queue' # <<>> /\ Head(queue') = Head(queue)
  <2> DEFINE Callers == Flows \cup {"status"}
  <2>1. queue \in Seq(Callers) /\ c \in Callers
    BY DEF ScreenTyped, ScreenTypeOK
  <2> HIDE DEF Callers
  <2> QED BY <1>3, <2>1
<1>4. CASE flow' = flow /\ queue' = queue
  BY <1>4 DEF Holds
<1>5. ASSUME NEW s \in Flows, Clicks(s) PROVE Holds'
  <2>1. FlowTo(s, [pc |-> "queued", seen |-> users]) /\ queue' = Append(queue, s)
    BY <1>5 DEF Clicks
  <2>2. flow'[s].pc = "queued" /\ \A t \in Flows : t # s => flow'[t] = flow[t]
    BY <2>1, FlowGoes
  <2> QED BY <2>1, <2>2, <1>3 DEF Holds
<1>6. CASE Polls
  BY <1>6, <1>3 DEF Polls, Holds
<1>7. CASE Polled
  BY <1>7, PunchScreenAssumption DEF Polled, Holds
<1>8. ASSUME NEW s \in Flows, Waits(s) PROVE Holds'
  <2>1. \A t \in Flows : t # s => flow'[t] = flow[t]
    BY <1>8, FlowGoes DEF Waits
  <2> QED BY <1>8, <2>1, PunchScreenAssumption DEF Holds, Waits
<1>9. ASSUME NEW s \in Flows, SeesCard(s) PROVE Holds'
  BY <1>9, <1>2 DEF SeesCard
<1>10. ASSUME NEW s \in Flows, GivesUp(s) PROVE Holds'
  BY <1>10, <1>2, <1>i DEF GivesUp
<1>11. ASSUME NEW s \in Flows, TapOk(s) PROVE Holds'
  <2>1. flow[s].seen \in Users /\ flow[s].of \in Employees
    BY <1>11, ScreenParts, FlowParts DEF TapOk, Identified
  <2>2. \E x : FlowTo(s, x) /\ x.pc # "waiting"
    BY <1>11, <1>i, <2>1, ClocksInDoes DEF TapOk, Sources, Punch
  <2> QED BY <1>1, <1>11, <2>2 DEF TapOk, service
<1>12. ASSUME NEW s \in Flows, TapRefused(s) \/ VerifyFails(s) \/ UpdateFails(s) PROVE Holds'
  BY <1>12, <1>1, <1>i DEF TapRefused, VerifyFails, UpdateFails, service
<1>13. ASSUME NEW s \in Flows, Verified(s) PROVE Holds'
  <2>1. flow[s].seen \in Users
    BY <1>13, ScreenParts, FlowParts DEF Verified, Reading
  <2>2. \E x : FlowTo(s, x) /\ x.pc # "waiting"
    BY <1>13, <1>i, <2>1, ClocksInDoes DEF Verified, Sources, Punch
  <2> QED BY <1>1, <1>13, <2>2 DEF Verified, service
<1>14. ASSUME NEW s \in Flows, Verifies(s) PROVE Holds'
  BY <1>14, <1>1 DEF Verifies, service
<1>15. ASSUME NEW s \in Flows, Writes(s) \/ Resolves(s) PROVE Holds'
  <2>1. flow[s] \in Recording
    BY <1>15, ScreenParts, FlowParts DEF Writes, Resolves, AtRecord
  <2>2. [flow[s] EXCEPT !.pc = "written"].pc = "written"
        /\ [flow[s] EXCEPT !.pc = "updating", !.call = "second"].pc = "updating"
    BY <2>1 DEF Recording
  <2>3. \E x : FlowTo(s, x) /\ x.pc # "waiting"
    BY <1>15, <1>i, <2>2 DEF Writes, Resolves
  <2> QED BY <1>1, <1>15, <2>3 DEF Writes, Resolves, service
<1>16. ASSUME NEW s \in Flows, Confirms(s) PROVE Holds'
  <2>1. queue' = queue /\ (flow' = flow \/ \E x : FlowTo(s, x) /\ x.pc # "waiting")
    <3>1. CASE clockUser = NoUser
      BY <1>16, <3>1 DEF Confirms, service
    <3>2. CASE clockUser # NoUser
      <4> DEFINE x == [pc |-> "updating", seen |-> users, of |-> clockUser.of,
                       check |-> clockUser.check, field |-> Bypass[dialog.type],
                       hour |-> clock, source |-> source, call |-> "first",
                       asked |-> dialog.of, how |-> dialog.how]
      <4>1. FlowTo(s, x) /\ queue' = queue
        BY <1>16, <3>2 DEF Confirms, service
      <4>2. x.pc # "waiting"
        OBVIOUS
      <4> QED BY <4>1, <4>2
    <3> QED BY <3>1, <3>2
  <2> QED BY <1>1, <1>4, <2>1
<1>17. CASE \/ Cancels \/ OpensNoCard \/ RequestsOtp \/ NoCardMoves
            \/ Dismisses \/ Refreshes \/ OthersWrite \/ HourPasses
  BY <1>4, <1>17 DEF Cancels, OpensNoCard, RequestsOtp, NoCardMoves, service,
                     Dismisses, Refreshes, OthersWrite, HourPasses
<1>18. CASE UNCHANGED screenVars
  BY <1>4, <1>18 DEF screenVars
<1> QED BY <1>5, <1>6, <1>7, <1>8, <1>9, <1>10, <1>11, <1>12, <1>13, <1>14, <1>15, <1>16, <1>17, <1>18
        DEF ScreenNext, Proceeds

\* A step of a promise that is under way, and the start of one.
LEMMA OneMoves ==
    ASSUME ScreenTyped, OneFlow, NEW s \in Flows, flow[s] # NoFlow, NEW x, FlowTo(s, x)
    PROVE  /\ ~Offers
           /\ \A t \in Flows : t # s => flow[t] = NoFlow /\ flow'[t] = NoFlow
           /\ \A t, u \in Flows : flow'[t] # NoFlow /\ flow'[u] # NoFlow => t = u
           /\ x = NoFlow => Settled'
<1>1. \A t \in Flows : t # s => flow[t] = NoFlow
  BY DEF OneFlow
<1>2. flow'[s] = x /\ \A t \in Flows : t # s => flow'[t] = NoFlow
  BY <1>1, FlowGoes
<1>3. ~Offers
  BY DEF OneFlow, Settled
<1> QED BY <1>1, <1>2, <1>3 DEF Settled

LEMMA OneStarts ==
    ASSUME ScreenTyped, Settled, NEW s \in Flows, NEW x, FlowTo(s, x)
    PROVE  /\ \A t \in Flows : t # s => flow'[t] = NoFlow
           /\ \A t, u \in Flows : flow'[t] # NoFlow /\ flow'[u] # NoFlow => t = u
<1>1. \A t \in Flows : t # s => flow'[t] = NoFlow
  BY FlowGoes DEF Settled
<1> QED BY <1>1

\* A step that excludes the overlap starts nothing beside another.
LEMMA StartsAlone ==
    ASSUME NEW what, IsOdd(Overlap \cup what), Calm({"overlap"})'
    PROVE  Settled
  BY DEF IsOdd, Overlap, Calm

LEMMA NotOffered ==
    ASSUME ScreenTyped, NEW type \in {"success", "destroy"}
    PROVE  /\ \A e, how : dialog' = Shows(type, e, how) => ~Offers'
           /\ ~Offers /\ Replaces(type) => ~Offers'
<1>1. type \notin DOMAIN Bypass
  BY BypassOf
<1>2. ASSUME NEW e, NEW how, dialog' = Shows(type, e, how) PROVE ~Offers'
  BY <1>1, <1>2 DEF Shows, Offers
<1>3. ASSUME ~Offers, Replaces(type) PROVE ~Offers'
  BY <1>1, <1>3 DEF Replaces, Offers, ScreenTyped, ScreenTypeOK, Dialog
<1> QED BY <1>2, <1>3

\* What a tap or a code sets moving.
LEMMA ClocksInMoves ==
    ASSUME ScreenTyped, NEW s \in Flows, NEW seen \in Users, NEW e \in Employees,
           NEW how \in Sources, ClocksIn(s, seen, e, how)
    PROVE  \E x \in Flow :
              /\ FlowTo(s, x)
              /\ \/ Punch(x, seen, e, how) /\ dialog' = dialog
                 \/ x = NoFlow /\ Answer(dialog', seen, e, how)
<1>1. NoFlow \in Flow /\ Recording \subseteq Flow
  BY DEF Flow
<1> QED BY <1>1, ClocksInDoes

LEMMA HiddenOffers == dialog' = Hidden => ~Offers'
<1>1. Hidden.open = FALSE
  BY DEF Hidden
<1> SUFFICES ASSUME dialog' = Hidden PROVE ~Offers'
  OBVIOUS
<1>2. dialog'.open = FALSE
  BY <1>1
<1> QED BY <1>2, Zenon DEF Offers

LEMMA OneFlowStep ==
    ASSUME ScreenTyped, OneFlow, [ScreenNext]_screenVars, Calm({"overlap"})'
    PROVE  OneFlow'
<1> USE DEF screen, service
<1>a. NoFlow.pc = "idle"
  BY DEF NoFlow
<1>b. \A s \in Flows : flow[s].pc # "idle" => flow[s] # NoFlow
  BY <1>a
<1>1. ASSUME NEW s \in Flows, flow[s] # NoFlow, NEW x, FlowTo(s, x), x = NoFlow \/ ~Offers'
      PROVE  OneFlow'
  BY <1>1, OneMoves DEF OneFlow
<1>2. ASSUME Settled, NEW s \in Flows, NEW x, FlowTo(s, x), ~Offers'
      PROVE  OneFlow'
  BY <1>2, OneStarts DEF OneFlow
<1>3. ASSUME flow' = flow, Offers' => Offers
      PROVE  OneFlow'
  BY <1>3 DEF OneFlow, Settled
<1>4. dialog' = dialog => (Offers' => Offers)
  BY DEF Offers
<1>5. dialog' = Hidden => ~Offers'
  BY HiddenOffers
<1>6. ASSUME NEW s \in Flows, Clicks(s) PROVE OneFlow'
  <2>1. Settled
    BY <1>6, StartsAlone DEF Clicks
  <2>2. ~Offers'
    BY <1>6 DEF Clicks, Offers
  <2> QED BY <1>2, <1>6, <2>1, <2>2 DEF Clicks
<1>7. ASSUME NEW s \in Flows, Verifies(s) PROVE OneFlow'
  <2>1. Settled
    BY <1>7, StartsAlone DEF Verifies
  <2>2. ~Offers'
    BY <1>7 DEF Verifies, Offers
  <2> QED BY <1>2, <1>7, <2>1, <2>2 DEF Verifies
<1>8. ASSUME NEW s \in Flows, Confirms(s) PROVE OneFlow'
  <2>1. Settled /\ ~Offers'
    BY <1>5, <1>8 DEF Confirms, OneFlow, Offers
  <2>2. flow' = flow \/ \E x : FlowTo(s, x)
    BY <1>8 DEF Confirms
  <2> QED BY <1>2, <1>3, <2>1, <2>2
<1>9. ASSUME NEW s \in Flows, Waits(s) \/ SeesCard(s) \/ Writes(s) PROVE OneFlow'
  <2>1. flow[s] # NoFlow /\ dialog' = dialog /\ \E x : FlowTo(s, x)
    BY <1>9, <1>b DEF Waits, SeesCard, Writes
  <2> QED BY <1>1, <1>4, <2>1, OneMoves
<1>10. ASSUME NEW s \in Flows, GivesUp(s) \/ TapRefused(s) \/ VerifyFails(s) \/ UpdateFails(s)
       PROVE  OneFlow'
  <2>1. flow[s] # NoFlow /\ FlowTo(s, NoFlow)
    BY <1>10, <1>b DEF GivesUp, TapRefused, VerifyFails, UpdateFails
  <2> QED BY <1>1, <2>1
<1>11. ASSUME NEW s \in Flows, NEW seen \in Users, NEW e \in Employees, NEW how \in Sources,
              ClocksIn(s, seen, e, how), flow[s] # NoFlow
       PROVE  OneFlow'
  BY <1>1, <1>4, <1>11, ClocksInMoves, OneMoves
<1>12. ASSUME NEW s \in Flows, TapOk(s) PROVE OneFlow'
  <2>1. flow[s].seen \in Users /\ flow[s].of \in Employees /\ flow[s] # NoFlow
    BY <1>12, <1>b, ScreenParts, FlowParts DEF TapOk, Identified
  <2> QED BY <1>11, <1>12, <2>1 DEF TapOk, Sources
<1>13. ASSUME NEW s \in Flows, Verified(s) PROVE OneFlow'
  <2>1. flow[s].seen \in Users /\ flow[s] # NoFlow
    BY <1>13, <1>b, ScreenParts, FlowParts DEF Verified, Reading
  <2> QED BY <1>11, <1>13, <2>1 DEF Verified, Sources
<1>14. ASSUME NEW s \in Flows, Resolves(s) PROVE OneFlow'
  <2>1. flow[s] # NoFlow /\ (\E x : FlowTo(s, x)) /\ dialog' = Shows("success", flow[s].of, flow[s].source)
    BY <1>14, <1>b DEF Resolves
  <2> QED BY <1>1, <2>1, NotOffered
<1>15. CASE Dismisses
  BY <1>3, <1>5, <1>15 DEF Dismisses
<1>16. CASE \/ Polls \/ Polled \/ Cancels \/ OpensNoCard \/ RequestsOtp \/ NoCardMoves
            \/ Refreshes \/ OthersWrite \/ HourPasses
  <2>1. flow' = flow /\ dialog' = dialog
    BY <1>16 DEF Polls, Polled, Cancels, OpensNoCard, RequestsOtp, NoCardMoves,
                 Refreshes, OthersWrite, HourPasses
  <2> QED BY <1>3, <1>4, <2>1
<1>17. CASE UNCHANGED screenVars
  BY <1>3, <1>4, <1>17 DEF screenVars
<1> QED BY <1>6, <1>7, <1>8, <1>9, <1>10, <1>12, <1>13, <1>14, <1>15, <1>16, <1>17 DEF ScreenNext, Proceeds

\* What is kept for a reading: the source, who is asked, and the flow's own history.
Owned(f) ==
    /\ f.pc \in {"queued", "waiting", "identified"} => source = "card"
    /\ AtRecord(f) => f.of = f.asked /\ f.source = f.how
OwnedDialog == Offers => source = dialog.how /\ (clockUser # NoUser => clockUser.of = dialog.of)

LEMMA ActsOwnParts == ActsOwn <=> (\A s \in Flows : Owned(flow[s])) /\ OwnedDialog
  BY DEF ActsOwn, Owned, OwnedDialog

LEMMA ActsOwnPartsNext ==
    (\A s \in Flows : Owned(flow[s])') /\ OwnedDialog' => ActsOwn'
  BY DEF ActsOwn, Owned, OwnedDialog

LEMMA ActsOwnStep ==
    ASSUME ScreenTyped, OneFlow, ActsOwn, [ScreenNext]_screenVars, Calm({"overlap"})'
    PROVE  ActsOwn'
<1> USE DEF screen, service
<1>a. NoFlow.pc = "idle"
  BY DEF NoFlow
<1>b. \A s \in Flows : flow[s].pc # "idle" => flow[s] # NoFlow
  BY <1>a
<1>c. (\A s \in Flows : Owned(flow[s])) /\ OwnedDialog
  BY ActsOwnParts
<1>i. ASSUME NEW t \in Flows, flow'[t] = NoFlow PROVE Owned(flow[t])'
  BY <1>i, <1>a DEF Owned, AtRecord
<1>n. ~Offers' => OwnedDialog'
  BY DEF OwnedDialog
<1>1. ASSUME NEW s \in Flows, flow[s] # NoFlow, NEW x, FlowTo(s, x), Owned(flow[s])', OwnedDialog'
      PROVE  ActsOwn'
  BY <1>1, <1>i, OneMoves, ActsOwnPartsNext
<1>2. ASSUME Settled, NEW s \in Flows, NEW x, FlowTo(s, x), Owned(flow[s])', OwnedDialog'
      PROVE  ActsOwn'
  BY <1>2, <1>i, OneStarts, ActsOwnPartsNext
<1>3. ASSUME flow' = flow, source' = source, OwnedDialog'
      PROVE  ActsOwn'
  BY <1>3, <1>c, ActsOwnPartsNext DEF Owned
<1>4. dialog' = Hidden => ~Offers'
  BY HiddenOffers
<1>5. ASSUME dialog' = dialog, ~Offers PROVE ~Offers'
  BY <1>5 DEF Offers
<1>6. ASSUME NEW s \in Flows, Clicks(s) PROVE ActsOwn'
  <2>1. Settled
    BY <1>6, StartsAlone DEF Clicks
  <2>2. ~Offers'
    BY <1>6 DEF Clicks, Offers
  <2>3. flow'[s] = [pc |-> "queued", seen |-> users] /\ source' = "card"
    BY <1>6, FlowGoes DEF Clicks
  <2>4. Owned(flow[s])'
    BY <2>3 DEF Owned, AtRecord
  <2> QED BY <1>2, <1>6, <1>n, <2>1, <2>2, <2>4 DEF Clicks
<1>7. ASSUME NEW s \in Flows, Verifies(s) PROVE ActsOwn'
  <2>1. Settled
    BY <1>7, StartsAlone DEF Verifies
  <2>2. ~Offers'
    BY <1>7 DEF Verifies, Offers
  <2>3. flow'[s] = [pc |-> "verifying", seen |-> users]
    BY <1>7, FlowGoes DEF Verifies
  <2>4. Owned(flow[s])'
    BY <2>3 DEF Owned, AtRecord
  <2> QED BY <1>2, <1>7, <1>n, <2>1, <2>2, <2>4 DEF Verifies
<1>8. ASSUME NEW s \in Flows, Confirms(s) PROVE ActsOwn'
  <2>1. Settled /\ Offers /\ ~Offers'
    BY <1>4, <1>8 DEF Confirms, OneFlow, Offers
  <2>2. CASE clockUser = NoUser
    BY <1>3, <1>8, <1>n, <2>1, <2>2 DEF Confirms
  <2>3. CASE clockUser # NoUser
    <3> DEFINE x == [pc |-> "updating", seen |-> users, of |-> clockUser.of,
                     check |-> clockUser.check, field |-> Bypass[dialog.type],
                     hour |-> clock, source |-> source, call |-> "first",
                     asked |-> dialog.of, how |-> dialog.how]
    <3>1. FlowTo(s, x)
      BY <1>8, <2>3 DEF Confirms
    <3>2. source = dialog.how /\ clockUser.of = dialog.of
      BY <1>c, <2>1, <2>3 DEF OwnedDialog
    <3>3. x.of = x.asked /\ x.source = x.how /\ x.pc = "updating"
      BY <3>2
    <3> HIDE DEF x
    <3>4. flow'[s] = x
      BY <3>1, FlowGoes
    <3>5. Owned(flow[s])'
      BY <3>3, <3>4 DEF Owned
    <3> QED BY <1>2, <1>n, <2>1, <3>1, <3>5
  <2> QED BY <2>2, <2>3
<1>9. ASSUME NEW s \in Flows, Waits(s) \/ SeesCard(s) PROVE ActsOwn'
  <2>1. flow[s] # NoFlow /\ dialog' = dialog /\ source' = source /\ flow[s].pc \in {"queued", "waiting"}
    BY <1>9, <1>b DEF Waits, SeesCard
  <2>2. flow[s] \in Reading
    BY <2>1, ScreenParts, FlowParts
  <2>3. \E x : FlowTo(s, x) /\ x.pc \in {"waiting", "identified"}
    <3>1. [flow[s] EXCEPT !.pc = "waiting"].pc = "waiting"
      BY <2>2 DEF Reading
    <3>2. \A e : [pc |-> "identified", seen |-> flow[s].seen, of |-> e].pc = "identified"
      OBVIOUS
    <3> QED BY <1>9, <3>1, <3>2 DEF Waits, SeesCard
  <2>4. PICK x : FlowTo(s, x) /\ x.pc \in {"waiting", "identified"}
    BY <2>3
  <2>5. flow'[s] = x
    BY <2>4, FlowGoes
  <2>6. Owned(flow[s])'
    BY <1>c, <2>1, <2>4, <2>5 DEF Owned, AtRecord
  <2>7. ~Offers'
    BY <1>5, <2>1, <2>4, OneMoves
  <2> QED BY <1>1, <1>n, <2>1, <2>4, <2>6, <2>7
<1>10. ASSUME NEW s \in Flows, flow[s] # NoFlow, FlowTo(s, NoFlow), ~Offers'
       PROVE  ActsOwn'
  <2>1. flow'[s] = NoFlow
    BY <1>10, FlowGoes
  <2> QED BY <1>1, <1>10, <1>i, <1>n, <2>1
<1>11. ASSUME NEW s \in Flows, GivesUp(s) PROVE ActsOwn'
  <2>1. flow[s] # NoFlow /\ FlowTo(s, NoFlow) /\ Replaces("destroy")
    BY <1>11, <1>b DEF GivesUp
  <2> QED BY <1>10, <2>1, OneMoves, NotOffered
<1>12. ASSUME NEW s \in Flows, TapRefused(s) PROVE ActsOwn'
  <2>1. flow[s] # NoFlow /\ FlowTo(s, NoFlow) /\ dialog' = Shows("destroy", Nobody, "card")
    BY <1>12, <1>b DEF TapRefused
  <2> QED BY <1>10, <2>1, NotOffered
<1>13. ASSUME NEW s \in Flows, VerifyFails(s) PROVE ActsOwn'
  <2>1. flow[s] # NoFlow /\ FlowTo(s, NoFlow) /\ dialog' = dialog
    BY <1>13, <1>b DEF VerifyFails
  <2> QED BY <1>5, <1>10, <2>1, OneMoves
<1>14. ASSUME NEW s \in Flows, UpdateFails(s) PROVE ActsOwn'
  <2>1. flow[s] # NoFlow /\ FlowTo(s, NoFlow)
    BY <1>14, <1>b DEF UpdateFails
  <2>2. Replaces("destroy") \/ dialog' = Shows("destroy", flow[s].of, flow[s].source)
    BY <1>14 DEF UpdateFails
  <2> QED BY <1>10, <2>1, <2>2, OneMoves, NotOffered
<1>15. ASSUME NEW s \in Flows, Writes(s) PROVE ActsOwn'
  <2>1. flow[s] # NoFlow /\ dialog' = dialog /\ FlowTo(s, [flow[s] EXCEPT !.pc = "written"])
    BY <1>15, <1>b DEF Writes
  <2>2. flow[s] \in Recording /\ AtRecord(flow[s])
    BY <1>15, ScreenParts, FlowParts DEF Writes, AtRecord
  <2>3. flow'[s] = [flow[s] EXCEPT !.pc = "written"]
    BY <2>1, FlowGoes
  <2>4. Owned(flow[s])'
    BY <1>c, <2>2, <2>3 DEF Owned, Recording, AtRecord
  <2> QED BY <1>1, <1>5, <1>n, <2>1, <2>4, OneMoves
<1>16. ASSUME NEW s \in Flows, Resolves(s) PROVE ActsOwn'
  <2>1. flow[s] # NoFlow /\ dialog' = Shows("success", flow[s].of, flow[s].source)
    BY <1>16, <1>b DEF Resolves
  <2>2. ~Offers'
    BY <2>1, NotOffered
  <2>3. CASE FlowTo(s, NoFlow)
    BY <1>10, <2>1, <2>2, <2>3
  <2>4. CASE FlowTo(s, [flow[s] EXCEPT !.pc = "updating", !.call = "second"])
    <3>1. flow[s] \in Recording /\ AtRecord(flow[s])
      BY <1>16, ScreenParts, FlowParts DEF Resolves, AtRecord
    <3>2. flow'[s] = [flow[s] EXCEPT !.pc = "updating", !.call = "second"]
      BY <2>4, FlowGoes
    <3>3. Owned(flow[s])'
      BY <1>c, <3>1, <3>2 DEF Owned, Recording, AtRecord
    <3> QED BY <1>1, <1>n, <2>1, <2>2, <2>4, <3>3
  <2> QED BY <1>16, <2>3, <2>4 DEF Resolves
<1>17. ASSUME NEW s \in Flows, flow[s] # NoFlow, NEW seen \in Users, NEW e \in Employees, NEW how \in Sources,
              ClocksIn(s, seen, e, how), source' = how, clockUser' = [of |-> e, check |-> seen[e]]
       PROVE  ActsOwn'
  <2>1. PICK x \in Flow :
              /\ FlowTo(s, x)
              /\ \/ Punch(x, seen, e, how) /\ dialog' = dialog
                 \/ x = NoFlow /\ Answer(dialog', seen, e, how)
    BY <1>17, ClocksInMoves
  <2>2. flow'[s] = x
    BY <2>1, FlowGoes
  <2>3. CASE Punch(x, seen, e, how) /\ dialog' = dialog
    <3>1. Owned(flow[s])'
      BY <2>2, <2>3 DEF Owned, Punch
    <3>2. ~Offers'
      BY <1>5, <1>17, <2>1, <2>3, OneMoves
    <3> QED BY <1>1, <1>n, <1>17, <2>1, <3>1, <3>2
  <2>4. CASE x = NoFlow /\ Answer(dialog', seen, e, how)
    <3>1. OwnedDialog'
      BY <1>17, <2>4 DEF OwnedDialog, Answer
    <3> QED BY <1>1, <1>i, <1>17, <2>1, <2>2, <2>4, <3>1
  <2> QED BY <2>1, <2>3, <2>4
<1>18. ASSUME NEW s \in Flows, TapOk(s) PROVE ActsOwn'
  <2>1. flow[s].seen \in Users /\ flow[s].of \in Employees /\ flow[s] # NoFlow
    BY <1>18, <1>b, ScreenParts, FlowParts DEF TapOk, Identified
  <2>2. source' = "card"
    BY <1>18, <1>c DEF TapOk, Owned
  <2> QED BY <1>17, <1>18, <2>1, <2>2 DEF TapOk, Sources
<1>19. ASSUME NEW s \in Flows, Verified(s) PROVE ActsOwn'
  <2>1. flow[s].seen \in Users /\ flow[s] # NoFlow
    BY <1>19, <1>b, ScreenParts, FlowParts DEF Verified, Reading
  <2> QED BY <1>17, <1>19, <2>1 DEF Verified, Sources
<1>20. CASE Dismisses
  BY <1>3, <1>4, <1>n, <1>20 DEF Dismisses
<1>21. CASE Cancels \/ OpensNoCard
  <2>1. flow' = flow /\ source' = source /\ dialog' = dialog /\ ~Offers
    BY <1>21 DEF Cancels, OpensNoCard, Offers
  <2> QED BY <1>3, <1>5, <1>n, <2>1
<1>22. CASE \/ Polls \/ Polled \/ RequestsOtp \/ NoCardMoves
            \/ Refreshes \/ OthersWrite \/ HourPasses \/ UNCHANGED screenVars
  <2>1. flow' = flow /\ dialog' = dialog /\ source' = source /\ clockUser' = clockUser
    BY <1>22 DEF Polls, Polled, RequestsOtp, NoCardMoves, Refreshes, OthersWrite, HourPasses, screenVars
  <2>2. OwnedDialog'
    BY <1>c, <2>1 DEF OwnedDialog, Offers
  <2> QED BY <1>3, <2>1, <2>2
<1> QED BY <1>6, <1>7, <1>8, <1>9, <1>11, <1>12, <1>13, <1>14, <1>15, <1>16, <1>18, <1>19, <1>20, <1>21, <1>22
        DEF ScreenNext, Proceeds

\* What a flow and an offer know of the mirror.
ShownFor(f) ==
    /\ Reads(f) => f.seen = users /\ row = users
    /\ AtRecord(f) =>
          /\ f.seen = users /\ f.check = users[f.of]
          /\ row = IF Unwritten(f) THEN users ELSE ShownSo(f)
OfferShown == Offers /\ clockUser # NoUser => clockUser.check = users[clockUser.of]

LEMMA ShownParts ==
    Shown <=> (Settled => row = users) /\ (\A s \in Flows : ShownFor(flow[s])) /\ OfferShown
  BY DEF Shown, ShownFor, OfferShown

LEMMA ShownPartsNext ==
    (Settled' => row' = users') /\ (\A s \in Flows : ShownFor(flow[s])') /\ OfferShown' => Shown'
  BY DEF Shown, ShownFor, OfferShown, ShownSo

LEMMA IdleShown == \A t \in Flows : flow'[t] = NoFlow => ShownFor(flow[t])'
<1>1. NoFlow.pc = "idle"
  BY DEF NoFlow
<1> QED BY <1>1 DEF ShownFor, Reads, AtRecord

\* Writing a punch that the mirror has already leaves it as it is.
LEMMA WriteAgain ==
    ASSUME ScreenTyped, NEW f \in Recording, f.check = users[f.of], row = ShownSo(f)
    PROVE  [row EXCEPT ![f.of] = With(@, f.field, f.hour)] = row
<1>1. users \in Users /\ row \in Users /\ f.of \in Employees /\ f.check \in Day
      /\ f.field \in Fields /\ f.hour \in Hours
  BY ScreenParts DEF Recording
<1> DEFINE d == With(f.check, f.field, f.hour)
<1>2. row[f.of] = d
  BY <1>1 DEF ShownSo, Users
<1>3. With(d, f.field, f.hour) = d
  BY <1>1, WithTwice
<1> HIDE DEF d
<1>4. With(row[f.of], f.field, f.hour) = row[f.of]
  BY <1>2, <1>3
<1>5. [row EXCEPT ![f.of] = row[f.of]] = row
  BY <1>1 DEF Users
<1> QED BY <1>4, <1>5

LEMMA ShownStep ==
    ASSUME ScreenTyped, OneFlow, Shown, [ScreenNext]_screenVars, Calm({"overlap", "others", "half"})'
    PROVE  Shown'
<1> USE DEF screen, service
<1>o. Calm({"overlap"})'
  BY DEF Calm
<1>a. NoFlow.pc = "idle"
  BY DEF NoFlow
<1>b. \A s \in Flows : flow[s].pc # "idle" => flow[s] # NoFlow
  BY <1>a
<1>c. (Settled => row = users) /\ (\A s \in Flows : ShownFor(flow[s])) /\ OfferShown
  BY ShownParts
<1>n. ~Offers' => OfferShown'
  BY DEF OfferShown
<1>1. ASSUME NEW s \in Flows, flow[s] # NoFlow, NEW x, FlowTo(s, x), OfferShown',
             IF x = NoFlow THEN row' = users' ELSE ShownFor(flow[s])'
      PROVE  Shown'
  <2>1. flow'[s] = x
    BY <1>1, FlowGoes
  <2>2. Settled' => x = NoFlow
    BY <2>1 DEF Settled
  <2> QED BY <1>1, <2>1, <2>2, OneMoves, IdleShown, ShownPartsNext
<1>2. ASSUME Settled, NEW s \in Flows, NEW x, FlowTo(s, x), x # NoFlow, ShownFor(flow[s])', OfferShown'
      PROVE  Shown'
  <2>1. flow'[s] = x
    BY <1>2, FlowGoes
  <2>2. ~Settled'
    BY <1>2, <2>1 DEF Settled
  <2> QED BY <1>2, <2>2, OneStarts, IdleShown, ShownPartsNext
<1>3. ASSUME flow' = flow, row' = row, users' = users, OfferShown'
      PROVE  Shown'
  <2>1. \A s \in Flows : ShownFor(flow[s])'
    BY <1>3, <1>c DEF ShownFor, ShownSo
  <2>2. Settled' => row' = users'
    BY <1>3, <1>c DEF Settled
  <2> QED BY <1>3, <2>1, <2>2, ShownPartsNext
<1>5. ASSUME dialog' = dialog, ~Offers PROVE ~Offers'
  BY <1>5 DEF Offers
<1>10. ASSUME NEW s \in Flows, flow[s] # NoFlow, FlowTo(s, NoFlow), ~Offers', row' = users'
       PROVE  Shown'
  BY <1>1, <1>10, <1>n
<1>r. ASSUME NEW s \in Flows, Reads(flow[s]) PROVE flow[s] # NoFlow /\ flow[s].seen = users /\ row = users
  BY <1>r, <1>b, <1>c DEF Reads, ShownFor
<1>6. ASSUME NEW s \in Flows, Clicks(s) PROVE Shown'
  <2>1. Settled
    BY <1>6, <1>o, StartsAlone DEF Clicks
  <2>2. ~Offers'
    BY <1>6 DEF Clicks, Offers
  <2> DEFINE x == [pc |-> "queued", seen |-> users]
  <2>3. FlowTo(s, x) /\ users' = users /\ row' = row
    BY <1>6 DEF Clicks
  <2>4. x # NoFlow /\ x.pc = "queued" /\ x.seen = users
    BY DEF NoFlow
  <2> HIDE DEF x
  <2>5. flow'[s] = x
    BY <2>3, FlowGoes
  <2>6. ShownFor(flow[s])'
    BY <1>c, <2>1, <2>3, <2>4, <2>5 DEF ShownFor, AtRecord
  <2> QED BY <1>2, <1>n, <2>1, <2>2, <2>3, <2>4, <2>6
<1>7. ASSUME NEW s \in Flows, Verifies(s) PROVE Shown'
  <2>1. Settled
    BY <1>7, <1>o, StartsAlone DEF Verifies
  <2>2. ~Offers'
    BY <1>7 DEF Verifies, Offers
  <2> DEFINE x == [pc |-> "verifying", seen |-> users]
  <2>3. FlowTo(s, x) /\ users' = users /\ row' = row
    BY <1>7 DEF Verifies
  <2>4. x # NoFlow /\ x.pc = "verifying" /\ x.seen = users
    BY DEF NoFlow
  <2> HIDE DEF x
  <2>5. flow'[s] = x
    BY <2>3, FlowGoes
  <2>6. ShownFor(flow[s])'
    BY <1>c, <2>1, <2>3, <2>4, <2>5 DEF ShownFor, AtRecord
  <2> QED BY <1>2, <1>n, <2>1, <2>2, <2>3, <2>4, <2>6
<1>8. ASSUME NEW s \in Flows, Confirms(s) PROVE Shown'
  <2>1. Settled /\ Offers /\ ~Offers'
    BY <1>8, HiddenOffers DEF Confirms, OneFlow, Offers
  <2>2. CASE clockUser = NoUser
    BY <1>3, <1>8, <1>n, <2>1, <2>2 DEF Confirms
  <2>3. CASE clockUser # NoUser
    <3> DEFINE x == [pc |-> "updating", seen |-> users, of |-> clockUser.of,
                     check |-> clockUser.check, field |-> Bypass[dialog.type],
                     hour |-> clock, source |-> source, call |-> "first",
                     asked |-> dialog.of, how |-> dialog.how]
    <3>1. FlowTo(s, x) /\ users' = users /\ row' = row
      BY <1>8, <2>3 DEF Confirms
    <3>2. clockUser.check = users[clockUser.of] /\ row = users
      BY <1>c, <2>1, <2>3 DEF OfferShown
    <3>3. x.pc = "updating" /\ x.call = "first" /\ x.seen = users /\ x.check = users[x.of]
      BY <3>2
    <3> HIDE DEF x
    <3>4. flow'[s] = x
      BY <3>1, FlowGoes
    <3>5. x # NoFlow
      BY <1>a, <3>3
    <3>6. ShownFor(flow[s])'
      BY <3>1, <3>2, <3>3, <3>4 DEF ShownFor, Reads, Unwritten
    <3> QED BY <1>2, <1>n, <2>1, <3>1, <3>5, <3>6
  <2> QED BY <2>2, <2>3
<1>9. ASSUME NEW s \in Flows, Waits(s) \/ SeesCard(s) PROVE Shown'
  <2>1. Reads(flow[s]) /\ dialog' = dialog /\ users' = users /\ row' = row
    BY <1>9 DEF Waits, SeesCard, Reads
  <2>2. flow[s] # NoFlow /\ flow[s].seen = users /\ row = users
    BY <1>r, <2>1
  <2>3. flow[s] \in Reading
    BY <1>9, ScreenParts, FlowParts DEF Waits, SeesCard
  <2>4. PICK x : FlowTo(s, x) /\ x.pc \in {"waiting", "identified"} /\ x.seen = flow[s].seen
    <3>1. [flow[s] EXCEPT !.pc = "waiting"].pc = "waiting" /\ [flow[s] EXCEPT !.pc = "waiting"].seen = flow[s].seen
      BY <2>3 DEF Reading
    <3>2. \A e : /\ [pc |-> "identified", seen |-> flow[s].seen, of |-> e].pc = "identified"
                 /\ [pc |-> "identified", seen |-> flow[s].seen, of |-> e].seen = flow[s].seen
      OBVIOUS
    <3> QED BY <1>9, <3>1, <3>2 DEF Waits, SeesCard
  <2>5. flow'[s] = x /\ x # NoFlow
    BY <1>a, <2>4, FlowGoes
  <2>6. ShownFor(flow[s])'
    BY <2>1, <2>2, <2>4, <2>5 DEF ShownFor, AtRecord
  <2>7. ~Offers'
    BY <1>5, <2>1, <2>2, <2>4, OneMoves
  <2> QED BY <1>1, <1>n, <2>2, <2>4, <2>5, <2>6, <2>7
<1>11. ASSUME NEW s \in Flows, GivesUp(s) PROVE Shown'
  <2>1. Reads(flow[s]) /\ FlowTo(s, NoFlow) /\ Replaces("destroy") /\ users' = users /\ row' = row
    BY <1>11 DEF GivesUp, Reads
  <2>2. flow[s] # NoFlow /\ row' = users'
    BY <1>r, <2>1
  <2> QED BY <1>10, <2>1, <2>2, OneMoves, NotOffered
<1>12. ASSUME NEW s \in Flows, TapRefused(s) PROVE Shown'
  <2>1. Reads(flow[s]) /\ FlowTo(s, NoFlow) /\ dialog' = Shows("destroy", Nobody, "card")
        /\ users' = users /\ row' = row
    BY <1>12 DEF TapRefused, Reads
  <2>2. flow[s] # NoFlow /\ row' = users'
    BY <1>r, <2>1
  <2> QED BY <1>10, <2>1, <2>2, NotOffered
<1>13. ASSUME NEW s \in Flows, VerifyFails(s) PROVE Shown'
  <2>1. Reads(flow[s]) /\ FlowTo(s, NoFlow) /\ dialog' = dialog /\ users' = users /\ row' = row
    BY <1>13 DEF VerifyFails, Reads
  <2>2. flow[s] # NoFlow /\ row' = users'
    BY <1>r, <2>1
  <2> QED BY <1>5, <1>10, <2>1, <2>2, OneMoves
<1>14. ASSUME NEW s \in Flows, UpdateFails(s) PROVE Shown'
  <2>1. flow[s] # NoFlow /\ FlowTo(s, NoFlow) /\ users' = users /\ row' = row
    BY <1>14, <1>b DEF UpdateFails
  <2>2. Replaces("destroy") \/ dialog' = Shows("destroy", flow[s].of, flow[s].source)
    BY <1>14 DEF UpdateFails
  <2>3. flow[s].pc = "updating" /\ flow[s].call # "second"
    BY <1>14 DEF UpdateFails, IsOdd, Calm
  <2>4. row = users
    BY <1>c, <2>3 DEF ShownFor, AtRecord, Unwritten
  <2> QED BY <1>10, <2>1, <2>2, <2>4, OneMoves, NotOffered
<1>15. ASSUME NEW s \in Flows, Writes(s) PROVE Shown'
  <2> DEFINE f == flow[s]
             x == [flow[s] EXCEPT !.pc = "written"]
  <2>1. /\ f # NoFlow /\ dialog' = dialog /\ FlowTo(s, x) /\ f.pc = "updating" /\ users' = users
        /\ row' = [row EXCEPT ![f.of] = With(@, f.field, f.hour)]
    BY <1>15, <1>b DEF Writes
  <2>2. f \in Recording /\ AtRecord(f)
    BY <1>15, ScreenParts, FlowParts DEF Writes, AtRecord
  <2>3. x.pc = "written" /\ x.seen = f.seen /\ x.of = f.of /\ x.check = f.check /\ x.field = f.field /\ x.hour = f.hour
    BY <2>2 DEF Recording
  <2>4. f.seen = users /\ f.check = users[f.of] /\ row = IF Unwritten(f) THEN users ELSE ShownSo(f)
    BY <1>c, <2>2 DEF ShownFor
  <2>5. flow'[s] = x
    BY <2>1, FlowGoes
  <2> HIDE DEF x, f
  <2>6. row' = ShownSo(f)
    <3>1. CASE Unwritten(f)
      BY <2>1, <2>4, <3>1 DEF ShownSo
    <3>2. CASE ~Unwritten(f)
      BY <2>1, <2>2, <2>4, <3>2, WriteAgain
    <3> QED BY <3>1, <3>2
  <2>7. ShownSo(f) = [users EXCEPT ![x.of] = With(x.check, x.field, x.hour)]
    BY <2>3 DEF ShownSo
  <2>8. ShownFor(flow[s])'
    BY <2>1, <2>3, <2>4, <2>5, <2>6, <2>7 DEF ShownFor, ShownSo, Reads, Unwritten
  <2>9. ~Offers' /\ x # NoFlow
    BY <1>5, <1>a, <2>1, <2>3, OneMoves DEF f
  <2> QED BY <1>1, <1>n, <2>1, <2>8, <2>9 DEF f
<1>16. ASSUME NEW s \in Flows, Resolves(s) PROVE Shown'
  <2> DEFINE f == flow[s]
  <2>1. f # NoFlow /\ dialog' = Shows("success", f.of, f.source) /\ f.pc = "written" /\ row' = row
    BY <1>16, <1>b DEF Resolves
  <2>2. f \in Recording /\ AtRecord(f)
    BY <2>1, ScreenParts, FlowParts DEF AtRecord
  <2>3. f.seen = users /\ f.check = users[f.of] /\ row = ShownSo(f)
    BY <1>c, <2>1, <2>2 DEF ShownFor, Unwritten
  <2>4. ~Offers'
    BY <2>1, NotOffered
  <2>5. CASE f.call = "first"
    <3> DEFINE x == [flow[s] EXCEPT !.pc = "updating", !.call = "second"]
    <3>1. FlowTo(s, x) /\ users' = users
      BY <1>16, <2>5 DEF Resolves
    <3>2. x.pc = "updating" /\ x.call = "second" /\ x.seen = f.seen /\ x.of = f.of /\ x.check = f.check
          /\ x.field = f.field /\ x.hour = f.hour
      BY <2>2 DEF Recording
    <3>3. flow'[s] = x
      BY <3>1, FlowGoes
    <3> HIDE DEF x, f
    <3>4. ShownSo(f) = [users EXCEPT ![x.of] = With(x.check, x.field, x.hour)]
      BY <3>2 DEF ShownSo
    <3>5. ShownFor(flow[s])'
      BY <2>1, <2>3, <3>1, <3>2, <3>3, <3>4 DEF ShownFor, ShownSo, Reads, Unwritten
    <3>6. x # NoFlow
      BY <1>a, <3>2
    <3> QED BY <1>1, <1>n, <2>1, <2>4, <3>1, <3>5, <3>6 DEF f
  <2>6. CASE f.call # "first"
    <3>1. FlowTo(s, NoFlow) /\ users' = [f.seen EXCEPT ![f.of] = With(f.check, f.field, f.hour)]
      BY <1>16, <2>6 DEF Resolves
    <3>2. row' = users'
      BY <2>1, <2>3, <3>1 DEF ShownSo
    <3> QED BY <1>10, <2>1, <2>4, <3>1, <3>2
  <2> QED BY <2>5, <2>6
<1>17. ASSUME NEW s \in Flows, Reads(flow[s]), NEW e \in Employees, NEW how \in Sources,
              ClocksIn(s, flow[s].seen, e, how), users' = users, row' = row,
              clockUser' = [of |-> e, check |-> flow[s].seen[e]]
       PROVE  Shown'
  <2>a. flow[s] # NoFlow /\ flow[s].seen = users /\ row = users /\ users \in Users
    BY <1>r, <1>17, ScreenParts
  <2>1. PICK x \in Flow :
              /\ FlowTo(s, x)
              /\ \/ Punch(x, users, e, how) /\ dialog' = dialog
                 \/ x = NoFlow /\ Answer(dialog', users, e, how)
    BY <1>17, <2>a, ClocksInMoves
  <2>2. flow'[s] = x
    BY <2>1, FlowGoes
  <2>3. CASE Punch(x, users, e, how) /\ dialog' = dialog
    <3>1. ShownFor(flow[s])'
      BY <1>17, <2>a, <2>2, <2>3 DEF ShownFor, Punch, Reads, Unwritten
    <3>2. ~Offers'
      BY <1>5, <2>a, <2>1, <2>3, OneMoves
    <3>3. x # NoFlow
      BY <1>a, <2>3 DEF Punch
    <3> QED BY <1>1, <1>n, <2>a, <2>1, <3>1, <3>2, <3>3
  <2>4. CASE x = NoFlow /\ Answer(dialog', users, e, how)
    <3>1. OfferShown'
      BY <1>17, <2>a DEF OfferShown
    <3> QED BY <1>1, <1>17, <2>a, <2>1, <2>4, <3>1
  <2> QED BY <2>1, <2>3, <2>4
<1>18. ASSUME NEW s \in Flows, TapOk(s) PROVE Shown'
  <2>1. flow[s].of \in Employees /\ Reads(flow[s])
    BY <1>18, ScreenParts, FlowParts DEF TapOk, Identified, Reads
  <2> QED BY <1>17, <1>18, <2>1 DEF TapOk, Sources
<1>19. ASSUME NEW s \in Flows, Verified(s) PROVE Shown'
  <2>1. Reads(flow[s])
    BY <1>19 DEF Verified, Reads
  <2> QED BY <1>17, <1>19, <2>1 DEF Verified, Sources
<1>20. CASE Dismisses
  BY <1>3, <1>n, <1>20, HiddenOffers DEF Dismisses
<1>21. CASE Cancels \/ OpensNoCard
  <2>1. flow' = flow /\ row' = row /\ users' = users /\ dialog' = dialog /\ ~Offers
    BY <1>21 DEF Cancels, OpensNoCard, Offers
  <2> QED BY <1>3, <1>5, <1>n, <2>1
<1>22. CASE \/ Polls \/ Polled \/ RequestsOtp \/ NoCardMoves \/ HourPasses \/ UNCHANGED screenVars
  <2>1. flow' = flow /\ row' = row /\ users' = users /\ dialog' = dialog /\ clockUser' = clockUser
    BY <1>22 DEF Polls, Polled, RequestsOtp, NoCardMoves, HourPasses, screenVars
  <2>2. OfferShown'
    BY <1>c, <2>1 DEF OfferShown, Offers
  <2> QED BY <1>3, <2>1, <2>2
<1>23. CASE Refreshes
  <2>1. Settled /\ users' = row /\ flow' = flow /\ row' = row /\ dialog' = dialog /\ clockUser' = clockUser
    BY <1>23 DEF Refreshes
  <2>2. users' = users
    BY <1>c, <2>1
  <2>3. OfferShown'
    BY <1>c, <2>1, <2>2 DEF OfferShown, Offers
  <2> QED BY <1>3, <2>1, <2>2, <2>3
<1>24. CASE OthersWrite
  BY <1>24 DEF OthersWrite, IsOdd, Calm
<1> QED BY <1>6, <1>7, <1>8, <1>9, <1>11, <1>12, <1>13, <1>14, <1>15, <1>16, <1>18, <1>19, <1>20, <1>21, <1>22,
           <1>23, <1>24 DEF ScreenNext, Proceeds

\* What a flow and an offer are to record has no value.
FreeFor(f) == AtRecord(f) => Free(f.check, f.field)
OfferFree ==
    Offers /\ dialog.type # "release" /\ clockUser # NoUser =>
       Free(clockUser.check, Bypass[dialog.type])

LEMMA FreeParts == RecordsFree <=> (\A s \in Flows : FreeFor(flow[s])) /\ OfferFree
  BY DEF RecordsFree, FreeFor, OfferFree

LEMMA FreePartsNext == (\A s \in Flows : FreeFor(flow'[s])) /\ OfferFree' => RecordsFree'
  BY DEF RecordsFree, FreeFor, OfferFree

LEMMA RecordsFreeStep ==
    ASSUME ScreenTyped, OneFlow, RecordsFree, [ScreenNext]_screenVars, Calm({"overlap", "release"})'
    PROVE  RecordsFree'
<1> USE DEF screen, service
<1>a. NoFlow.pc = "idle" /\ FreeFor(NoFlow)
  BY DEF NoFlow, FreeFor, AtRecord
<1>b. \A s \in Flows : flow[s].pc # "idle" => flow[s] # NoFlow
  BY <1>a
<1>c. (\A s \in Flows : FreeFor(flow[s])) /\ OfferFree
  BY FreeParts
<1>n. ~Offers' => OfferFree'
  BY DEF OfferFree
<1>1. ASSUME NEW s \in Flows, NEW x, FlowTo(s, x), FreeFor(x), OfferFree'
      PROVE  RecordsFree'
  BY <1>1, <1>c, FlowGoes, FreePartsNext
<1>2. ASSUME flow' = flow, OfferFree' PROVE RecordsFree'
  BY <1>2, <1>c, FreePartsNext
<1>3. ASSUME dialog' = dialog, clockUser' = clockUser PROVE OfferFree'
  BY <1>3, <1>c DEF OfferFree, Offers
<1>5. ASSUME dialog' = dialog, ~Offers PROVE ~Offers'
  BY <1>5 DEF Offers
<1>6. ASSUME NEW s \in Flows, Clicks(s) \/ Verifies(s) PROVE RecordsFree'
  <2>1. dialog' = dialog /\ clockUser' = clockUser
    BY <1>6 DEF Clicks, Verifies
  <2>2. \E x : FlowTo(s, x) /\ x.pc \in {"queued", "verifying"}
    BY <1>6 DEF Clicks, Verifies
  <2>3. \E x : FlowTo(s, x) /\ FreeFor(x)
    BY <2>2 DEF FreeFor, AtRecord
  <2> QED BY <1>1, <1>3, <2>1, <2>3
<1>8. ASSUME NEW s \in Flows, Confirms(s) PROVE RecordsFree'
  <2>1. Offers /\ ~Offers'
    BY <1>8, HiddenOffers DEF Confirms, Offers
  <2>2. CASE clockUser = NoUser
    BY <1>2, <1>8, <1>n, <2>1, <2>2 DEF Confirms
  <2>3. CASE clockUser # NoUser
    <3> DEFINE x == [pc |-> "updating", seen |-> users, of |-> clockUser.of,
                     check |-> clockUser.check, field |-> Bypass[dialog.type],
                     hour |-> clock, source |-> source, call |-> "first",
                     asked |-> dialog.of, how |-> dialog.how]
    <3>1. FlowTo(s, x) /\ IsOdd(Overlap \cup ({dialog.type} \cap {"release"}))
      BY <1>8, <2>3 DEF Confirms
    <3>2. dialog.type # "release"
      BY <3>1 DEF IsOdd, Calm
    <3>3. Free(clockUser.check, Bypass[dialog.type])
      BY <1>c, <2>1, <2>3, <3>2 DEF OfferFree
    <3>4. FreeFor(x)
      BY <3>3 DEF FreeFor
    <3> QED BY <1>1, <1>n, <2>1, <3>1, <3>4
  <2> QED BY <2>2, <2>3
<1>9. ASSUME NEW s \in Flows, Waits(s) \/ SeesCard(s) PROVE RecordsFree'
  <2>1. dialog' = dialog /\ clockUser' = clockUser /\ flow[s] \in Reading
    BY <1>9, ScreenParts, FlowParts DEF Waits, SeesCard
  <2>2. \E x : FlowTo(s, x) /\ x.pc \in {"waiting", "identified"}
    <3>1. [flow[s] EXCEPT !.pc = "waiting"].pc = "waiting"
      BY <2>1 DEF Reading
    <3>2. \A e : [pc |-> "identified", seen |-> flow[s].seen, of |-> e].pc = "identified"
      OBVIOUS
    <3> QED BY <1>9, <3>1, <3>2 DEF Waits, SeesCard
  <2>3. \E x : FlowTo(s, x) /\ FreeFor(x)
    BY <2>2 DEF FreeFor, AtRecord
  <2> QED BY <1>1, <1>3, <2>1, <2>3
<1>10. ASSUME NEW s \in Flows, FlowTo(s, NoFlow), ~Offers' PROVE RecordsFree'
  BY <1>1, <1>10, <1>a, <1>n
<1>11. ASSUME NEW s \in Flows, GivesUp(s) PROVE RecordsFree'
  <2>1. flow[s] # NoFlow /\ FlowTo(s, NoFlow) /\ Replaces("destroy")
    BY <1>11, <1>b DEF GivesUp
  <2> QED BY <1>10, <2>1, OneMoves, NotOffered
<1>12. ASSUME NEW s \in Flows, TapRefused(s) PROVE RecordsFree'
  BY <1>10, <1>12, NotOffered DEF TapRefused
<1>13. ASSUME NEW s \in Flows, VerifyFails(s) PROVE RecordsFree'
  BY <1>1, <1>3, <1>13, <1>a DEF VerifyFails
<1>14. ASSUME NEW s \in Flows, UpdateFails(s) PROVE RecordsFree'
  <2>1. flow[s] # NoFlow /\ FlowTo(s, NoFlow)
    BY <1>14, <1>b DEF UpdateFails
  <2>2. Replaces("destroy") \/ dialog' = Shows("destroy", flow[s].of, flow[s].source)
    BY <1>14 DEF UpdateFails
  <2> QED BY <1>10, <2>1, <2>2, OneMoves, NotOffered
<1>15. ASSUME NEW s \in Flows, Writes(s) PROVE RecordsFree'
  <2>1. flow[s] \in Recording /\ AtRecord(flow[s])
    BY <1>15, ScreenParts, FlowParts DEF Writes, AtRecord
  <2>2. FreeFor([flow[s] EXCEPT !.pc = "written"])
    BY <1>c, <2>1 DEF FreeFor, Recording
  <2> QED BY <1>1, <1>3, <1>15, <2>2 DEF Writes
<1>16. ASSUME NEW s \in Flows, Resolves(s) PROVE RecordsFree'
  <2>1. flow[s] \in Recording /\ AtRecord(flow[s])
    BY <1>16, ScreenParts, FlowParts DEF Resolves, AtRecord
  <2>2. FreeFor([flow[s] EXCEPT !.pc = "updating", !.call = "second"])
    BY <1>c, <2>1 DEF FreeFor, Recording
  <2>3. \E x : FlowTo(s, x) /\ FreeFor(x)
    BY <1>16, <1>a, <2>2 DEF Resolves
  <2>4. ~Offers'
    BY <1>16, NotOffered DEF Resolves
  <2> QED BY <1>1, <1>n, <2>3, <2>4
<1>17. ASSUME NEW s \in Flows, flow[s] # NoFlow, NEW seen \in Users, NEW e \in Employees, NEW how \in Sources,
              ClocksIn(s, seen, e, how), clockUser' = [of |-> e, check |-> seen[e]]
       PROVE  RecordsFree'
  <2>1. PICK x \in Flow :
              /\ FlowTo(s, x)
              /\ \/ Punch(x, seen, e, how) /\ dialog' = dialog
                 \/ x = NoFlow /\ Answer(dialog', seen, e, how)
    BY <1>17, ClocksInMoves
  <2>2. CASE Punch(x, seen, e, how) /\ dialog' = dialog
    <3>1. FreeFor(x)
      BY <2>2 DEF FreeFor, Punch
    <3>2. ~Offers'
      BY <1>5, <1>17, <2>1, <2>2, OneMoves
    <3> QED BY <1>1, <1>n, <2>1, <3>1, <3>2
  <2>3. CASE x = NoFlow /\ Answer(dialog', seen, e, how)
    <3>1. OfferFree'
      BY <1>17, <2>3 DEF OfferFree, Answer, Offers
    <3> QED BY <1>1, <1>a, <2>1, <2>3, <3>1
  <2> QED BY <2>1, <2>2, <2>3
<1>18. ASSUME NEW s \in Flows, TapOk(s) PROVE RecordsFree'
  <2>1. flow[s].seen \in Users /\ flow[s].of \in Employees /\ flow[s] # NoFlow
    BY <1>18, <1>b, ScreenParts, FlowParts DEF TapOk, Identified
  <2> QED BY <1>17, <1>18, <2>1 DEF TapOk, Sources
<1>19. ASSUME NEW s \in Flows, Verified(s) PROVE RecordsFree'
  <2>1. flow[s].seen \in Users /\ flow[s] # NoFlow
    BY <1>19, <1>b, ScreenParts, FlowParts DEF Verified, Reading
  <2> QED BY <1>17, <1>19, <2>1 DEF Verified, Sources
<1>20. CASE Dismisses
  BY <1>2, <1>n, <1>20, HiddenOffers DEF Dismisses
<1>21. CASE Cancels \/ OpensNoCard
  <2>1. flow' = flow /\ dialog' = dialog /\ ~Offers
    BY <1>21 DEF Cancels, OpensNoCard, Offers
  <2> QED BY <1>2, <1>5, <1>n, <2>1
<1>22. CASE \/ Polls \/ Polled \/ RequestsOtp \/ NoCardMoves \/ HourPasses \/ UNCHANGED screenVars
            \/ Refreshes \/ OthersWrite
  <2>1. flow' = flow /\ dialog' = dialog /\ clockUser' = clockUser
    BY <1>22 DEF Polls, Polled, RequestsOtp, NoCardMoves, HourPasses, screenVars, Refreshes, OthersWrite
  <2> QED BY <1>2, <1>3, <2>1
<1> QED BY <1>6, <1>8, <1>9, <1>11, <1>12, <1>13, <1>14, <1>15, <1>16, <1>18, <1>19, <1>20, <1>21, <1>22
        DEF ScreenNext, Proceeds

-----------------------------------------------------------------------------
(* The theorems.                                                            *)

LEMMA ScreenBegins == ScreenInit => ScreenInv
<1> SUFFICES ASSUME ScreenInit PROVE ScreenInv
  OBVIOUS
<1>1. Settled /\ row = users /\ \A s \in Flows : flow[s].pc = "idle"
  BY DEF ScreenInit, Settled, NoFlow
<1>2. ~Offers
  <2>1. Hidden.open = FALSE
    BY DEF Hidden
  <2> QED BY <2>1 DEF ScreenInit, Offers
<1>3. ScreenTyped /\ Holds
  BY <1>1, ScreenTypedInit DEF Holds
<1>4. OneFlow /\ ActsOwn
  BY <1>1, <1>2 DEF OneFlow, ActsOwn, Settled, AtRecord
<1>5. Shown /\ RecordsFree
  BY <1>1, <1>2 DEF Shown, RecordsFree, Reads, AtRecord
<1> QED BY <1>3, <1>4, <1>5 DEF ScreenInv

\* What a step excludes was excluded before it.
LEMMA CalmBefore ==
    ASSUME [ScreenNext]_screenVars, NEW excluded, (odd' \cap excluded) = {}
    PROVE  Calm(excluded)
  BY OddGrows DEF Calm

LEMMA ScreenGoesOn == ScreenInv /\ [ScreenNext]_screenVars => ScreenInv'
<1> SUFFICES ASSUME ScreenInv, [ScreenNext]_screenVars PROVE ScreenInv'
  OBVIOUS
<1>1. ScreenTyped /\ Holds
  BY DEF ScreenInv
<1>2. ScreenTyped' /\ Holds'
  BY <1>1, ScreenTypedStep, HoldsStep
<1>3. Calm({"overlap"})' => Calm({"overlap"})
  BY CalmBefore DEF Calm
<1>4. Calm({"overlap"})' => OneFlow' /\ ActsOwn'
  BY <1>1, <1>3, OneFlowStep, ActsOwnStep DEF ScreenInv
<1>5. Calm({"overlap", "others", "half"})' => Shown'
  <2>1. Calm({"overlap", "others", "half"})' => Calm({"overlap", "others", "half"})
    BY CalmBefore DEF Calm
  <2>2. Calm({"overlap", "others", "half"}) => Calm({"overlap"})
    BY DEF Calm
  <2> QED BY <1>1, <2>1, <2>2, ShownStep DEF ScreenInv
<1>6. Calm({"overlap", "release"})' => RecordsFree'
  <2>1. Calm({"overlap", "release"})' => Calm({"overlap", "release"})
    BY CalmBefore DEF Calm
  <2>2. Calm({"overlap", "release"}) => Calm({"overlap"})
    BY DEF Calm
  <2> QED BY <1>1, <2>1, <2>2, RecordsFreeStep DEF ScreenInv
<1> QED BY <1>2, <1>4, <1>5, <1>6 DEF ScreenInv

\* The screen keeps what it promises.
THEOREM ScreenInvHolds == ScreenSpec => []ScreenInv
<1>1. ScreenInit => ScreenInv
  BY ScreenBegins
<1>2. ScreenInv /\ [ScreenNext]_screenVars => ScreenInv'
  BY ScreenGoesOn
<1> QED BY <1>1, <1>2, PTL DEF ScreenSpec

\* The state of the punch screen (Home.tsx) and of the card service keeps its types.
THEOREM ScreenTypeCorrect == ScreenSpec => []ScreenTypeOK
<1>1. ScreenInv => ScreenTypeOK
  BY DEF ScreenInv, ScreenTyped
<1> QED BY <1>1, ScreenInvHolds, PTL

\* With nothing under way the list of the day is what the mirror holds: setUsers
\* puts the captured list with the punch in it, and that is what the mirror became.
THEOREM ScreenStaysTrue == ScreenSpec => []ScreenIsTrue
<1>1. ScreenInv => ScreenIsTrue
  <2>1. ScreenInv /\ Settled /\ Calm({"overlap", "others", "half"}) => row = users
    BY DEF ScreenInv, Shown
  <2> QED BY <2>1 DEF ScreenIsTrue
<1> QED BY <1>1, ScreenInvHolds, PTL

\* A confirmed dialog acts for the employee whose reading it answers.
THEOREM ActsOnlyForAsked == ScreenSpec => []ActsForAsked
<1>1. ScreenInv => ActsForAsked
  BY DEF ScreenInv, ActsOwn, AtRecord, ActsForAsked
<1> QED BY <1>1, ScreenInvHolds, PTL

\* A punch of the mirror once made keeps its hour, on a day without oddities.
THEOREM PunchesStay == ScreenSpec => PunchStays
<1> DEFINE Stays == \A e \in Employees, f \in Fields :
                       /\ row[e] # NoDay /\ row[e][f] # Unset
                       /\ odd' = {}
                       => row'[e][f] = row[e][f]
<1>1. ScreenInv /\ [ScreenNext]_screenVars => Stays
  <2> SUFFICES ASSUME ScreenInv, [ScreenNext]_screenVars, odd' = {}, NEW e \in Employees, NEW f \in Fields,
                      row[e] # NoDay, row[e][f] # Unset
               PROVE  row'[e][f] = row[e][f]
    OBVIOUS
  <2>1. odd = {}
    BY OddGrows
  <2>2. ScreenTyped /\ Shown /\ RecordsFree
    BY <2>1 DEF ScreenInv, Calm
  <2>3. CASE row' = row
    BY <2>3
  <2>4. ASSUME NEW s \in Flows, Writes(s) PROVE row'[e][f] = row[e][f]
    <3> DEFINE g == flow[s]
    <3>1. g.pc = "updating" /\ row' = [row EXCEPT ![g.of] = With(@, g.field, g.hour)]
      BY <2>4 DEF Writes
    <3>2. g \in Recording /\ AtRecord(g) /\ row \in Users
      BY <2>2, <3>1, ScreenParts, FlowParts DEF AtRecord
    <3>3. /\ g.check = users[g.of] /\ Free(g.check, g.field)
          /\ row = IF Unwritten(g) THEN users ELSE ShownSo(g)
      BY <2>2, <3>2 DEF Shown, RecordsFree
    <3> HIDE DEF g
    <3>4. CASE Unwritten(g)
      <4>1. g.of \in Employees /\ g.field \in Fields /\ g.hour \in Hours /\ row[g.of] \in Day
        BY <3>2 DEF Recording, Users
      <4>2. row[g.of] = NoDay \/ row[g.of][g.field] = Unset
        BY <3>3, <3>4 DEF Free
      <4>3. CASE e # g.of
        BY <3>1, <3>2, <4>1, <4>3 DEF Users
      <4>4. CASE e = g.of
        <5>1. f # g.field
          BY <4>2, <4>4
        <5>2. row'[e] = With(row[e], g.field, g.hour)
          BY <3>1, <3>2, <4>1, <4>4 DEF Users
        <5> QED BY <4>1, <4>4, <5>1, <5>2, WithType
      <4> QED BY <4>3, <4>4
    <3>5. CASE ~Unwritten(g)
      BY <2>2, <3>1, <3>2, <3>3, <3>5, WriteAgain
    <3> QED BY <3>4, <3>5
  <2>5. ASSUME OthersWrite PROVE FALSE
    BY <2>5 DEF OthersWrite, IsOdd
  <2>6. ASSUME NEW s \in Flows, Proceeds(s), ~Writes(s) PROVE row' = row
    BY <2>6 DEF Proceeds, Waits, SeesCard, GivesUp, TapOk, TapRefused, Verified, VerifyFails,
                Resolves, UpdateFails
  <2>7. ASSUME NEW s \in Flows, Clicks(s) \/ Verifies(s) \/ Confirms(s) PROVE row' = row
    BY <2>7 DEF Clicks, Verifies, Confirms
  <2>8. CASE \/ Polls \/ Polled \/ Cancels \/ OpensNoCard \/ RequestsOtp \/ NoCardMoves
             \/ Dismisses \/ Refreshes \/ HourPasses \/ UNCHANGED screenVars
    BY <2>3, <2>8 DEF Polls, Polled, Cancels, OpensNoCard, RequestsOtp, NoCardMoves, Dismisses,
                      Refreshes, HourPasses, screenVars
  <2> QED BY <2>3, <2>4, <2>5, <2>6, <2>7, <2>8 DEF ScreenNext
<1>2. [ScreenNext]_screenVars /\ ScreenInv => [Stays]_screenVars
  BY <1>1
<1> QED BY <1>2, ScreenInvHolds, PTL DEF PunchStays, ScreenSpec
=============================================================================
