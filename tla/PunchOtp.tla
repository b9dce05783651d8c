------------------------------ MODULE PunchOtp ------------------------------
(***************************************************************************)
(* The manual punch: codes by e-mail for one employee.                     *)
(*                                                                         *)
(*   - request_punch_otp, verify_punch_otp (terminal): the limits kept in  *)
(*     the terminal's punch_auth_log, the call to the sidecar, the log;    *)
(*   - issuePunchOtp, verifyPunchOtp (sidecar): the rows of punch_otp in   *)
(*     PostgreSQL, which the sidecars of all terminals share.              *)
(*                                                                         *)
(* Every statement is a step of its own: the sidecars use no transaction.  *)
(* A code is the number of its request, so two requests never draw the     *)
(* same code, and a row is named by its code.                              *)
(***************************************************************************)
EXTENDS Naturals, FiniteSets

CONSTANTS
    Terminals,
    Slots,          \* commands under way at once, over all terminals
    MaxSends,       \* MAX_OTP_REQUESTS_PER_HOUR
    MaxFailures,    \* MAX_VERIFY_FAILURES
    MaxAttempts,    \* MAX_VERIFY_ATTEMPTS
    Ttl,            \* OTP_TTL_MINUTES, in ticks
    FailWindow,     \* MAX_VERIFY_FAILURES_WINDOW_MIN, in ticks
    SendWindow,     \* one hour, in ticks
    MaxCommands,    \* bound: commands started
    MaxTime,        \* bound: the highest value of the clock
    Env             \* what happens around the code, a subset of Hazards

\* "outage": a call to the sidecar, or one of its statements, fails.
\* "answer_lost": the sidecar has done its work and the terminal gets an error.
\* "crash": a terminal dies, and its sidecar with it.
Hazards == {"outage", "answer_lost", "crash"}

ASSUME PunchOtpAssumption ==
    /\ {MaxSends, MaxFailures, MaxAttempts} \subseteq Nat \ {0}
    /\ {Ttl, FailWindow, SendWindow, MaxCommands, MaxTime} \subseteq Nat
    /\ IsFiniteSet(Slots)
    /\ Env \subseteq Hazards

Steps == {"removes", "inserts", "mails", "logs_sent",
          "selects", "expires", "misses", "hits", "logs_ok", "logs_failed"}

\* A command: its number, the step it is at, its terminal, the code it issues or
\* tries, and the row it selected, or expires_at of the row it will insert.
Command == [id : Nat, step : Steps, by : Terminals, code : Nat, row : Nat, expires : Nat]
Idle == [step |-> "idle"]
Event == [id : Nat, by : Terminals, at : Nat]
OtpRow == [code : Nat, expires : Nat, attempts : Nat, born : Nat]

Wrong == 0      \* any code that nobody was sent

VARIABLES
    punch_otp,      \* the rows in PostgreSQL
    sent,           \* punch_auth_log: otp_sent
    failed,         \* punch_auth_log: otp_verify_failed
    cmd,            \* the command in each slot
    now,            \* the clock
    started,        \* commands started so far: the next one's number
    born,           \* rows inserted so far: created_at
    mailed,         \* history: mails that went out
    accepted        \* history: verifications that returned the employee

vars == <<punch_otp, sent, failed, cmd, now, started, born, mailed, accepted>>

TypeOK ==
    /\ punch_otp \subseteq OtpRow
    /\ sent \subseteq Event /\ failed \subseteq Event
    /\ cmd \in [Slots -> Command \cup {Idle}]
    /\ now \in Nat /\ started \in Nat /\ born \in Nat
    /\ mailed \subseteq Event
    /\ accepted \subseteq [id : Nat, code : Nat]

Init ==
    /\ punch_otp = {}
    /\ sent = {} /\ failed = {}
    /\ cmd = [c \in Slots |-> Idle]
    /\ now = 0 /\ started = 0 /\ born = 0
    /\ mailed = {} /\ accepted = {}

-----------------------------------------------------------------------------
Recent(events, t, window) == {e \in events : e.by = t /\ e.at + window >= now}

\* is_locked_out
LockedOut(t) == Cardinality(Recent(failed, t, FailWindow)) >= MaxFailures

\* ensure_can_request_otp
CanRequest(t) ==
    /\ ~LockedOut(t)
    /\ Cardinality(Recent(sent, t, SendWindow)) < MaxSends

EventOf(c) == [id |-> cmd[c].id, by |-> cmd[c].by, at |-> now]

Goes(c, step) == cmd' = [cmd EXCEPT ![c].step = step]
Ends(c) == cmd' = [cmd EXCEPT ![c] = Idle]

\* request_punch_otp up to the call; issuePunchOtp draws the code and its expiry.
RequestStarts(c, t) ==
    /\ cmd[c] = Idle
    /\ started < MaxCommands
    /\ CanRequest(t)
    /\ started' = started + 1
    /\ cmd' = [cmd EXCEPT ![c] =
                 [id |-> started', step |-> "removes", by |-> t, code |-> started',
                  row |-> 0, expires |-> now + Ttl]]
    /\ UNCHANGED <<punch_otp, sent, failed, now, born, mailed, accepted>>

\* DELETE FROM punch_otp WHERE auth_user_id = ...
Removes(c) ==
    /\ cmd[c].step = "removes"
    /\ punch_otp' = {}
    /\ Goes(c, "inserts")
    /\ UNCHANGED <<sent, failed, now, started, born, mailed, accepted>>

\* INSERT INTO punch_otp
Inserts(c) ==
    /\ cmd[c].step = "inserts"
    /\ born' = born + 1
    /\ punch_otp' = punch_otp \cup
         {[code |-> cmd[c].code, expires |-> cmd[c].expires, attempts |-> 0, born |-> born']}
    /\ Goes(c, "mails")
    /\ UNCHANGED <<sent, failed, now, started, mailed, accepted>>

\* sendPunchOtpEmail
Mails(c) ==
    /\ cmd[c].step = "mails"
    /\ mailed' = mailed \cup {EventOf(c)}
    /\ Goes(c, "logs_sent")
    /\ UNCHANGED <<punch_otp, sent, failed, now, started, born, accepted>>

\* log_event "otp_sent"
LogsSent(c) ==
    /\ cmd[c].step = "logs_sent"
    /\ sent' = sent \cup {EventOf(c)}
    /\ Ends(c)
    /\ UNCHANGED <<punch_otp, failed, now, started, born, mailed, accepted>>

\* The request ends with an error: a statement, the mail or the answer failed.
RequestFails(c) ==
    /\ \/ cmd[c].step \in {"removes", "inserts", "mails"} /\ "outage" \in Env
       \/ cmd[c].step = "logs_sent" /\ "answer_lost" \in Env
    /\ Ends(c)
    /\ UNCHANGED <<punch_otp, sent, failed, now, started, born, mailed, accepted>>

\* verify_punch_otp up to the call, with a code that was mailed or a wrong one.
VerifyStarts(c, t) ==
    /\ cmd[c] = Idle
    /\ started < MaxCommands
    /\ ~LockedOut(t)
    /\ started' = started + 1
    /\ \E k \in {Wrong} \cup {e.id : e \in mailed} :
         cmd' = [cmd EXCEPT ![c] =
                   [id |-> started', step |-> "selects", by |-> t, code |-> k,
                    row |-> 0, expires |-> 0]]
    /\ UNCHANGED <<punch_otp, sent, failed, now, born, mailed, accepted>>

\* SELECT ... ORDER BY created_at DESC LIMIT 1: none or one row.
Latest == {r \in punch_otp : \A q \in punch_otp : q.born <= r.born}

\* Mutant: the attempts are not looked at.
VerdictUnlimited(r, code) ==
    IF r.expires < now THEN "expires"
    ELSE IF r.code # code THEN "misses"
    ELSE "hits"

\* verifyPunchOtp, from the row it selected to its next statement.
Verdict(r, code) ==
    IF r.attempts >= MaxAttempts THEN "logs_failed"
    ELSE IF r.expires < now THEN "expires"
    ELSE IF r.code # code THEN "misses"
    ELSE "hits"

Selects(c) ==
    /\ cmd[c].step = "selects"
    /\ \/ punch_otp = {} /\ Goes(c, "logs_failed")
       \/ \E r \in Latest :
            cmd' = [cmd EXCEPT ![c].step = Verdict(r, cmd[c].code), ![c].row = r.code]
    /\ UNCHANGED <<punch_otp, sent, failed, now, started, born, mailed, accepted>>

Without(code) == {r \in punch_otp : r.code # code}

\* The row is past expires_at: DELETE.
Expires(c) ==
    /\ cmd[c].step = "expires"
    /\ punch_otp' = Without(cmd[c].row)
    /\ Goes(c, "logs_failed")
    /\ UNCHANGED <<sent, failed, now, started, born, mailed, accepted>>

\* The code is wrong: UPDATE ... SET verify_attempts = verify_attempts + 1.
Misses(c) ==
    /\ cmd[c].step = "misses"
    /\ punch_otp' = {IF r.code = cmd[c].row THEN [r EXCEPT !.attempts = @ + 1] ELSE r :
                      r \in punch_otp}
    /\ Goes(c, "logs_failed")
    /\ UNCHANGED <<sent, failed, now, started, born, mailed, accepted>>

\* Mutant: the row stays.
HitsKeeping(c) ==
    /\ cmd[c].step = "hits"
    /\ Goes(c, "logs_ok")
    /\ UNCHANGED <<punch_otp, sent, failed, now, started, born, mailed, accepted>>

\* The code is right: DELETE, whether or not the row is still there.
Hits(c) ==
    /\ cmd[c].step = "hits"
    /\ punch_otp' = Without(cmd[c].row)
    /\ Goes(c, "logs_ok")
    /\ UNCHANGED <<sent, failed, now, started, born, mailed, accepted>>

\* verify_punch_otp returns the employee.
Accepts(c) ==
    /\ cmd[c].step = "logs_ok"
    /\ accepted' = accepted \cup {[id |-> cmd[c].id, code |-> cmd[c].code]}
    /\ Ends(c)
    /\ UNCHANGED <<punch_otp, sent, failed, now, started, born, mailed>>

\* A statement or the answer fails, which the terminal cannot tell from a wrong code.
VerifyBreaks(c) ==
    /\ \/ cmd[c].step \in {"selects", "expires", "misses", "hits"} /\ "outage" \in Env
       \/ cmd[c].step = "logs_ok" /\ "answer_lost" \in Env
    /\ Goes(c, "logs_failed")
    /\ UNCHANGED <<punch_otp, sent, failed, now, started, born, mailed, accepted>>

\* log_event "otp_verify_failed"
LogsFailed(c) ==
    /\ cmd[c].step = "logs_failed"
    /\ failed' = failed \cup {EventOf(c)}
    /\ Ends(c)
    /\ UNCHANGED <<punch_otp, sent, now, started, born, mailed, accepted>>

\* A terminal dies: what it and its sidecar were doing goes no further.
Crash(t) ==
    LET dying == {c \in Slots : cmd[c] # Idle /\ cmd[c].by = t} IN
    /\ "crash" \in Env
    /\ cmd' = [c \in Slots |-> IF c \in dying THEN Idle ELSE cmd[c]]
    /\ UNCHANGED <<punch_otp, sent, failed, now, started, born, mailed, accepted>>

Tick ==
    /\ now < MaxTime
    /\ now' = now + 1
    /\ UNCHANGED <<punch_otp, sent, failed, cmd, started, born, mailed, accepted>>

Next ==
    \/ \E c \in Slots, t \in Terminals : RequestStarts(c, t) \/ VerifyStarts(c, t)
    \/ \E c \in Slots :
         \/ Removes(c) \/ Inserts(c) \/ Mails(c) \/ LogsSent(c) \/ RequestFails(c)
         \/ Selects(c) \/ Expires(c) \/ Misses(c) \/ Hits(c) \/ Accepts(c)
         \/ VerifyBreaks(c) \/ LogsFailed(c)
    \/ \E t \in Terminals : Crash(t)
    \/ Tick

Spec == Init /\ [][Next]_vars

-----------------------------------------------------------------------------
\* What overlapping commands may exceed a limit by: each of them read the count
\* before the others added to it.
Over == Cardinality(Slots) - 1

\* A code is accepted at most once, or once per command under way at once
\* (verifyPunchOtp deletes the row before it answers).
AcceptedOnce ==
    \A k \in {a.code : a \in accepted} :
        Cardinality({a \in accepted : a.code = k}) <= 1 + Over

\* A code takes at most MAX_VERIFY_ATTEMPTS wrong guesses, up to the overlap.
GuessesPerCode == \A r \in punch_otp : r.attempts <= MaxAttempts + Over
=============================================================================
