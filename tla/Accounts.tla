------------------------------- MODULE Accounts -------------------------------
(***************************************************************************)
(* Employees and their login accounts: the set-up of the first             *)
(* administrator, the wizard that registers an employee, the page of the   *)
(* access accounts and the termination of an employee, as commands of the  *)
(* terminal that write the employee's row (employees::upsert) and call     *)
(* Better Auth in the sidecar, one after the other, each of which may      *)
(* fail.  Nothing ties the two stores together: an account may be left     *)
(* without an employee and an employee with a login that is gone.          *)
(*                                                                         *)
(* A row is one value here, the mirror and PostgreSQL together (PunchSync  *)
(* shows what replication adds).  A supervisor passes the gate of the card *)
(* commands and no other below that an employee does not pass.  Names,     *)
(* phones, passwords and the export mail are left out.  What the page of the       *)
(* accounts lists may be old: its actions are offered for any account that *)
(* was ever made.                                                          *)
(***************************************************************************)
EXTENDS Naturals, FiniteSets

CONSTANTS
    Employees,   \* ids that GenerateUserId may draw
    Logins,      \* ids that Better Auth may draw
    Emails,
    Terminals,
    Slots,       \* commands that may be under way together
    MaxCalls,    \* bound on the commands started
    None

Mail == Emails \cup {None}
Row == [status : {"active", "terminated"}, mail : Mail, login : Logins \cup {None}]

ASSUME ConstantsAssumption ==
    /\ MaxCalls \in Nat
    /\ None \notin Employees \cup Logins \cup Emails \cup Row

VARIABLES
    emp,      \* rows of employees; None before the id is used
    acct,     \* rows of the table user of Better Auth
    card,     \* whether the employee has a card that is not blocked
    session,  \* AuthState.current: the login whose token the terminal holds
    cached,   \* terminals whose session cache knows an employee unlinked since
    cmd,      \* commands under way, with the row each has read
    wizard,   \* AddEmployee.tsx, one on each terminal
    calls,    \* commands started
    booted,   \* history: the set-up has linked an administrator once
    odd       \* history: which of Oddities have happened

vars == <<emp, acct, card, session, cached, cmd, wizard, calls, booted, odd>>

Roles == {"employee", "supervisor", "administrator"}

\* "overlap": a command started while another was under way; "fail": a call to
\* the sidecar or a write failed; "mail": the login e-mail typed belonged to
\* another employee; "self": an administrator acted on its own account;
\* "unlinked": one acted in the 30 s after the link of its account was taken.
Oddities == {"overlap", "fail", "mail", "self", "unlinked"}

Idle == <<>>

Blank == [state |-> "none", mail |-> None, role |-> "employee",
          banned |-> FALSE]

ClosedWizard == [open |-> FALSE, step |-> "identification", who |-> None, busy |-> FALSE]

Init ==
    /\ emp = [e \in Employees |-> None]
    /\ acct = [l \in Logins |-> Blank]
    /\ card = [e \in Employees |-> FALSE]
    /\ session = [t \in Terminals |-> None]
    /\ cached = {}
    /\ cmd = [s \in Slots |-> Idle]
    /\ wizard = [t \in Terminals |-> ClosedWizard]
    /\ calls = 0
    /\ booted = FALSE
    /\ odd = {}

-----------------------------------------------------------------------------
(* The rows and the accounts.                                              *)

Registered == {e \in Employees : emp[e] # None}
Live == {l \in Logins : acct[l].state = "live"}
LinkedTo(l) == {e \in Registered : emp[e].login = l}
HasLoginAccount == \E e \in Registered : emp[e].login # None

\* UNIQUE(email) and UNIQUE(auth_user_id) of the table employees.
Unique(e, row) ==
    \A x \in Registered \ {e} :
        /\ row.mail = None \/ emp[x].mail # row.mail
        /\ row.login = None \/ emp[x].login # row.login

\* The upsert writes every column; updated_at is the present, so its guard
\* never holds it back.
Upsert(e, row) == emp' = [emp EXCEPT ![e] = row]

\* A session whose employee was unlinked is good while the cache has it.
Forgets(l) == cached' = cached \cup {t \in Terminals : l # None /\ session[t] = l}

\* Mutant: has-permission without the role.
PermittedAnyone(t) == session[t] \in Live /\ ~acct[session[t]].banned

\* has-permission of the sidecar, for the token of the terminal.
Permitted(t) ==
    /\ session[t] \in Live
    /\ acct[session[t]].role = "administrator"
    /\ ~acct[session[t]].banned

\* resolve_session wants a linked employee, now or at most 30 s ago.
Gate(t) ==
    /\ Permitted(t)
    /\ LinkedTo(session[t]) # {} \/ t \in cached

\* The one of the card commands: PermissionAction::ProvisionCard.
CardGate(t) ==
    /\ session[t] \in Live
    /\ acct[session[t]].role \in {"supervisor", "administrator"}
    /\ ~acct[session[t]].banned
    /\ LinkedTo(session[t]) # {} \/ t \in cached

CacheExpires(t) ==
    /\ t \in cached
    /\ cached' = cached \ {t}
    /\ UNCHANGED <<emp, acct, card, session, cmd, wizard, calls, booted, odd>>

-----------------------------------------------------------------------------
(* Starting and ending commands.                                           *)

Busy == \E s \in Slots : cmd[s] # Idle
Overlap == IF Busy THEN {"overlap"} ELSE {}
Unlinked(t) == IF session[t] # None /\ LinkedTo(session[t]) = {} THEN {"unlinked"} ELSE {}

Starts(s, c, oddities) ==
    /\ cmd[s] = Idle
    /\ calls < MaxCalls
    /\ calls' = calls + 1
    /\ cmd' = [cmd EXCEPT ![s] = c]
    /\ odd' = odd \cup oddities \cup Unlinked(c.t) \cup Overlap

Stores(s, c) == cmd' = [cmd EXCEPT ![s] = c]
To(s, pc) == Stores(s, [cmd[s] EXCEPT !.pc = pc])
At(s, pc) == cmd[s] # Idle /\ cmd[s].pc = pc

\* The end of handleRegister without a success: its error is shown.
Ends(s) ==
    /\ Stores(s, Idle)
    /\ wizard' = IF cmd[s].wizard
                 THEN [wizard EXCEPT ![cmd[s].t].busy = FALSE]
                 ELSE wizard

\* Any call of a command may fail, and leaves what the command did before.
Fails(s) ==
    /\ cmd[s] # Idle
    /\ Ends(s)
    /\ odd' = odd \cup {"fail"}
    /\ UNCHANGED <<emp, acct, card, session, cached, calls, booted>>

\* Nothing is started by a terminal that waits for the form it has sent.
Waits(t) ==
    \E s \in Slots :
        cmd[s] # Idle /\ cmd[s].t = t /\ cmd[s].pc \in {"sign-up", "promote", "enter"}

Self(t, l) == IF session[t] = l /\ l # None THEN {"self"} ELSE {}
LoginOf(e) == emp[e].login

-----------------------------------------------------------------------------
(* Sessions: auth_sign_in, auth_sign_out.                                  *)

SignsIn(t, l) ==
    /\ session[t] = None
    /\ l \in Live
    /\ ~acct[l].banned
    /\ LinkedTo(l) # {}
    /\ session' = [session EXCEPT ![t] = l]
    /\ cached' = cached \ {t}
    /\ UNCHANGED <<emp, acct, card, cmd, wizard, calls, booted, odd>>

SignsOut(t) ==
    /\ session[t] # None
    /\ session' = [session EXCEPT ![t] = None]
    /\ cached' = cached \ {t}
    /\ odd' = odd \cup Overlap
    /\ UNCHANGED <<emp, acct, card, cmd, wizard, calls, booted>>

\* Better Auth deletes the sessions of an account it suspends or removes.
Revokes(l) == session' = [t \in Terminals |-> IF session[t] = l THEN None ELSE session[t]]

-----------------------------------------------------------------------------
(* The first administrator: auth_bootstrap_admin behind FirstUser.tsx.      *)

\* The form waits for its answer, so a terminal sends one at a time.
Boots(s, t, m) ==
    /\ session[t] = None
    /\ ~Waits(t)
    /\ ~HasLoginAccount
    /\ Starts(s, [pc |-> "sign-up", t |-> t, mail |-> m, wizard |-> FALSE], {})
    /\ UNCHANGED <<emp, acct, card, session, cached, wizard, booted>>

MailFree(m) == \A l \in Live : acct[l].mail # m

NewAccount(l, m, role) ==
    /\ acct[l].state = "none"
    /\ acct' = [acct EXCEPT ![l] = [Blank EXCEPT !.state = "live", !.mail = m, !.role = role]]

SignsUp(s) ==
    /\ At(s, "sign-up")
    /\ \/ /\ MailFree(cmd[s].mail)
          /\ \E l \in Logins :
                /\ NewAccount(l, cmd[s].mail, "employee")
                /\ Stores(s, [pc |-> "promote", t |-> cmd[s].t, mail |-> cmd[s].mail,
                              l |-> l, wizard |-> FALSE])
          /\ UNCHANGED wizard
       \/ /\ ~MailFree(cmd[s].mail)
          /\ Ends(s)
          /\ UNCHANGED acct
    /\ UNCHANGED <<emp, card, session, cached, calls, booted, odd>>

\* The route refuses once another administrator exists.
Administrators == {l \in Live : acct[l].role = "administrator"}

Promotes(s) ==
    /\ At(s, "promote")
    /\ IF Administrators \subseteq {cmd[s].l}
       THEN /\ cmd[s].l \in Live
            /\ acct' = [acct EXCEPT ![cmd[s].l].role = "administrator"]
            /\ To(s, "enter")
            /\ UNCHANGED wizard
       ELSE Ends(s) /\ UNCHANGED acct
    /\ UNCHANGED <<emp, card, session, cached, calls, booted, odd>>

\* The upsert of the employee, whose id is new, and the session.
Enters(s, e) ==
    LET row == [status |-> "active", mail |-> cmd[s].mail, login |-> cmd[s].l] IN
    /\ At(s, "enter")
    /\ e \notin Registered
    /\ Ends(s)
    /\ IF Unique(e, row)
       THEN /\ Upsert(e, row)
            /\ session' = [session EXCEPT ![cmd[s].t] = cmd[s].l]
            /\ booted' = TRUE
            /\ UNCHANGED odd
       ELSE /\ odd' = odd \cup {"mail"}
            /\ UNCHANGED <<emp, session, booted>>
    /\ UNCHANGED <<acct, card, cached, calls>>

-----------------------------------------------------------------------------
(* An account for an employee: auth_create_account.                        *)

\* Those whose login is pending, here as the rows are: the command looks again.
EmployeesWithoutAccount == {e \in Registered : LoginOf(e) = None}

AsksAccount(s, t, e, m, role) ==
    /\ Gate(t)
    /\ e \in EmployeesWithoutAccount
    /\ Starts(s, [pc |-> "make", t |-> t, e |-> e, row |-> emp[e], mail |-> m,
                  role |-> role, wizard |-> FALSE],
              IF \E x \in Registered \ {e} : emp[x].mail = m THEN {"mail"} ELSE {})
    /\ UNCHANGED <<emp, acct, card, session, cached, wizard, booted>>

\* Better Auth asks for the permission again and refuses a known e-mail.
MakesAccount(s) ==
    /\ At(s, "make")
    /\ \/ /\ Permitted(cmd[s].t)
          /\ MailFree(cmd[s].mail)
          /\ \E l \in Logins :
                /\ NewAccount(l, cmd[s].mail, cmd[s].role)
                /\ Stores(s, [cmd[s] EXCEPT !.pc = "link",
                              !.row = [@ EXCEPT !.login = l, !.mail = cmd[s].mail]])
          /\ UNCHANGED wizard
       \/ /\ ~(Permitted(cmd[s].t) /\ MailFree(cmd[s].mail))
          /\ Ends(s)
          /\ UNCHANGED acct
    /\ UNCHANGED <<emp, card, session, cached, calls, booted, odd>>

\* The whole row goes back as it was read, with the login; a violated UNIQUE
\* ends the command.  The mail with the link comes after it, and its failure
\* is a failure of the command.
LinksAccount(s) ==
    /\ At(s, "link")
    /\ IF Unique(cmd[s].e, cmd[s].row)
       THEN /\ Upsert(cmd[s].e, cmd[s].row)
            /\ IF emp[cmd[s].e].login \in Logins \ {cmd[s].row.login}
               THEN Forgets(emp[cmd[s].e].login)
               ELSE UNCHANGED cached
            /\ To(s, "mail")
            /\ UNCHANGED <<wizard, odd>>
       ELSE /\ Ends(s)
            /\ odd' = odd \cup {"mail"}
            /\ UNCHANGED <<emp, cached>>
    /\ UNCHANGED <<acct, card, session, calls, booted>>

\* The end of handleRegister after a success, dialog open or not.
ShowsCard(t, e) ==
    wizard' = [wizard EXCEPT ![t].step = "card", ![t].who = e, ![t].busy = FALSE]

MailsLink(s) ==
    /\ At(s, "mail")
    /\ Stores(s, Idle)
    /\ IF cmd[s].wizard THEN ShowsCard(cmd[s].t, cmd[s].e) ELSE UNCHANGED wizard
    /\ UNCHANGED <<emp, acct, card, session, cached, calls, booted, odd>>

-----------------------------------------------------------------------------
(* The wizard that registers an employee: AddEmployee.tsx.                  *)

\* What the dialog shows.  What its forms hold is chosen where it is sent.
Shows(t, step) == wizard[t].open /\ wizard[t].step = step
FormOfAccess(t) == Shows(t, "access") /\ ~wizard[t].busy
OffersCard(t) == Shows(t, "card") /\ wizard[t].who \in Registered

OpensWizard(t) ==
    /\ Gate(t)
    /\ ~wizard[t].open
    /\ wizard' = [wizard EXCEPT ![t].open = TRUE]
    /\ UNCHANGED <<emp, acct, card, session, cached, cmd, calls, booted, odd>>

Identifies(t) ==
    /\ Shows(t, "identification")
    /\ wizard' = [wizard EXCEPT ![t].step = "access"]
    /\ UNCHANGED <<emp, acct, card, session, cached, cmd, calls, booted, odd>>

GoesBack(t) ==
    /\ FormOfAccess(t)
    /\ wizard' = [wizard EXCEPT ![t].step = "identification"]
    /\ UNCHANGED <<emp, acct, card, session, cached, cmd, calls, booted, odd>>

\* resetWizard: everything but what the effect on opening sets.
Reset(w) == [w EXCEPT !.step = "identification", !.who = None, !.busy = FALSE]

ClosesWizard(t) ==
    /\ wizard[t].open
    /\ wizard' = [wizard EXCEPT ![t] = [Reset(@) EXCEPT !.open = FALSE]]
    /\ UNCHANGED <<emp, acct, card, session, cached, cmd, calls, booted, odd>>

\* smtp: GetSmtpConfig said, when the wizard opened, that mails can be sent.
Registers(s, t, m, role, smtp) ==
    /\ FormOfAccess(t)
    /\ Starts(s, [pc |-> "insert", t |-> t, mail |-> m, role |-> role,
                  smtp |-> smtp, wizard |-> TRUE], {})
    /\ wizard' = [wizard EXCEPT ![t].busy = TRUE]
    /\ UNCHANGED <<emp, acct, card, session, cached, booted>>

\* insert_new_user has no gate and refuses a known e-mail.  With SMTP the
\* command auth_create_account follows, with its own gate.
Inserts(s, e) ==
    LET t == cmd[s].t
        row == [status |-> "active", mail |-> cmd[s].mail, login |-> None]
    IN
    /\ At(s, "insert")
    /\ e \notin Registered
    /\ IF Unique(e, row)
       THEN /\ Upsert(e, row)
            /\ \/ /\ cmd[s].smtp
                  /\ Gate(t)
                  /\ Stores(s, [pc |-> "make", t |-> t, e |-> e, row |-> row,
                                mail |-> cmd[s].mail, role |-> cmd[s].role, wizard |-> TRUE])
                  /\ UNCHANGED wizard
               \/ cmd[s].smtp /\ ~Gate(t) /\ Ends(s)
               \/ ~cmd[s].smtp /\ Stores(s, Idle) /\ ShowsCard(t, e)
       ELSE Ends(s) /\ UNCHANGED emp
    /\ UNCHANGED <<acct, card, session, cached, calls, booted, odd>>

\* handleProvisionCard: provision_card answers after the tap; on success the
\* wizard closes, on an error it stays.
Provisions(t) ==
    /\ OffersCard(t)
    /\ CardGate(t)
    /\ card' = [card EXCEPT ![wizard[t].who] = TRUE]
    /\ wizard' = [wizard EXCEPT ![t] = [Reset(@) EXCEPT !.open = FALSE]]
    /\ odd' = odd \cup Overlap
    /\ UNCHANGED <<emp, acct, session, cached, cmd, calls, booted>>

\* The dialog "Novo cartao" is offered for every employee of the list, those who
\* have left too; a card in the place of one that works changes nothing here.
WantsCard(e) == e \in Registered /\ ~card[e]

\* handleReprovisionCard: the former cards are blocked and the new one works.
Reprovisions(t, e) ==
    /\ CardGate(t)
    /\ WantsCard(e)
    /\ card' = [card EXCEPT ![e] = TRUE]
    /\ odd' = odd \cup Overlap
    /\ UNCHANGED <<emp, acct, session, cached, cmd, wizard, calls, booted>>

-----------------------------------------------------------------------------
(* A profile: update_employee.  The account keeps the e-mail it has.        *)

AsksProfile(s, t, e, m, role) ==
    /\ Gate(t)
    /\ e \in Registered
    /\ m = None \/ \A x \in Registered \ {e} : emp[x].mail # m
    /\ Starts(s, [pc |-> "save", t |-> t, e |-> e, row |-> [emp[e] EXCEPT !.mail = m],
                  role |-> role, wizard |-> FALSE],
              IF role # "administrator" THEN Self(t, LoginOf(e)) ELSE {})
    /\ UNCHANGED <<emp, acct, card, session, cached, wizard, booted>>

SavesProfile(s) ==
    /\ At(s, "save")
    /\ IF Unique(cmd[s].e, cmd[s].row)
       THEN /\ Upsert(cmd[s].e, cmd[s].row)
            /\ IF emp[cmd[s].e].login # cmd[s].row.login
               THEN Forgets(emp[cmd[s].e].login)
               ELSE UNCHANGED cached
            /\ IF cmd[s].row.login = None THEN Stores(s, Idle) ELSE To(s, "role")
       ELSE Stores(s, Idle) /\ UNCHANGED <<emp, cached>>
    /\ UNCHANGED <<acct, card, session, wizard, calls, booted, odd>>

\* set-user-role of the sidecar asks nobody's permission again.
SetsRoleOf(s) ==
    LET l == cmd[s].row.login IN
    /\ At(s, "role")
    /\ acct' = IF l \in Live THEN [acct EXCEPT ![l].role = cmd[s].role] ELSE acct
    /\ Stores(s, Idle)
    /\ UNCHANGED <<emp, card, session, cached, wizard, calls, booted, odd>>

-----------------------------------------------------------------------------
(* Termination: employee_terminate.                                        *)

\* The button "Desligar"; the command looks again.
MayLeave(e) == e \in Registered /\ emp[e].status # "terminated"

AsksTermination(s, t, e) ==
    /\ Gate(t)
    /\ MayLeave(e)
    /\ Starts(s, [pc |-> "block", t |-> t, e |-> e, row |-> emp[e], wizard |-> FALSE],
              Self(t, LoginOf(e)))
    /\ UNCHANGED <<emp, acct, card, session, cached, wizard, booted>>

\* Mutant: The row is marked in the step that should block the cards.
BlocksLater(s) ==
    /\ At(s, "block")
    /\ To(s, IF cmd[s].row.login = None THEN "mark" ELSE "remove")
    /\ UNCHANGED <<emp, acct, card, session, cached, wizard, calls, booted, odd>>

BlocksCards(s) ==
    /\ At(s, "block")
    /\ card' = [card EXCEPT ![cmd[s].e] = FALSE]
    /\ To(s, IF cmd[s].row.login = None THEN "mark" ELSE "remove")
    /\ UNCHANGED <<emp, acct, session, cached, wizard, calls, booted, odd>>

RemovesUser(l) ==
    /\ acct' = [acct EXCEPT ![l] = [Blank EXCEPT !.state = "gone"]]
    /\ Revokes(l)

\* admin_remove_user of a terminated employee's login.
RemovesLogin(s) ==
    /\ At(s, "remove")
    /\ IF Permitted(cmd[s].t)
       THEN /\ RemovesUser(cmd[s].row.login)
            /\ cached' = cached \ {cmd[s].t}
            /\ To(s, "mark")
       ELSE /\ Stores(s, Idle)
            /\ UNCHANGED <<acct, session, cached>>
    /\ UNCHANGED <<emp, card, wizard, calls, booted, odd>>

Terminated(row) == [row EXCEPT !.status = "terminated", !.login = None]

MarksTerminated(s) ==
    LET e == cmd[s].e IN
    /\ At(s, "mark")
    /\ Stores(s, Idle)
    /\ IF Unique(e, Terminated(cmd[s].row))
       THEN Upsert(e, Terminated(cmd[s].row)) /\ Forgets(emp[e].login)
       ELSE UNCHANGED <<emp, cached>>
    /\ UNCHANGED <<acct, card, session, wizard, calls, booted, odd>>

-----------------------------------------------------------------------------
(* The page of the accounts: AccessAccounts.tsx.                           *)

\* Mutant: the account goes and the employee keeps its login.
AsksRemovalOnly(s, t, l) ==
    /\ Gate(t)
    /\ acct[l].state # "none"
    /\ Starts(s, [pc |-> "drop", t |-> t, l |-> l, wizard |-> FALSE], Self(t, l))
    /\ UNCHANGED <<emp, acct, card, session, cached, wizard, booted>>

\* auth_admin_remove_user: first the link, then the account.
AsksRemoval(s, t, l) ==
    /\ Gate(t)
    /\ acct[l].state # "none"
    /\ Starts(s, [pc |-> "drop", t |-> t, l |-> l, wizard |-> FALSE], Self(t, l))
    /\ emp' = [e \in Employees |-> IF e \in LinkedTo(l) THEN [emp[e] EXCEPT !.login = None]
                                                        ELSE emp[e]]
    /\ Forgets(l)
    /\ UNCHANGED <<acct, card, session, wizard, booted>>

DropsUser(s) ==
    /\ At(s, "drop")
    /\ IF Permitted(cmd[s].t)
       THEN /\ RemovesUser(cmd[s].l)
            /\ cached' = cached \ {cmd[s].t}
       ELSE UNCHANGED <<acct, session, cached>>
    /\ Stores(s, Idle)
    /\ UNCHANGED <<emp, card, wizard, calls, booted, odd>>

\* One call of Better Auth each: with the gate, the permission is asked twice
\* and both must hold.  The page offers a role for accounts not suspended.
ChangesAccount(t, l, row, oddities) ==
    /\ Gate(t)
    /\ l \in Live
    /\ calls < MaxCalls
    /\ calls' = calls + 1
    /\ acct' = [acct EXCEPT ![l] = row]
    /\ odd' = odd \cup oddities \cup Unlinked(t) \cup Overlap
    /\ cached' = cached \ {t}
    /\ UNCHANGED <<emp, card, cmd, wizard, booted>>

SetsRole(t, l, role) ==
    /\ acct[l].role # role
    /\ ChangesAccount(t, l, [acct[l] EXCEPT !.role = role], Self(t, l))
    /\ UNCHANGED session

\* Better Auth refuses that an administrator suspends itself.
Bans(t, l) ==
    /\ session[t] # l
    /\ ~acct[l].banned
    /\ ChangesAccount(t, l, [acct[l] EXCEPT !.banned = TRUE], {})
    /\ Revokes(l)

Unbans(t, l) ==
    /\ acct[l].banned
    /\ ChangesAccount(t, l, [acct[l] EXCEPT !.banned = FALSE], {})
    /\ UNCHANGED session

-----------------------------------------------------------------------------

Next ==
    \/ \E t \in Terminals :
        \/ CacheExpires(t) \/ SignsOut(t) \/ OpensWizard(t) \/ Identifies(t) \/ GoesBack(t)
        \/ ClosesWizard(t) \/ Provisions(t)
        \/ \E l \in Logins : SignsIn(t, l) \/ Bans(t, l) \/ Unbans(t, l)
        \/ \E l \in Logins, r \in Roles : SetsRole(t, l, r)
        \/ \E e \in Employees : Reprovisions(t, e)
    \/ \E s \in Slots, t \in Terminals :
        \/ \E m \in Emails : Boots(s, t, m)
        \/ \E m \in Emails, r \in Roles, smtp \in BOOLEAN : Registers(s, t, m, r, smtp)
        \/ \E e \in Employees : AsksTermination(s, t, e)
        \/ \E e \in Employees, m \in Emails, r \in Roles : AsksAccount(s, t, e, m, r)
        \/ \E e \in Employees, m \in Emails \cup {None}, r \in Roles : AsksProfile(s, t, e, m, r)
        \/ \E l \in Logins : AsksRemoval(s, t, l)
    \/ \E s \in Slots :
        \/ SignsUp(s) \/ Promotes(s) \/ MakesAccount(s) \/ LinksAccount(s) \/ MailsLink(s)
        \/ SavesProfile(s) \/ SetsRoleOf(s)
        \/ BlocksCards(s) \/ RemovesLogin(s) \/ MarksTerminated(s) \/ DropsUser(s) \/ Fails(s)
        \/ \E e \in Employees : Enters(s, e) \/ Inserts(s, e)

Spec == Init /\ [][Next]_vars

-----------------------------------------------------------------------------
(* Properties.                                                             *)

(* Rows and accounts are well formed; emails and logins are not shared      *)
(* between employees (UNIQUE), and no two accounts have one e-mail.         *)
TypeOK ==
    /\ \A e \in Employees : emp[e] = None \/ (emp[e] \in Row /\ Unique(e, emp[e]))
    /\ \A l \in Logins : acct[l] \in [state : {"none", "live", "gone"}, mail : Mail, role : Roles,
                                     banned : BOOLEAN]
    /\ \A k, l \in Live : acct[k].mail = acct[l].mail => k = l
    /\ \A t \in Terminals :
          wizard[t] \in [open : BOOLEAN, step : {"identification", "access", "card"},
                        who : Employees \cup {None}, busy : BOOLEAN]
    /\ session \in [Terminals -> Logins \cup {None}]
    /\ odd \subseteq Oddities

(* The system is never without somebody to administer it: once the set-up   *)
(* has linked the first administrator, there is an administrator who can    *)
(* sign in, through failures at any point of any command, terminations,     *)
(* removals and suspensions, as long as commands do not overlap and nobody  *)
(* acts on its own account (guard.rs; the set-up is refused from then on).  *)
AdministratorRemains ==
    booted /\ odd \cap {"overlap", "self", "unlinked"} = {} =>
        \E l \in Administrators : ~acct[l].banned /\ LinkedTo(l) # {}

(* Once no command is under way, the logins of the employees and the        *)
(* accounts of Better Auth are the same: no account without an employee, no *)
(* employee with a login that is gone.  Commands that overlap, fail half    *)
(* way or are given the e-mail of another employee break it                 *)
(* (auth_create_account, auth_admin_remove_user, employee_terminate).       *)
LoginsLinked ==
    ~Busy /\ odd = {} =>
        /\ \A l \in Live : LinkedTo(l) # {}
        /\ \A e \in Registered : emp[e].login \in Live \cup {None}

(* An employee becomes "terminated" as the last step: from that moment no   *)
(* card of the employee works and the login the employee had is gone,       *)
(* even when earlier attempts failed half way (employee_terminate), unless  *)
(* another command overlapped.                                              *)
TerminatedLast ==
    [][\A e \in Employees :
        /\ emp[e] # None /\ emp'[e] # None /\ emp[e].status # "terminated"
        /\ emp'[e].status = "terminated"
        /\ "overlap" \notin odd
        => ~card'[e] /\ emp[e].login \notin Live' /\ emp'[e].login = None]_vars

-----------------------------------------------------------------------------
(* Two that are false of the code.                                          *)

(* The last administrator cannot lock everybody out (auth_admin_remove_user *)
(* and update_employee do not ask whose account it is).                     *)
NeverLockedOut ==
    booted => \E l \in Administrators : ~acct[l].banned /\ LinkedTo(l) # {}

(* A terminated employee is not active again.  auth_create_account and      *)
(* update_employee write back the row they read before the termination.     *)
StaysTerminated ==
    [][\A e \in Employees :
        emp[e] # None /\ emp[e].status = "terminated" => emp'[e].status = "terminated"]_vars
=============================================================================
