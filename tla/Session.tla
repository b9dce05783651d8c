------------------------------- MODULE Session -------------------------------
(***************************************************************************)
(* Who is signed in at a terminal.  Four places know: the sidecar, where   *)
(* Better Auth keeps the sessions; the program, which holds one token      *)
(* (AuthState.current_session) and remembers for 30 s whose a token is     *)
(* (session_cache); and the window, which shows somebody signed in, the    *)
(* link to the administration, and there the page of the accounts.  Every  *)
(* command is several calls, and the window may be reloaded, the program   *)
(* started again, the sidecar out of reach, or an account changed from     *)
(* elsewhere, between any two of them.                                     *)
(*                                                                         *)
(* The accounts begin with an employee each; Accounts has how that link    *)
(* comes and goes.  Supervisors, whom the gate of the page lets pass and   *)
(* that of the accounts does not, are left out, and so are the sections of *)
(* the page but this one.                                                  *)
(*                                                                         *)
(* A command runs to its first call to the sidecar when it is invoked: the *)
(* locks it takes before are held across no await.                         *)
(***************************************************************************)
EXTENDS Naturals, FiniteSets

CONSTANTS
    Logins,        \* accounts of Better Auth
    MaxSessions,   \* bound on the sessions it opens
    Slots,         \* commands that may be under way together
    MaxCalls,      \* bound on what the user does
    Env,           \* what happens around the code, a subset of Hazards
    None

\* "fail": a call to the sidecar fails, before or after its effect.
\* "reload": the window is reloaded.      "restart": the program is.
\* "elsewhere": an account is changed on another terminal or device.
Hazards == {"fail", "reload", "restart", "elsewhere"}

ASSUME SessionAssumption ==
    /\ MaxSessions \in Nat \ {0} /\ MaxCalls \in Nat
    /\ Env \subseteq Hazards
    /\ None \notin Logins /\ {"loading", "guest"} \cap Logins = {}

VARIABLES
    acct,      \* the table user: role and state
    holder,    \* the table session: whose a token is or was
    linked,    \* accounts an employee of the local database has
    live,      \* tokens the sidecar accepts
    issued,    \* tokens drawn
    current,   \* AuthState.current_session
    cache,     \* AuthState.session_cache: tokens resolved in the last 30 s
    calls,     \* commands under way
    screen,    \* sessionStatus, and userLogged when authenticated
    menu,      \* Header: hasPermission
    page,      \* the route, and the checks of Admin.tsx
    list,      \* AccessAccounts: users
    loading,   \* AccessAccounts: loading
    done,      \* things the user did
    odd        \* history: which of Oddities have happened

vars == <<acct, holder, linked, live, issued, current, cache, calls, screen, menu, page,
          list, loading, done, odd>>

sidecar == <<acct, holder, linked, live, issued>>
accounts == <<list, loading>>
window == <<screen, menu, page, list, loading>>

Tokens == 1..MaxSessions
NoToken == 0
Roles == {"employee", "administrator"}
Account == [role : Roles, state : {"ok", "banned", "gone"}]

\* "crossed": a sign-in began while another, or a restore, was under way;
\* "lists": two lists of the accounts were under way; "left": the page was left or
\* reloaded while an account was being changed; "changed": an account was
\* changed by somebody not on this page, or was the account signed in; "fail": a
\* call failed.
Oddities == {"crossed", "lists", "left", "changed", "fail"}

Idle == [kind |-> "none"]
Under(kinds) == {s \in Slots : calls[s].kind \in kinds}
Heard(kinds) == {s \in Under(kinds) : calls[s].ui}

SignedIn == screen \in Logins

Init ==
    /\ acct \in [Logins -> [role : Roles, state : {"ok"}]]
    /\ holder = [t \in Tokens |-> None]
    /\ linked = Logins
    /\ live = {}
    /\ issued = 0
    /\ current = NoToken
    /\ cache = {}
    /\ calls = [s \in Slots |-> Idle]
    /\ screen = "guest" /\ menu = FALSE /\ page = "home"
    /\ list = None /\ loading = TRUE
    /\ done = 0
    /\ odd = {}

-----------------------------------------------------------------------------
(* Commands.  arg is what a command is about, ui whether the window that    *)
(* invoked it still listens, dead whether its token was dead from the start.*)

IsOdd(oddities) == odd' = odd \cup oddities
Crossed == IF Under({"in", "restore"}) # {} THEN {"crossed"} ELSE {}
Relisted == IF Heard({"list"}) # {} THEN {"lists"} ELSE {}
Left == IF Heard({"act"}) # {} THEN {"left"} ELSE {}

\* A command that reads current_session first: without a token it ends there.
Gated(kind, arg) ==
    [kind |-> kind, arg |-> arg, t |-> current, ui |-> TRUE,
     dead |-> current \notin live, ok |-> FALSE,
     pc |-> IF current = NoToken THEN "tell" ELSE "resolve"]

Acts == /\ done < MaxCalls
        /\ done' = done + 1

Becomes(s, c) == calls' = [calls EXCEPT ![s] = c]
To(s, pc) == Becomes(s, [calls[s] EXCEPT !.pc = pc])
Answers(s, ok) == Becomes(s, [calls[s] EXCEPT !.pc = "tell", !.ok = ok])
At(s, pc) == calls[s].kind # "none" /\ calls[s].pc = pc

\* Mutant: auth_current_user without take_current_session.
GivesUpHolding(s) ==
    /\ Answers(s, FALSE)
    /\ UNCHANGED current

\* A command that is refused; auth_current_user drops whatever token is held.
GivesUp(s) ==
    /\ Answers(s, FALSE)
    /\ current' = IF calls[s].kind = "restore" THEN NoToken ELSE current

\* The sidecar's answer to get-session or has-permission is an error.
Fails(s) ==
    /\ "fail" \in Env
    /\ At(s, "resolve") \/ At(s, "may") \/ At(s, "auth")
    /\ calls[s].t \notin cache \/ ~At(s, "resolve")
    /\ GivesUp(s)
    /\ IsOdd({"fail"})
    /\ UNCHANGED <<sidecar, cache, window, done>>

\* What may be lost is the request or the answer.
Loses == IF "fail" \in Env THEN BOOLEAN ELSE {FALSE}
Lost(lost) == IF lost THEN {"fail"} ELSE {}

-----------------------------------------------------------------------------
(* resolve_session and the gates of guard.rs.                               *)

Resolved(s) ==
    CASE calls[s].kind = "restore" -> Answers(s, TRUE)
      [] calls[s].kind = "in" -> To(s, "hold")
      [] OTHER -> To(s, "may")

FindsCached(s) ==
    /\ At(s, "resolve")
    /\ calls[s].t \in cache
    /\ Resolved(s)
    /\ UNCHANGED <<sidecar, current, cache, window, done, odd>>

\* get-session, and the employee of the account.
AsksSession(s) ==
    /\ At(s, "resolve")
    /\ calls[s].t \notin cache
    /\ IF calls[s].t \in live /\ holder[calls[s].t] \in linked
       THEN To(s, "store") /\ UNCHANGED current
       ELSE GivesUp(s)
    /\ UNCHANGED <<sidecar, cache, window, done, odd>>

\* What the sidecar answered goes to the cache, whatever happened meanwhile.
Stores(s) ==
    /\ At(s, "store")
    /\ cache' = cache \cup {calls[s].t}
    /\ Resolved(s)
    /\ UNCHANGED <<sidecar, current, window, done, odd>>

CacheExpires(t) ==
    /\ t \in cache
    /\ cache' = cache \ {t}
    /\ UNCHANGED <<sidecar, current, calls, window, done, odd>>

\* Mutant: Better Auth with its cookie cache, which outlives a session.
AdministersCached(t) ==
    /\ t \in live \cup cache
    /\ acct[holder[t]].role = "administrator"

\* Better Auth looks the session up each time.
Administers(t) ==
    /\ t \in live
    /\ acct[holder[t]].role = "administrator"

\* The header and the page have their answer, the others a permission.
Permits(s) == IF calls[s].kind \in {"caps", "page"} THEN Answers(s, TRUE) ELSE To(s, "do")

\* has-permission: the sidecar is asked each time.
AsksPermission(s) ==
    /\ At(s, "may")
    /\ IF Administers(calls[s].t)
       THEN Permits(s) /\ UNCHANGED current
       ELSE GivesUp(s)
    /\ UNCHANGED <<sidecar, cache, window, done, odd>>

-----------------------------------------------------------------------------
(* Signing in: handleLogin of the header.                                   *)

\* The button stays enabled while a sign-in is under way.
SignsIn(s, l) ==
    /\ ~SignedIn
    /\ calls[s] = Idle
    /\ Acts
    /\ Becomes(s, [kind |-> "in", pc |-> "auth", arg |-> l, t |-> NoToken, ui |-> TRUE,
                   dead |-> FALSE, ok |-> FALSE])
    /\ IsOdd(Crossed)
    /\ UNCHANGED <<sidecar, current, cache, window>>

OpensSession(s, lost) ==
    LET l == calls[s].arg IN
    /\ At(s, "auth")
    /\ IF acct[l].state = "ok"
       THEN /\ issued < MaxSessions
            /\ issued' = issued + 1
            /\ holder' = [holder EXCEPT ![issued'] = l]
            /\ live' = live \cup {issued'}
            /\ IF lost THEN Answers(s, FALSE)
                       ELSE Becomes(s, [calls[s] EXCEPT !.pc = "resolve", !.t = issued'])
            /\ IsOdd(Lost(lost))
       ELSE /\ Answers(s, FALSE)
            /\ UNCHANGED <<issued, holder, live, odd>>
    /\ UNCHANGED <<acct, linked, current, cache, window, done>>

\* set_current_session.
Holds(s) ==
    /\ At(s, "hold")
    /\ current' = calls[s].t
    /\ Answers(s, TRUE)
    /\ UNCHANGED <<sidecar, cache, window, done, odd>>

-----------------------------------------------------------------------------
(* Signing out: logout of the context, auth_sign_out.                       *)

\* What a window that shows nobody still listens to.
Deaf(c) == IF c.kind \in {"page", "act", "list"} THEN [c EXCEPT !.ui = FALSE] ELSE c

\* The page of the accounts as it is when it opens.
Unlists == list' = None /\ loading' = TRUE

\* The effects of "guest": the link and the page go; the header's questions
\* that are under way do not.
ShowsGuest ==
    /\ screen' = "guest" /\ menu' = FALSE /\ page' = "home"
    /\ Unlists

SignsOut(s) ==
    /\ SignedIn
    /\ calls[s] = Idle
    /\ Acts
    /\ current' = NoToken
    /\ calls' = [x \in Slots |->
                    IF x # s THEN Deaf(calls[x])
                    ELSE IF current = NoToken THEN Idle
                    ELSE [kind |-> "out", pc |-> "end", arg |-> None, t |-> current,
                          ui |-> FALSE, dead |-> FALSE, ok |-> FALSE]]
    /\ ShowsGuest
    /\ IsOdd(Left)
    /\ UNCHANGED <<sidecar, cache>>

\* sign-out of Better Auth.  On an error the cache keeps its entry.
EndsSession(s, lost) ==
    /\ At(s, "end")
    /\ \/ live' = live \ {calls[s].t}
       \/ lost /\ UNCHANGED live
    /\ IF lost THEN Becomes(s, Idle) ELSE To(s, "forget")
    /\ IsOdd(Lost(lost))
    /\ UNCHANGED <<acct, holder, linked, issued, current, cache, window, done>>

Forgets(s) ==
    /\ At(s, "forget")
    /\ cache' = cache \ {calls[s].t}
    /\ Becomes(s, Idle)
    /\ UNCHANGED <<sidecar, current, window, done, odd>>

-----------------------------------------------------------------------------
(* The window loads: auth_current_user.                                     *)

\* The page of the route is there at once, and waits for the status.
Reloads(s) ==
    /\ "reload" \in Env
    /\ calls[s] = Idle
    /\ Acts
    /\ calls' = [x \in Slots |-> IF x = s THEN Gated("restore", None)
                                 ELSE IF calls[x] = Idle THEN Idle
                                 ELSE [calls[x] EXCEPT !.ui = FALSE]]
    /\ screen' = "loading" /\ menu' = FALSE
    /\ Unlists
    /\ page' = IF page = "home" THEN "home" ELSE "wait"
    /\ IsOdd(Crossed \cup Left)
    /\ UNCHANGED <<sidecar, current, cache>>

\* A token that was held is forgotten, and stays good at the sidecar.
Restarts(s) ==
    /\ "restart" \in Env
    /\ Acts
    /\ current' = NoToken /\ cache' = {}
    /\ calls' = [x \in Slots |->
                    IF x # s THEN Idle
                    ELSE [kind |-> "restore", pc |-> "tell", arg |-> None, t |-> NoToken,
                          ui |-> TRUE, dead |-> FALSE, ok |-> FALSE]]
    /\ screen' = "loading" /\ menu' = FALSE /\ page' = "home"
    /\ Unlists
    /\ UNCHANGED <<sidecar, odd>>

-----------------------------------------------------------------------------
(* What the window does with the answers.                                   *)

Ends(s) == Becomes(s, Idle)

\* completeLogin and the effect of the header, which asks if the status is new.
Shows(s, l) ==
    /\ screen' = l
    /\ IF SignedIn THEN Ends(s) ELSE Becomes(s, Gated("caps", None))
    /\ UNCHANGED <<menu, page, accounts>>

TellsSignIn(s) ==
    /\ At(s, "tell") /\ calls[s].kind = "in"
    /\ IF calls[s].ui /\ calls[s].ok
       THEN Shows(s, calls[s].arg)
       ELSE Ends(s) /\ UNCHANGED window
    /\ UNCHANGED <<sidecar, current, cache, done, odd>>

TellsRestore(s) ==
    /\ At(s, "tell") /\ calls[s].kind = "restore"
    /\ IF ~calls[s].ui THEN Ends(s) /\ UNCHANGED window
       ELSE IF calls[s].ok THEN Shows(s, holder[calls[s].t])
       ELSE /\ calls' = [x \in Slots |-> IF x = s THEN Idle ELSE Deaf(calls[x])]
            /\ ShowsGuest
    /\ UNCHANGED <<sidecar, current, cache, done, odd>>

\* Whoever is signed in by then.
TellsHeader(s) ==
    /\ At(s, "tell") /\ calls[s].kind = "caps"
    /\ menu' = IF calls[s].ui THEN calls[s].ok ELSE menu
    /\ Ends(s)
    /\ UNCHANGED <<sidecar, current, cache, screen, page, accounts, done, odd>>

-----------------------------------------------------------------------------
(* The administration: Admin.tsx, and its page of the accounts.             *)

\* The link; the address is also there without it.
GoesToAdmin ==
    /\ page = "home" /\ menu
    /\ Acts
    /\ page' = "wait"
    /\ UNCHANGED <<sidecar, current, cache, calls, screen, menu, accounts, odd>>

GoesHome ==
    /\ page # "home"
    /\ Acts
    /\ page' = "home"
    /\ Unlists
    /\ calls' = [x \in Slots |-> Deaf(calls[x])]
    /\ IsOdd(Left)
    /\ UNCHANGED <<sidecar, current, cache, screen, menu>>

\* The effect of the page once the status is known.
PageAsks(s) ==
    /\ page = "wait"
    /\ SignedIn
    /\ calls[s] = Idle
    /\ page' = "asked"
    /\ Becomes(s, Gated("page", None))
    /\ UNCHANGED <<sidecar, current, cache, screen, menu, accounts, done, odd>>

\* The page opens, and the accounts are listed.
TellsPage(s) ==
    /\ At(s, "tell") /\ calls[s].kind = "page"
    /\ page' = IF ~calls[s].ui THEN page ELSE IF calls[s].ok THEN "open" ELSE "denied"
    /\ Becomes(s, IF calls[s].ui /\ calls[s].ok THEN Gated("list", None) ELSE Idle)
    /\ UNCHANGED <<sidecar, current, cache, screen, menu, accounts, done, odd>>

\* What is rendered: the question, the refusal, or the tabs.
Opened == page = "open"

\* loadUsers, by the button; the others follow an action.
Refreshes(s) ==
    /\ Opened /\ ~loading
    /\ calls[s] = Idle
    /\ Acts
    /\ loading' = TRUE
    /\ Becomes(s, Gated("list", None))
    /\ IsOdd(Relisted)
    /\ UNCHANGED <<sidecar, current, cache, screen, menu, page, list>>

\* auth_admin_list_users: the token is read again after the gate. The page asks
\* for the first 100 accounts; there are no more here.
Lists(s) ==
    /\ At(s, "do") /\ calls[s].kind = "list"
    /\ IF Administers(current)
       THEN Becomes(s, [calls[s] EXCEPT !.pc = "tell", !.ok = TRUE, !.arg = acct])
       ELSE Answers(s, FALSE)
    /\ UNCHANGED <<sidecar, current, cache, window, done, odd>>

TellsList(s) ==
    /\ At(s, "tell") /\ calls[s].kind = "list"
    /\ list' = IF calls[s].ui /\ calls[s].ok THEN calls[s].arg ELSE list
    /\ loading' = (loading /\ ~calls[s].ui)
    /\ Ends(s)
    /\ UNCHANGED <<sidecar, current, cache, screen, menu, page, done, odd>>

\* The row an action makes of what the page shows; Better Auth does not know
\* the page.  The role of a suspended account is not offered.
Changed(row, what) ==
    CASE what \in Roles -> [row EXCEPT !.role = what]
      [] what = "ban" -> [row EXCEPT !.state = "banned"]
      [] what = "unban" -> [row EXCEPT !.state = "ok"]
      [] what = "remove" -> [row EXCEPT !.state = "gone"]

Offered(row, what) ==
    /\ row.state # "gone"
    /\ what \in Roles => row.state = "ok" /\ row.role # what
    /\ what = "ban" => row.state = "ok"
    /\ what = "unban" => row.state = "banned"

\* handleRoleChange, executeConfirmedAction, handleUnban.  The rows are there
\* unless a list is loading, a dialog that asks for confirmation also then; while
\* a role is saved its select is disabled.
Chooses(s, l, what) ==
    /\ Opened /\ list # None
    /\ loading => what \in {"ban", "remove"}
    /\ Offered(list[l], what)
    /\ what \in Roles => \A x \in Heard({"act"}) : calls[x].arg[1] # l \/ calls[x].arg[2] \notin Roles
    /\ calls[s] = Idle
    /\ Acts
    /\ Becomes(s, Gated("act", <<l, what>>))
    /\ IsOdd(IF screen = l THEN {"changed"} ELSE {})
    /\ UNCHANGED <<sidecar, current, cache, window>>

\* What the change does to the sessions of l.
Revokes(l, what) ==
    live' = IF what \in {"ban", "remove"} THEN {t \in live : holder[t] # l} ELSE live

\* A removal first takes the account from its employee.  Then the call of Better
\* Auth, with the token that is held by now: the permission is asked again, and
\* nobody suspends or removes his own account.
Does(s, lost) ==
    LET l == calls[s].arg[1]
        what == calls[s].arg[2]
    IN
    /\ At(s, "do") /\ calls[s].kind = "act"
    /\ linked' = IF what = "remove" THEN linked \ {l} ELSE linked
    /\ IF /\ Administers(current)
          /\ acct[l].state # "gone"
          /\ what \in {"ban", "remove"} => holder[current] # l
       THEN /\ acct' = [acct EXCEPT ![l] = Changed(@, what)]
            /\ Revokes(l, what)
            /\ IF lost THEN Answers(s, FALSE) ELSE To(s, "clear")
            /\ IsOdd(Lost(lost))
       ELSE /\ Answers(s, FALSE)
            /\ UNCHANGED <<acct, live, odd>>
    /\ UNCHANGED <<holder, issued, current, cache, window, done>>

\* clear_session_cache.
Clears(s) ==
    /\ At(s, "clear")
    /\ cache' = {}
    /\ Answers(s, TRUE)
    /\ UNCHANGED <<sidecar, current, window, done, odd>>

\* Mutant: the list is not loaded again after an action.
TellsActOnly(s) ==
    /\ At(s, "tell") /\ calls[s].kind = "act"
    /\ Ends(s)
    /\ UNCHANGED <<sidecar, current, cache, window, done, odd>>

TellsAct(s) ==
    /\ At(s, "tell") /\ calls[s].kind = "act"
    /\ IF calls[s].ui /\ calls[s].ok
       THEN /\ Becomes(s, Gated("list", None))
            /\ loading' = TRUE
            /\ IsOdd(Relisted)
       ELSE Ends(s) /\ UNCHANGED <<loading, odd>>
    /\ UNCHANGED <<sidecar, current, cache, screen, menu, page, list, done>>

-----------------------------------------------------------------------------
(* Other terminals, and the pages of the sidecar.                           *)

Elsewhere(l) ==
    /\ "elsewhere" \in Env
    /\ acct[l].state = "ok"
    /\ Acts
    /\ \/ \E r \in Roles \ {acct[l].role} : acct' = [acct EXCEPT ![l].role = r] /\ UNCHANGED live
       \/ acct' = [acct EXCEPT ![l].state = "banned"] /\ Revokes(l, "ban")
    /\ IsOdd({"changed"})
    /\ UNCHANGED <<holder, linked, issued, current, cache, calls, window>>

\* A password set through the link of a mail, or changed in the portal, whose own
\* session is the only one that stays.
SetsPassword(l) ==
    /\ "elsewhere" \in Env
    /\ acct[l].state = "ok"
    /\ Acts
    /\ Revokes(l, "ban") /\ live' # live
    /\ IsOdd({"changed"})
    /\ UNCHANGED <<acct, holder, linked, issued, current, cache, calls, window>>

-----------------------------------------------------------------------------

Next ==
    \/ GoesToAdmin \/ GoesHome
    \/ \E t \in Tokens : CacheExpires(t)
    \/ \E l \in Logins : Elsewhere(l) \/ SetsPassword(l)
    \/ \E s \in Slots :
        \/ FindsCached(s) \/ AsksSession(s) \/ Stores(s) \/ AsksPermission(s) \/ Fails(s)
        \/ Holds(s) \/ SignsOut(s) \/ Forgets(s) \/ Reloads(s) \/ Restarts(s)
        \/ TellsSignIn(s) \/ TellsRestore(s) \/ TellsHeader(s) \/ TellsPage(s) \/ TellsList(s)
        \/ PageAsks(s) \/ Refreshes(s) \/ Lists(s) \/ Clears(s) \/ TellsAct(s)
        \/ \E l \in Logins : SignsIn(s, l)
        \/ \E l \in Logins, what \in Roles \cup {"ban", "unban", "remove"} : Chooses(s, l, what)
        \/ \E lost \in Loses : OpensSession(s, lost) \/ EndsSession(s, lost) \/ Does(s, lost)

Spec == Init /\ [][Next]_vars

-----------------------------------------------------------------------------
(* Properties.                                                             *)

Quiet == \A s \in Slots : calls[s] = Idle

(* Tokens belong to accounts, live ones to accounts that may sign in, and   *)
(* what the window shows is one of its states.                              *)
TypeOK ==
    /\ acct \in [Logins -> Account]
    /\ \A t \in live : holder[t] \in Logins /\ acct[holder[t]].state = "ok"
    /\ live \subseteq 1..issued
    /\ current \in 0..issued
    /\ cache \subseteq 1..issued
    /\ screen \in Logins \cup {"loading", "guest"}
    /\ menu \in BOOLEAN /\ loading \in BOOLEAN
    /\ page \in {"home", "wait", "asked", "open", "denied"}
    /\ odd \subseteq Oddities

(* The window and the program agree on who is signed in once nothing is     *)
(* under way, after reloads, restarts, failures and revocations             *)
(* (auth_current_user "so the app settles on the guest state").  A sign-in  *)
(* that overlaps another or the restore of a reload is exempt.              *)
ScreenHeld ==
    Quiet /\ "crossed" \notin odd =>
        IF SignedIn THEN current # NoToken /\ holder[current] = screen
                    ELSE screen = "guest" /\ current = NoToken

(* A session that was revoked does nothing more, although the program may   *)
(* take it for valid for 30 s: a command that starts after the revocation   *)
(* changes no account (require_permission asks the sidecar each time).      *)
RevokedNeverActs ==
    [][\A s \in Slots :
        calls[s].kind = "act" /\ calls'[s] # calls[s] /\ calls[s].dead => acct' = acct]_vars

(* What the page of the accounts shows is how the accounts are, whatever    *)
(* was done there, unless somebody else changed them, a call failed, the    *)
(* page was left while an account was changed (the list of the page that    *)
(* opens again may be older), or two lists or two sign-ins were under way   *)
(* together (loadUsers).                                                    *)
AccountsShown ==
    Quiet /\ list # None /\ odd \cap {"crossed", "lists", "left", "changed", "fail"} = {} => list = acct
=============================================================================
