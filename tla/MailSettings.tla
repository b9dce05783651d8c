---------------------------- MODULE MailSettings -----------------------------
(***************************************************************************)
(* The mail server, the addresses of the links and the punches without a   *)
(* card: the tab "Seguranca" of the administration, the commands it calls, *)
(* what the terminal keeps, what the sidecar remembers of it, and the      *)
(* mails that either sends (Admin.tsx, misc/punch.rs, misc/smtp.rs,        *)
(* misc/advanced.rs, auth/sidecar.rs, auth/client.rs, sidecar/src).        *)
(*                                                                         *)
(* The terminal keeps the settings for good and the sidecar a copy in      *)
(* memory: given the addresses when it starts and at every save of them,   *)
(* and the mail server when it starts and with every link an administrator *)
(* sends.  Codes, copies of one's data and tests bring the mail server     *)
(* with them; links asked for in the portal and reminders use the copy.    *)
(*                                                                         *)
(* The port and the employees a mail is about are left out, and so is the  *)
(* copy of the addresses in PostgreSQL, which nothing reads.  The mail     *)
(* server takes every mail; who answers a command slowly is the sidecar.   *)
(***************************************************************************)
EXTENDS Naturals, FiniteSets

CONSTANTS
    Servers,     \* mail servers: host, port, user and sender
    Passes,      \* passwords for them
    Origins,     \* addresses a portal is reached at, besides that on the LAN
    Slots,       \* bound: commands under way together
    Lan,         \* the address of the machine on its network
    Blank,       \* a field left empty
    None

Configs == [server : Servers, pass : Passes \cup {Blank}]
Forms == [server : Servers \cup {Blank}, pass : Passes \cup {Blank}]
Addresses == [url : Origins \cup {None}, trusted : SUBSET Origins]
Unset == [server |-> Blank, pass |-> Blank]
NoAddress == [url |-> None, trusted |-> {}]

VARIABLES
    smtp,        \* keyring: smtp_config, or None
    address,     \* app_config: public_url and trusted_origins
    manual,      \* keyring: manual_punch_enabled
    alive,       \* the sidecar: "off", "up", or "dead" until the program restarts
    runtime,     \* its runtime: smtp, publicOrigin, trustedOrigins
    warm,        \* sidecar::start: the mail server it is about to push
    calls,       \* commands under way
    tab,         \* Admin: open, manualPunchEnabled, smtpForm, advancedForm, ...
    mail,        \* the last mail sent
    typed,       \* history: the last password a save was given
    mixed        \* history: which of Mixtures have happened

mailVars == <<smtp, address, manual, alive, runtime, warm, calls, tab, mail, typed, mixed>>
kept == <<smtp, address, manual, typed>>
sidecar == <<alive, runtime, warm>>

\* Two commands that met on their way.  "saves": of the mail server; "addresses":
\* a save of the addresses, and another or a link; "links": two links, or one and
\* the start of the sidecar; "lost": the sidecar never got the addresses saved.
Mixtures == {"saves", "addresses", "links", "lost"}

Idle == [kind |-> "none"]
Kinds == {"toggle", "save", "try", "test", "address", "link", "otp", "export"}
Under(kinds) == {s \in Slots : calls[s].kind \in kinds}
Mixes(kinds, what) == IF Under(kinds) # {} THEN {what} ELSE {}

Closed == [open |-> FALSE, loaded |-> FALSE, manual |-> FALSE, form |-> Unset,
           saving |-> FALSE, testing |-> FALSE, fields |-> NoAddress, storing |-> FALSE]

MailTypeOK ==
    /\ smtp \in Configs \cup {None} /\ address \in Addresses /\ manual \in BOOLEAN
    /\ alive \in {"off", "up", "dead"}
    /\ runtime \in [smtp : Configs \cup {None}, origin : Origins \cup {Lan, None},
                    trusted : SUBSET Origins]
    /\ warm \in Configs \cup {None}
    /\ \A s \in Slots : calls[s].kind \in Kinds \cup {"none"}
    /\ tab.form \in Forms /\ tab.fields \in Addresses
    /\ typed \in Passes \cup {Blank} /\ mixed \subseteq Mixtures

\* A terminal never configured, or one that was; its addresses, if it has any, are
\* the public one and that one trusted (bound: the tab stores the others).
MailInit ==
    /\ smtp \in {c \in Configs : c.pass # Blank} \cup {None}
    /\ address \in {NoAddress} \cup {[url |-> o, trusted |-> {o}] : o \in Origins}
    /\ manual = FALSE
    /\ alive = "off" /\ runtime = [smtp |-> None, origin |-> None, trusted |-> {}] /\ warm = None
    /\ calls = [s \in Slots |-> Idle]
    /\ tab = Closed
    /\ mail = None
    /\ typed = (IF smtp = None THEN Blank ELSE smtp.pass) /\ mixed = {}

-----------------------------------------------------------------------------
(* The mails.  via is the mail server, link the address of the page a link  *)
(* opens; asked is what the command that asked for a link had read.         *)

Mail(kind, via) == [kind |-> kind, via |-> via, link |-> None, asked |-> None]
OtpMail(via) == Mail("otp", via)
MissedPunchMail(via) == Mail("missed", via)
ExportMail(via) == Mail("export", via)
TestMail(via) == Mail("test", via)
PasswordMail(via, link, asked) == [kind |-> "link", via |-> via, link |-> link, asked |-> asked]

-----------------------------------------------------------------------------
(* The sidecar and the program it belongs to.                               *)

\* publicOrigins: none on a machine without a network.
LanOrigins == {Lan, None}

\* sidecar::start hands the addresses over, index.ts takes them; the mail server
\* is pushed once the sidecar answers.
Boots ==
    /\ alive = "off"
    /\ alive' = "up"
    /\ \E lan \in LanOrigins :
          runtime' = [smtp |-> None, trusted |-> address.trusted,
                      origin |-> IF address.url # None THEN address.url ELSE lan]
    /\ warm' = smtp
    /\ UNCHANGED <<kept, calls, tab, mail, mixed>>

\* smtp/push; a push that fails is forgotten.
Warms ==
    /\ alive = "up" /\ warm # None
    /\ \E lost \in BOOLEAN : runtime' = IF lost THEN runtime ELSE [runtime EXCEPT !.smtp = warm]
    /\ warm' = None
    /\ UNCHANGED <<kept, alive, calls, tab, mail, mixed>>

\* Nothing starts it again while the program runs.
Dies ==
    /\ alive = "up"
    /\ alive' = "dead" /\ warm' = None
    /\ UNCHANGED <<kept, runtime, calls, tab, mail, mixed>>

Restarts ==
    /\ alive # "off"
    /\ alive' = "off" /\ warm' = None
    /\ runtime' = [smtp |-> None, origin |-> None, trusted |-> {}]
    /\ calls' = [s \in Slots |-> Idle] /\ tab' = Closed
    /\ UNCHANGED <<kept, mail, mixed>>

-----------------------------------------------------------------------------
(* The tab.  Its three questions are answered without the sidecar.          *)

OpensTab ==
    /\ alive = "up" /\ ~tab.open
    /\ tab' = [Closed EXCEPT !.open = TRUE]
    /\ UNCHANGED <<kept, sidecar, calls, mail, mixed>>

LeavesTab ==
    /\ tab.open
    /\ tab' = Closed
    /\ calls' = [s \in Slots |-> IF calls[s].kind = "none" THEN Idle ELSE [calls[s] EXCEPT !.ui = FALSE]]
    /\ UNCHANGED <<kept, sidecar, mail, mixed>>

\* The password never comes back to the page.
LoadsTab ==
    /\ tab.open /\ ~tab.loaded
    /\ tab' = [tab EXCEPT !.loaded = TRUE, !.manual = manual, !.fields = address,
                          !.form.server = IF smtp = None THEN @ ELSE smtp.server]
    /\ UNCHANGED <<kept, sidecar, calls, mail, mixed>>

TypesMailServer ==
    /\ tab.open
    /\ \E form \in Configs \ {tab.form} : tab' = [tab EXCEPT !.form = form]
    /\ UNCHANGED <<kept, sidecar, calls, mail, mixed>>

TypesAddress ==
    /\ tab.open
    /\ \E fields \in Addresses \ {tab.fields} : tab' = [tab EXCEPT !.fields = fields]
    /\ UNCHANGED <<kept, sidecar, calls, mail, mixed>>

Free == {s \in Slots : calls[s] = Idle}

\* A command is sent; ui: the tab that sent it is still there.
Sends(kind, arg, pc, what) ==
    /\ Free # {}
    /\ calls' = [calls EXCEPT ![CHOOSE s \in Free : TRUE] =
                    [kind |-> kind, arg |-> arg, got |-> None, pc |-> pc,
                     ui |-> tab.open, ok |-> FALSE]]
    /\ mixed' = mixed \cup what
    /\ UNCHANGED <<kept, sidecar, mail>>

\* handleToggleManualPunch: the switch waits for the answer, and may be used again.
Toggles ==
    /\ tab.open
    /\ Sends("toggle", ~tab.manual, "guard", {})
    /\ UNCHANGED tab

\* handleSaveSmtp
SavesMailServer ==
    /\ tab.open /\ ~tab.saving /\ tab.form.server # Blank    \* bound
    /\ Sends("save", tab.form, "guard", Mixes({"save", "try"}, "saves"))
    /\ tab' = [tab EXCEPT !.saving = TRUE]

\* handleTestSmtp: it saves the form first if a password was typed.
TestsMailServer ==
    /\ tab.open /\ ~tab.testing
    /\ IF tab.form.pass # Blank /\ tab.form.server # Blank    \* bound
       THEN Sends("try", tab.form, "guard", Mixes({"save", "try"}, "saves"))
       ELSE Sends("test", None, "guard", {})
    /\ tab' = [tab EXCEPT !.testing = TRUE]

\* handleSaveAdvanced
SavesAddress ==
    /\ tab.open /\ ~tab.storing
    /\ Sends("address", tab.fields, "guard", Mixes({"address", "link"}, "addresses"))
    /\ tab' = [tab EXCEPT !.storing = TRUE]

\* Other pages: a link to set a password, a code to punch without a card, the
\* copy of the data of an employee who leaves.
AsksLink ==
    /\ Sends("link", None, "ask",
             Mixes({"link"}, "links") \cup Mixes({"address"}, "addresses"))
    /\ UNCHANGED tab

AsksOtp == manual /\ Sends("otp", None, "ask", {}) /\ UNCHANGED tab
AsksExport == Sends("export", None, "ask", {}) /\ UNCHANGED tab

-----------------------------------------------------------------------------
(* The commands.                                                            *)

At(s, kinds, pc) == calls[s].kind \in kinds /\ calls[s].pc = pc
Becomes(s, c) == calls' = [calls EXCEPT ![s] = c]
To(s, pc) == Becomes(s, [calls[s] EXCEPT !.pc = pc])
Got(s, what, pc) == Becomes(s, [calls[s] EXCEPT !.got = what, !.pc = pc])
Answers(s, ok) ==
    Becomes(s, [calls[s] EXCEPT !.pc = "answer", !.ok = ok, !.got = None,
                                !.arg = IF calls[s].kind = "toggle" THEN @ ELSE None])

\* require_current, which asks the sidecar.
Admitted(s) ==
    /\ At(s, Kinds, "guard")
    /\ \/ /\ alive = "up"
          /\ To(s, CASE calls[s].kind \in {"save", "try"} -> "read"
                     [] calls[s].kind = "test" -> "ask"
                     [] OTHER -> "write")
       \/ Answers(s, FALSE)
    /\ UNCHANGED <<kept, sidecar, tab, mail, mixed>>

\* set_smtp_config_cmd: the password there is.
ReadsPassword(s) ==
    /\ At(s, {"save", "try"}, "read")
    /\ Got(s, IF smtp = None THEN Blank ELSE smtp.pass, "write")
    /\ UNCHANGED <<kept, sidecar, tab, mail, mixed>>

\* Mutant: a password left blank is stored as it is.
PasswordAsTyped(pass, existing) == pass

\* A password left blank is the one there was.
Password(pass, existing) == IF pass = Blank THEN existing ELSE pass

\* set_smtp_config.  After the save of a test comes the test.
StoresMailServer(s) ==
    LET form == calls[s].arg IN
    /\ At(s, {"save", "try"}, "write")
    /\ smtp' = [form EXCEPT !.pass = Password(form.pass, calls[s].got)]
    /\ typed' = IF form.pass = Blank THEN typed ELSE form.pass
    /\ IF calls[s].kind = "save" THEN Answers(s, TRUE)
       ELSE Becomes(s, [calls[s] EXCEPT !.kind = "test", !.pc = "guard", !.arg = None, !.got = None])
    /\ UNCHANGED <<address, manual, sidecar, tab, mail, mixed>>

\* set_manual_punch_enabled_cmd
StoresManual(s) ==
    /\ At(s, {"toggle"}, "write")
    /\ manual' = calls[s].arg
    /\ Answers(s, TRUE)
    /\ UNCHANGED <<smtp, address, typed, sidecar, tab, mail, mixed>>

\* save_advanced: one setting after the other.
StoresUrl(s) ==
    /\ At(s, {"address"}, "write")
    /\ address' = [address EXCEPT !.url = calls[s].arg.url]
    /\ To(s, "trusted")
    /\ UNCHANGED <<smtp, manual, typed, sidecar, tab, mail, mixed>>

StoresTrusted(s) ==
    /\ At(s, {"address"}, "trusted")
    /\ address' = [address EXCEPT !.trusted = calls[s].arg.trusted]
    /\ To(s, "configured")
    /\ UNCHANGED <<smtp, manual, typed, sidecar, tab, mail, mixed>>

\* configured_public_url, configured_trusted_origins
ReadsAddress(s) ==
    /\ At(s, {"address"}, "configured")
    /\ Becomes(s, [calls[s] EXCEPT !.arg = None, !.got = address, !.pc = "push"])
    /\ UNCHANGED <<kept, sidecar, tab, mail, mixed>>

\* Mutant: an address that is not set leaves the one there is.
PushesSetOnly(s) ==
    /\ At(s, {"address"}, "push") /\ alive = "up"
    /\ runtime' = [runtime EXCEPT
           !.origin = IF calls[s].got.url = None THEN @ ELSE calls[s].got.url,
           !.trusted = calls[s].got.trusted]
    /\ Answers(s, TRUE)
    /\ UNCHANGED <<kept, alive, warm, tab, mail, mixed>>

\* public-origins/push
Pushes(s) ==
    /\ At(s, {"address"}, "push") /\ alive = "up"
    /\ runtime' = [runtime EXCEPT !.origin = calls[s].got.url, !.trusted = calls[s].got.trusted]
    /\ Answers(s, TRUE)
    /\ UNCHANGED <<kept, alive, warm, tab, mail, mixed>>

\* The push fails, which is printed; the save succeeded.
PushFails(s) ==
    /\ At(s, {"address"}, "push")
    /\ Answers(s, TRUE)
    /\ mixed' = mixed \cup {"lost"}
    /\ UNCHANGED <<kept, sidecar, tab, mail>>

\* get_smtp_config and configured_public_url; without a mail server it ends, and a
\* link wants its password too (smtp_config_required).
Asks(s) ==
    /\ At(s, Kinds, "ask")
    /\ IF smtp = None \/ (calls[s].kind = "link" /\ smtp.pass = Blank)
       THEN Answers(s, FALSE)
       ELSE Got(s, [smtp |-> smtp, url |-> address.url], "request")
    /\ UNCHANGED <<kept, sidecar, tab, mail, mixed>>

\* punch-otp/send
SendsOtp(s) ==
    /\ At(s, {"otp"}, "request") /\ alive = "up"
    /\ mail' = OtpMail(calls[s].got.smtp)
    /\ Answers(s, TRUE)
    /\ UNCHANGED <<kept, sidecar, tab, mixed>>

\* data-export/send
SendsExport(s) ==
    /\ At(s, {"export"}, "request") /\ alive = "up"
    /\ mail' = ExportMail(calls[s].got.smtp)
    /\ Answers(s, TRUE)
    /\ UNCHANGED <<kept, sidecar, tab, mixed>>

\* smtp/test
SendsTest(s) ==
    /\ At(s, {"test"}, "request") /\ alive = "up"
    /\ mail' = TestMail(calls[s].got.smtp)
    /\ Answers(s, TRUE)
    /\ UNCHANGED <<kept, sidecar, tab, mixed>>

\* Mutant: the mail server of the request is kept only where there is none.
StashesFirst(s) ==
    LET origin == IF calls[s].got.url # None THEN calls[s].got.url ELSE runtime.origin IN
    /\ At(s, {"link"}, "request") /\ alive = "up"
    /\ IF origin = None THEN Answers(s, FALSE) /\ UNCHANGED runtime
       ELSE /\ runtime' = [runtime EXCEPT !.origin = origin,
                                          !.smtp = IF @ = None THEN calls[s].got.smtp ELSE @]
            /\ To(s, "callback")
    /\ mixed' = mixed \cup IF warm # None THEN {"links"} ELSE {}
    /\ UNCHANGED <<kept, alive, warm, tab, mail>>

\* password-setup/send, up to requestPasswordReset.
StashesLink(s) ==
    LET origin == IF calls[s].got.url # None THEN calls[s].got.url ELSE runtime.origin IN
    /\ At(s, {"link"}, "request") /\ alive = "up"
    /\ IF origin = None THEN Answers(s, FALSE) /\ UNCHANGED runtime
       ELSE /\ runtime' = [runtime EXCEPT !.origin = origin, !.smtp = calls[s].got.smtp]
            /\ To(s, "callback")
    /\ mixed' = mixed \cup IF warm # None THEN {"links"} ELSE {}
    /\ UNCHANGED <<kept, alive, warm, tab, mail>>

\* sendResetPassword needs both, and finds what the sidecar has by then.
CanLink == runtime.smtp # None /\ runtime.origin # None

SendsLink(s) ==
    /\ At(s, {"link"}, "callback") /\ alive = "up"
    /\ IF CanLink
       THEN mail' = PasswordMail(runtime.smtp, runtime.origin, calls[s].got) /\ Answers(s, TRUE)
       ELSE Answers(s, FALSE) /\ UNCHANGED mail
    /\ UNCHANGED <<kept, sidecar, tab, mixed>>

\* The sidecar is gone, or the mail server refuses.
RequestFails(s) ==
    /\ At(s, Kinds, "request") \/ At(s, Kinds, "callback")
    /\ Answers(s, FALSE)
    /\ UNCHANGED <<kept, sidecar, tab, mail, mixed>>

\* The portal: an employee forgot the password.
Recovers ==
    /\ alive = "up" /\ CanLink
    /\ mail' = PasswordMail(runtime.smtp, runtime.origin, None)
    /\ UNCHANGED <<kept, sidecar, calls, tab, mixed>>

\* startMissedPunchScheduler; MissedPunch has when.
Reminds ==
    /\ alive = "up" /\ runtime.smtp # None
    /\ mail' = MissedPunchMail(runtime.smtp)
    /\ UNCHANGED <<kept, sidecar, calls, tab, mixed>>

\* What the answer of a command changes on the tab.
Told(t, c) ==
    CASE c.kind = "toggle" -> [t EXCEPT !.manual = IF c.ok THEN c.arg ELSE @]
      [] c.kind = "save" -> [t EXCEPT !.saving = FALSE, !.form.pass = IF c.ok THEN Blank ELSE @]
      [] c.kind \in {"try", "test"} -> [t EXCEPT !.testing = FALSE]
      [] c.kind = "address" -> [t EXCEPT !.storing = FALSE]
      [] OTHER -> t

TellsTab(s) ==
    /\ At(s, Kinds, "answer")
    /\ tab' = IF calls[s].ui /\ tab.open THEN Told(tab, calls[s]) ELSE tab
    /\ Becomes(s, Idle)
    /\ UNCHANGED <<kept, sidecar, mail, mixed>>

-----------------------------------------------------------------------------
TabActs == OpensTab \/ LeavesTab \/ TypesMailServer \/ TypesAddress
           \/ Toggles \/ SavesMailServer \/ TestsMailServer \/ SavesAddress
OtherActs == AsksLink \/ AsksOtp \/ AsksExport \/ Recovers \/ Reminds
Command(s) ==
    \/ Admitted(s) \/ ReadsPassword(s) \/ StoresMailServer(s) \/ StoresManual(s)
    \/ StoresUrl(s) \/ StoresTrusted(s) \/ ReadsAddress(s) \/ Pushes(s) \/ PushFails(s)
    \/ Asks(s) \/ SendsOtp(s) \/ SendsExport(s) \/ SendsTest(s)
    \/ StashesLink(s) \/ SendsLink(s) \/ RequestFails(s) \/ TellsTab(s)
MailRuns == LoadsTab \/ Boots \/ Warms \/ \E s \in Slots : Command(s)

-----------------------------------------------------------------------------
(* The password stored is the last one a save was given, however many saves *)
(* and tests left the field blank, unless two of them met on their way      *)
(* (set_smtp_config_cmd).                                                   *)
PasswordKept == smtp # None /\ "saves" \notin mixed => smtp.pass = typed

(* With no save under way, the running sidecar trusts the addresses that    *)
(* are stored and puts the stored one in its links; with none stored it     *)
(* uses that of the machine or has none.  A save cut short by the end of    *)
(* the program, between its two settings, is made good by the next start.   *)
AddressesAgree ==
    /\ alive = "up" /\ Under({"address"}) = {}
    /\ mixed \cap {"addresses", "lost"} = {}
    => /\ runtime.trusted = address.trusted
       /\ IF address.url = None THEN runtime.origin \in LanOrigins ELSE runtime.origin = address.url

(* A link to set a password goes out by the mail server, and to the address,*)
(* that were stored when an administrator asked for it, or to that of the   *)
(* machine if none was, though the callback that mails it sees only what    *)
(* the sidecar remembers.                                                   *)
LinkAsAsked ==
    /\ mail # None /\ mail.asked # None
    /\ mixed \cap {"links", "addresses", "lost"} = {}
    => /\ mail.via = mail.asked.smtp
       /\ mail.link = IF mail.asked.url = None THEN Lan ELSE mail.asked.url

(* What the portal and the reminders are mailed by is the mail server that  *)
(* is stored.  The program does not promise that: a save does not reach the *)
(* sidecar.                                                                 *)
CopiesFresh == mail # None /\ mail.asked = None /\ mail.kind \in {"link", "missed"} => mail.via = smtp

(* A sidecar that can put an address in a link keeps one.  The program does *)
(* not promise that: clearing the public address leaves none until the next *)
(* start.                                                                   *)
AddressStays ==
    [][alive = "up" /\ alive' = "up" /\ runtime.origin # None => runtime'.origin # None]_mailVars
=============================================================================
