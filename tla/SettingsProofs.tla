--------------------------- MODULE SettingsProofs ----------------------------
(***************************************************************************)
(* Proofs about the pages of settings, for any mail servers, passwords,    *)
(* addresses, number of commands under way and length of a behaviour:      *)
(* what the terminal keeps and the sidecar remembers of the mails, and the *)
(* lock of the reader, whose queue names each user once. In the second     *)
(* part, about the administrator's pages over the employees: for any       *)
(* employees, days, fields, times and number of saves under way.           *)
(***************************************************************************)
EXTENDS SettingsPages, EmployeeEditor, FiniteSetTheorems, FunctionTheorems,
        WellFoundedInduction, TLAPS

-----------------------------------------------------------------------------
(* What a command on its way holds.                                        *)

Locals == {"kind", "arg", "got", "pc", "ui", "ok"}
Steps == {"guard", "read", "write", "trusted", "configured", "push", "ask", "request",
          "callback", "answer"}

\* The form a save was given, the password it read; the addresses a save was
\* given, those it read back; what a mail was asked with.
FormHeld(c) ==
    /\ c.pc \in {"guard", "read", "write"} => c.arg \in Forms /\ c.arg.server # Blank
    /\ c.pc = "write" => c.got \in Passes \cup {Blank}

FieldsHeld(c) ==
    /\ c.pc \in {"guard", "write", "trusted", "configured"} => c.arg \in Addresses
    /\ c.pc = "push" => c.got \in Addresses

RequestHeld(c) ==
    c.pc \in {"request", "callback"} =>
        c.got \in [smtp : Configs, url : Origins \cup {None}]

Held(c) ==
    /\ DOMAIN c = Locals /\ c.kind \in Kinds /\ c.pc \in Steps
    /\ c.kind = "toggle" => c.arg \in BOOLEAN
    /\ c.kind \in {"save", "try"} => FormHeld(c)
    /\ c.kind = "address" => FieldsHeld(c)
    /\ c.kind \in {"test", "link", "otp", "export"} => RequestHeld(c)

Called == DOMAIN calls = Slots /\ \A s \in Slots : calls[s] = Idle \/ Held(calls[s])

TabFields == {"open", "loaded", "manual", "form", "saving", "testing", "fields", "storing"}
TabHeld == DOMAIN tab = TabFields /\ tab.manual \in BOOLEAN

Typed == MailTypeOK /\ Called /\ TabHeld

-----------------------------------------------------------------------------
(* What holds unless commands met: one save of the mail server at a time,  *)
(* which has the password there is.                                        *)

Existing == IF smtp = None THEN Blank ELSE smtp.pass

OneSave ==
    "saves" \notin mixed =>
        /\ \A s, r \in Under({"save", "try"}) : s = r
        /\ \A s \in Under({"save", "try"}) : calls[s].pc = "write" => calls[s].got = Existing
        /\ typed = Existing

(* One save of the addresses, and no link meanwhile.                       *)
Storing == {s \in Under({"address"}) : calls[s].pc \in {"trusted", "configured", "push"}}
Linking == {s \in Under({"link"}) : calls[s].pc \in {"request", "callback"}}

OneAddress ==
    "addresses" \notin mixed =>
        /\ \A s, r \in Under({"address"}) : s = r
        /\ Under({"address"}) = {} \/ Under({"link"}) = {}
        /\ \A s \in Under({"address"}) : calls[s].pc = "push" => calls[s].got = address
        /\ \A s \in Linking : calls[s].got.url = address.url

(* The sidecar has the addresses, but for the save on its way.             *)
Agrees ==
    /\ runtime.trusted = address.trusted
    /\ IF address.url = None THEN runtime.origin \in LanOrigins ELSE runtime.origin = address.url

Handed ==
    alive = "up" /\ mixed \cap {"addresses", "lost"} = {} /\ Storing = {} => Agrees

(* A link waits for its callback with the sidecar as it left it.           *)
Calling == {s \in Under({"link"}) : calls[s].pc = "callback"}

OneLink ==
    /\ \A s \in Calling : alive # "off"
    /\ "links" \notin mixed =>
         /\ \A s, r \in Under({"link"}) : s = r
         /\ \A s \in Calling : warm = None

Stashed ==
    mixed \cap {"links", "addresses", "lost"} = {} =>
        \A s \in Calling :
            /\ runtime.smtp = calls[s].got.smtp
            /\ runtime.origin = IF calls[s].got.url = None THEN Lan ELSE calls[s].got.url

MailInv == Typed /\ OneSave /\ OneAddress /\ Handed /\ OneLink /\ Stashed /\ LinkAsAsked

-----------------------------------------------------------------------------
(* The record of a call.                                                   *)

(* What Becomes puts in a slot is what is there, and the others stay.      *)
LEMMA Put ==
    ASSUME Called, NEW s \in Slots, NEW c, c = Idle \/ Held(c), Becomes(s, c)
    PROVE  /\ Called'
           /\ calls'[s] = c
           /\ \A r \in Slots \ {s} : calls'[r] = calls[r]
<1>1. /\ DOMAIN calls' = Slots /\ calls'[s] = c
      /\ \A r \in Slots \ {s} : calls'[r] = calls[r]
  BY DEF Called, Becomes
<1> QED  BY <1>1 DEF Called, Held, FormHeld, FieldsHeld, RequestHeld

-----------------------------------------------------------------------------
(* Types.                                                                  *)

(* An answer keeps nothing but what a switch was set to.                   *)
LEMMA AnswerHeld ==
    ASSUME Called, NEW s \in Slots, calls[s] # Idle, NEW ok, Answers(s, ok)
    PROVE  Called'
<1> DEFINE a == IF calls[s].kind = "toggle" THEN calls[s].arg ELSE None
           c == [calls[s] EXCEPT !.pc = "answer", !.ok = ok, !.got = None, !.arg = a]
<1>1. Held(calls[s])  BY DEF Called
<1>2. DOMAIN calls[s] = Locals  BY <1>1 DEF Held
<1>3. c.pc = "answer" /\ c.kind = calls[s].kind /\ c.arg = a /\ DOMAIN c = Locals
  BY <1>2 DEF Locals
<1>4. Becomes(s, c)  BY <1>2 DEF Answers, Locals
<1> HIDE DEF c
<1>5. Held(c)
  BY <1>1, <1>3 DEF Held, FormHeld, FieldsHeld, RequestHeld, Steps
<1> QED  BY <1>4, <1>5, Put

(* A call goes on to another step with what it holds.                      *)
LEMMA GoesHeld ==
    ASSUME Called, NEW s \in Slots, calls[s] # Idle, NEW pc \in Steps, To(s, pc),
           calls[s].kind \in {"save", "try"} /\ pc \in {"guard", "read", "write"} =>
               /\ calls[s].arg \in Forms /\ calls[s].arg.server # Blank
               /\ pc = "write" => calls[s].got \in Passes \cup {Blank},
           calls[s].kind = "address" =>
               /\ pc \in {"guard", "write", "trusted", "configured"} => calls[s].arg \in Addresses
               /\ pc # "push",
           calls[s].kind \in {"test", "link", "otp", "export"} /\ pc \in {"request", "callback"} =>
               calls[s].got \in [smtp : Configs, url : Origins \cup {None}]
    PROVE  Called'
<1> DEFINE c == [calls[s] EXCEPT !.pc = pc]
<1>1. Held(calls[s])  BY DEF Called
<1>2. DOMAIN calls[s] = Locals  BY <1>1 DEF Held
<1>3. /\ c.pc = pc /\ c.kind = calls[s].kind /\ c.arg = calls[s].arg /\ c.got = calls[s].got
      /\ DOMAIN c = Locals
  BY <1>2 DEF Locals
<1>4. Becomes(s, c)  BY DEF To
<1> HIDE DEF c
<1>5. Held(c)
  BY <1>1, <1>3 DEF Held, FormHeld, FieldsHeld, RequestHeld
<1> QED  BY <1>4, <1>5, Put

(* A call goes on with what it has read.                                   *)
LEMMA GotHeld ==
    ASSUME Called, NEW s \in Slots, calls[s] # Idle, NEW what, NEW pc, Got(s, what, pc),
           \/ /\ pc = "write" /\ what \in Passes \cup {Blank}
              /\ calls[s].kind \in {"save", "try"} /\ calls[s].pc = "read"
           \/ pc = "request" /\ what \in [smtp : Configs, url : Origins \cup {None}]
    PROVE  Called'
<1> DEFINE c == [calls[s] EXCEPT !.got = what, !.pc = pc]
<1>1. Held(calls[s])  BY DEF Called
<1>2. DOMAIN calls[s] = Locals  BY <1>1 DEF Held
<1>3. /\ c.pc = pc /\ c.kind = calls[s].kind /\ c.arg = calls[s].arg /\ c.got = what
      /\ DOMAIN c = Locals
  BY <1>2 DEF Locals
<1>4. Becomes(s, c)  BY <1>2 DEF Got, Locals
<1> HIDE DEF c
<1>5. Held(c)
  BY <1>1, <1>3 DEF Held, FormHeld, FieldsHeld, RequestHeld, Steps
<1> QED  BY <1>4, <1>5, Put

(* Only a call that was made goes on.                                      *)
LEMMA NotIdle ==
    ASSUME NEW s \in Slots, Command(s)
    PROVE  calls[s] # Idle /\ calls[s].kind \in Kinds
<1>1. calls[s].kind \in Kinds
  <2>1. CASE Admitted(s) \/ Asks(s) \/ RequestFails(s) \/ TellsTab(s)
    BY <2>1 DEF Admitted, Asks, RequestFails, TellsTab, At
  <2>2. CASE ReadsPassword(s) \/ StoresMailServer(s) \/ StoresManual(s)
    BY <2>2 DEF ReadsPassword, StoresMailServer, StoresManual, At, Kinds
  <2>3. CASE StoresUrl(s) \/ StoresTrusted(s) \/ ReadsAddress(s) \/ Pushes(s) \/ PushFails(s)
    BY <2>3 DEF StoresUrl, StoresTrusted, ReadsAddress, Pushes, PushFails, At, Kinds
  <2>4. CASE SendsOtp(s) \/ SendsExport(s) \/ SendsTest(s) \/ StashesLink(s) \/ SendsLink(s)
    BY <2>4 DEF SendsOtp, SendsExport, SendsTest, StashesLink, SendsLink, At, Kinds
  <2> QED  BY <2>1, <2>2, <2>3, <2>4 DEF Command
<1>2. Idle.kind \notin Kinds  BY DEF Idle, Kinds
<1> QED  BY <1>1, <1>2

(* What a command holds is well typed at every step.                       *)
LEMMA CalledCommand ==
    ASSUME Typed, NEW s \in Slots, Command(s)
    PROVE  Called'
<1>1. Called /\ MailTypeOK  BY DEF Typed
<1>2. calls[s] # Idle  BY NotIdle
<1>3. Held(calls[s])  BY <1>1, <1>2 DEF Called
<1>4. CASE \E ok \in BOOLEAN : Answers(s, ok)  BY <1>1, <1>2, <1>4, AnswerHeld
<1>5. CASE Admitted(s)
  <2>1. CASE \E pc \in {"read", "ask", "write"} : To(s, pc) /\ calls[s].pc = "guard"
                /\ (calls[s].kind \in {"save", "try"} => pc = "read")
    BY <1>1, <1>2, <1>3, <2>1, GoesHeld DEF Held, FormHeld, FieldsHeld, Steps
  <2> QED  BY <1>4, <1>5, <2>1 DEF Admitted, At
<1>6. CASE ReadsPassword(s)
  <2>1. (IF smtp = None THEN Blank ELSE smtp.pass) \in Passes \cup {Blank}
    BY <1>1 DEF MailTypeOK, Configs
  <2> QED  BY <1>1, <1>2, <1>6, <2>1, GotHeld DEF ReadsPassword, At
<1>7. CASE StoresMailServer(s)
  <2> DEFINE c == [calls[s] EXCEPT !.kind = "test", !.pc = "guard", !.arg = None, !.got = None]
  <2>1. CASE Becomes(s, c)
    <3>1. DOMAIN c = Locals /\ c.kind = "test" /\ c.pc = "guard"
      BY <1>3 DEF Held, Locals
    <3>2. Held(c)
      <4> HIDE DEF c
      <4> QED  BY <3>1 DEF Held, Kinds, Steps, RequestHeld
    <3> QED  BY <1>1, <2>1, <3>2, Put
  <2> QED  BY <1>4, <1>7, <2>1 DEF StoresMailServer
<1>8. CASE StoresUrl(s)
  BY <1>1, <1>2, <1>3, <1>8, GoesHeld DEF StoresUrl, At, Held, FieldsHeld, Steps
<1>9. CASE StoresTrusted(s)
  BY <1>1, <1>2, <1>3, <1>9, GoesHeld DEF StoresTrusted, At, Held, FieldsHeld, Steps
<1>10. CASE ReadsAddress(s)
  <2> DEFINE c == [calls[s] EXCEPT !.arg = None, !.got = address, !.pc = "push"]
  <2>1. DOMAIN c = Locals /\ c.kind = calls[s].kind /\ c.pc = "push" /\ c.got = address
    BY <1>3 DEF Held, Locals
  <2>2. Becomes(s, c) /\ calls[s].kind = "address"  BY <1>10 DEF ReadsAddress, At
  <2>3. address \in Addresses  BY <1>1 DEF MailTypeOK
  <2>4. Held(c)
    <3> HIDE DEF c
    <3> QED  BY <2>1, <2>2, <2>3 DEF Held, Kinds, Steps, FieldsHeld
  <2> QED  BY <1>1, <2>2, <2>4, Put
<1>11. CASE Asks(s)
  <2>1. CASE Got(s, [smtp |-> smtp, url |-> address.url], "request") /\ smtp # None
    <3>1. [smtp |-> smtp, url |-> address.url] \in [smtp : Configs, url : Origins \cup {None}]
      BY <1>1, <2>1 DEF MailTypeOK, Addresses
    <3> QED  BY <1>1, <1>2, <2>1, <3>1, GotHeld
  <2> QED  BY <1>4, <1>11, <2>1 DEF Asks
<1>12. CASE StashesLink(s)
  <2>1. CASE To(s, "callback")
    <3>1. calls[s].kind = "link" /\ calls[s].pc = "request"  BY <1>12 DEF StashesLink, At
    <3> QED  BY <1>1, <1>2, <1>3, <2>1, <3>1, GoesHeld DEF Held, RequestHeld, Steps
  <2> QED  BY <1>4, <1>12, <2>1 DEF StashesLink
<1>13. CASE TellsTab(s)
  BY <1>1, <1>13, Put DEF TellsTab
<1>14. CASE StoresManual(s) \/ Pushes(s) \/ PushFails(s) \/ SendsOtp(s) \/ SendsExport(s)
            \/ SendsTest(s) \/ SendsLink(s) \/ RequestFails(s)
  BY <1>4, <1>14 DEF StoresManual, Pushes, PushFails, SendsOtp, SendsExport, SendsTest, SendsLink,
     RequestFails
<1> QED
  BY <1>5, <1>6, <1>7, <1>8, <1>9, <1>10, <1>11, <1>12, <1>13, <1>14 DEF Command
(* A command that is sent takes a slot in which none is.                   *)
Sent(kind, arg, pc) ==
    [kind |-> kind, arg |-> arg, got |-> None, pc |-> pc, ui |-> tab.open, ok |-> FALSE]

LEMMA SendsTo ==
    ASSUME NEW kind, NEW arg, NEW pc, NEW what, Sends(kind, arg, pc, what)
    PROVE  \E s \in Slots : calls[s] = Idle /\ Becomes(s, Sent(kind, arg, pc))
<1> DEFINE f == CHOOSE s \in Free : TRUE
<1>1. f \in Free  BY DEF Sends
<1>2. f \in Slots /\ calls[f] = Idle  BY <1>1 DEF Free
<1>3. Becomes(f, Sent(kind, arg, pc))  BY DEF Sends, Becomes, Sent
<1> QED  BY <1>2, <1>3

LEMMA SendsHeld ==
    ASSUME Called, NEW kind, NEW arg, NEW pc, NEW what, Sends(kind, arg, pc, what),
           Held(Sent(kind, arg, pc))
    PROVE  Called'
  BY SendsTo, Put

(* Those that users send.                                                  *)
Sending ==
    Toggles \/ SavesMailServer \/ TestsMailServer \/ SavesAddress \/ AsksLink \/ AsksOtp \/ AsksExport

LEMMA CalledSent ==
    ASSUME Typed, Sending
    PROVE  Called'
<1> USE DEF Held, Sent, Locals, Kinds, Steps, FormHeld, FieldsHeld, RequestHeld
<1>1. Called /\ tab.form \in Forms /\ tab.fields \in Addresses  BY DEF Typed, MailTypeOK
<1>2. CASE Toggles
  <2>1. Held(Sent("toggle", ~tab.manual, "guard"))  OBVIOUS
  <2> QED  BY <1>1, <1>2, <2>1, SendsHeld DEF Toggles
<1>3. CASE SavesMailServer
  <2>1. tab.form.server # Blank => Held(Sent("save", tab.form, "guard"))  BY <1>1
  <2> QED  BY <1>1, <1>3, <2>1, SendsHeld DEF SavesMailServer
<1>4. CASE TestsMailServer
  <2>1. tab.form.server # Blank => Held(Sent("try", tab.form, "guard"))  BY <1>1
  <2>2. Held(Sent("test", None, "guard"))  OBVIOUS
  <2> QED  BY <1>1, <1>4, <2>1, <2>2, SendsHeld DEF TestsMailServer
<1>5. CASE SavesAddress
  <2>1. Held(Sent("address", tab.fields, "guard"))  BY <1>1
  <2> QED  BY <1>1, <1>5, <2>1, SendsHeld DEF SavesAddress
<1>6. \A kind \in {"link", "otp", "export"} : Held(Sent(kind, None, "ask"))  OBVIOUS
<1>7. CASE AsksLink  BY <1>1, <1>6, <1>7, SendsHeld DEF AsksLink
<1>8. CASE AsksOtp  BY <1>1, <1>6, <1>8, SendsHeld DEF AsksOtp
<1>9. CASE AsksExport  BY <1>1, <1>6, <1>9, SendsHeld DEF AsksExport
<1> QED  BY <1>2, <1>3, <1>4, <1>5, <1>7, <1>8, <1>9 DEF Sending

\* What happens on the tab "Seguranca", behind it and around it.
MailStep == TabActs \/ OtherActs \/ MailRuns \/ Dies \/ Restarts

LEMMA CalledStep ==
    ASSUME Typed, MailStep \/ UNCHANGED mailVars
    PROVE  Called'
<1>1. Called  BY DEF Typed
<1>2. CASE Sending  BY <1>2, CalledSent
<1>3. CASE \E s \in Slots : Command(s)  BY <1>3, CalledCommand
<1>4. CASE Restarts  BY <1>1, <1>4 DEF Restarts, Called
<1>5. CASE LeavesTab
  <2> DEFINE c(s) == IF calls[s].kind = "none" THEN Idle ELSE [calls[s] EXCEPT !.ui = FALSE]
  <2>1. calls' = [s \in Slots |-> c(s)]  BY <1>5 DEF LeavesTab
  <2>2. ASSUME NEW s \in Slots  PROVE c(s) = Idle \/ Held(c(s))
    <3>1. CASE calls[s].kind # "none"
      <4>1. Held(calls[s])  BY <1>1, <3>1 DEF Called, Idle
      <4> DEFINE d == [calls[s] EXCEPT !.ui = FALSE]
      <4>2. /\ DOMAIN d = Locals /\ d.kind = calls[s].kind /\ d.pc = calls[s].pc
            /\ d.arg = calls[s].arg /\ d.got = calls[s].got
        BY <4>1 DEF Held, Locals
      <4> HIDE DEF d
      <4>3. Held(d)  BY <4>1, <4>2 DEF Held, FormHeld, FieldsHeld, RequestHeld
      <4> QED  BY <3>1, <4>3 DEF d
    <3> QED  BY <3>1
  <2> HIDE DEF c
  <2> QED  BY <2>1, <2>2 DEF Called
<1>6. CASE UNCHANGED calls  BY <1>1, <1>6 DEF Called
<1>7. CASE OpensTab \/ LoadsTab \/ TypesMailServer \/ TypesAddress \/ Boots \/ Warms \/ Dies
            \/ Recovers \/ Reminds \/ UNCHANGED mailVars
  BY <1>6, <1>7 DEF OpensTab, LoadsTab, TypesMailServer, TypesAddress, Boots, Warms, Dies, Recovers,
     Reminds, mailVars
<1> QED
  BY <1>2, <1>3, <1>4, <1>5, <1>7 DEF MailStep, TabActs, OtherActs, MailRuns, Sending
(* What each part of the state is changed by.                              *)
LEMMA Frames ==
    ASSUME MailStep
    PROVE  /\ UNCHANGED <<smtp, typed>> \/ \E s \in Slots : StoresMailServer(s)
           /\ UNCHANGED address \/ \E s \in Slots : StoresUrl(s) \/ StoresTrusted(s)
           /\ UNCHANGED manual \/ \E s \in Slots : StoresManual(s)
           /\ UNCHANGED alive \/ Boots \/ Dies \/ Restarts
           /\ UNCHANGED runtime \/ Boots \/ Warms \/ Restarts \/ \E s \in Slots : Pushes(s) \/ StashesLink(s)
           /\ UNCHANGED warm \/ Boots \/ Warms \/ Dies \/ Restarts
<1> USE DEF kept, sidecar
<1>1. CASE TabActs
  BY <1>1 DEF TabActs, OpensTab, LeavesTab, TypesMailServer, TypesAddress, Toggles, SavesMailServer,
     TestsMailServer, SavesAddress, Sends
<1>2. CASE OtherActs
  BY <1>2 DEF OtherActs, AsksLink, AsksOtp, AsksExport, Recovers, Reminds, Sends
<1>3. CASE LoadsTab \/ Boots \/ Warms \/ Dies \/ Restarts
  BY <1>3 DEF LoadsTab, Boots, Warms, Dies, Restarts
<1>4. ASSUME NEW s \in Slots, Command(s)
      PROVE  /\ UNCHANGED <<smtp, typed>> \/ StoresMailServer(s)
             /\ UNCHANGED address \/ StoresUrl(s) \/ StoresTrusted(s)
             /\ UNCHANGED manual \/ StoresManual(s)
             /\ UNCHANGED <<alive, warm>>
             /\ UNCHANGED runtime \/ Pushes(s) \/ StashesLink(s)
  <2>1. CASE Admitted(s) \/ ReadsPassword(s) \/ ReadsAddress(s) \/ PushFails(s) \/ Asks(s)
    BY <2>1 DEF Admitted, ReadsPassword, ReadsAddress, PushFails, Asks
  <2>2. CASE StoresMailServer(s) \/ StoresManual(s) \/ StoresUrl(s) \/ StoresTrusted(s)
    BY <2>2 DEF StoresMailServer, StoresManual, StoresUrl, StoresTrusted
  <2>3. CASE SendsOtp(s) \/ SendsExport(s) \/ SendsTest(s) \/ SendsLink(s) \/ RequestFails(s)
    BY <2>3 DEF SendsOtp, SendsExport, SendsTest, SendsLink, RequestFails
  <2>4. CASE Pushes(s) \/ StashesLink(s) \/ TellsTab(s)
    BY <2>4 DEF Pushes, StashesLink, TellsTab
  <2> QED  BY <1>4, <2>1, <2>2, <2>3, <2>4 DEF Command
<1>5. CASE \E s \in Slots : Command(s)  BY <1>4, <1>5
<1> QED  BY <1>1, <1>2, <1>3, <1>5 DEF MailStep, MailRuns

LEMMA KeptStep ==
    ASSUME Typed, MailStep
    PROVE  /\ smtp' \in Configs \cup {None} /\ typed' \in Passes \cup {Blank}
           /\ address' \in Addresses /\ manual' \in BOOLEAN
<1>1. Called /\ MailTypeOK  BY DEF Typed
<1>2. ASSUME NEW s \in Slots, StoresMailServer(s)
      PROVE  smtp' \in Configs /\ typed' \in Passes \cup {Blank}
  <2> DEFINE sheet == calls[s].arg
             pass == Password(sheet.pass, calls[s].got)
  <2>1. Held(calls[s]) /\ calls[s].kind \in {"save", "try"} /\ calls[s].pc = "write"
    BY <1>1, <1>2 DEF StoresMailServer, At, Called, Idle
  <2>2. sheet \in Forms /\ sheet.server # Blank /\ calls[s].got \in Passes \cup {Blank}
    BY <2>1 DEF Held, FormHeld
  <2>3. pass \in Passes \cup {Blank}  BY <2>2 DEF Password, Forms
  <2>4. smtp' = [sheet EXCEPT !.pass = pass]
    BY <1>2 DEF StoresMailServer
  <2>5. typed' = IF sheet.pass = Blank THEN typed ELSE sheet.pass
    BY <1>2 DEF StoresMailServer
  <2> HIDE DEF sheet, pass
  <2>6. smtp' \in Configs  BY <2>2, <2>3, <2>4 DEF Forms, Configs
  <2>7. typed' \in Passes \cup {Blank}  BY <1>1, <2>2, <2>5 DEF Forms, MailTypeOK
  <2> QED  BY <2>6, <2>7
<1>3. ASSUME NEW s \in Slots, StoresUrl(s) \/ StoresTrusted(s)
      PROVE  address' \in Addresses
  <2>1. Held(calls[s]) /\ calls[s].kind = "address" /\ calls[s].pc \in {"write", "trusted"}
    BY <1>1, <1>3 DEF StoresUrl, StoresTrusted, At, Called, Idle
  <2>2. calls[s].arg \in Addresses /\ address \in Addresses
    BY <1>1, <2>1 DEF Held, FieldsHeld, MailTypeOK
  <2> QED  BY <1>3, <2>2 DEF StoresUrl, StoresTrusted, Addresses
<1>4. ASSUME NEW s \in Slots, StoresManual(s)
      PROVE  manual' \in BOOLEAN
  <2>1. Held(calls[s]) /\ calls[s].kind = "toggle"
    BY <1>1, <1>4 DEF StoresManual, At, Called, Idle
  <2> QED  BY <1>4, <2>1 DEF Held, StoresManual
<1>5. smtp \in Configs \cup {None} /\ typed \in Passes \cup {Blank} /\ address \in Addresses /\ manual \in BOOLEAN
  BY <1>1 DEF MailTypeOK
<1> QED  BY <1>2, <1>3, <1>4, <1>5, Frames

Runtime ==
    [smtp : Configs \cup {None}, origin : Origins \cup {Lan, None}, trusted : SUBSET Origins]

LEMMA SidecarStep ==
    ASSUME Typed, MailStep
    PROVE  alive' \in {"off", "up", "dead"} /\ runtime' \in Runtime /\ warm' \in Configs \cup {None}
<1>1. Called /\ MailTypeOK  BY DEF Typed
<1>2. /\ alive \in {"off", "up", "dead"} /\ runtime \in Runtime /\ warm \in Configs \cup {None}
      /\ smtp \in Configs \cup {None} /\ address \in Addresses
  BY <1>1 DEF MailTypeOK, Runtime
<1>3. CASE Boots  BY <1>2, <1>3 DEF Boots, LanOrigins, Runtime, Addresses
<1>4. CASE Warms  BY <1>2, <1>4 DEF Warms, Runtime
<1>5. CASE Dies  BY <1>2, <1>5 DEF Dies
<1>6. CASE Restarts  BY <1>6 DEF Restarts, Runtime
<1>7. ASSUME NEW s \in Slots, Pushes(s)  PROVE runtime' \in Runtime
  <2>1. calls[s].got \in Addresses
    BY <1>1, <1>7 DEF Pushes, At, Called, Idle, Held, FieldsHeld
  <2> QED  BY <1>2, <1>7, <2>1 DEF Pushes, Runtime, Addresses
<1>8. ASSUME NEW s \in Slots, StashesLink(s)  PROVE runtime' \in Runtime
  <2>1. calls[s].got \in [smtp : Configs, url : Origins \cup {None}]
    BY <1>1, <1>8 DEF StashesLink, At, Called, Idle, Held, RequestHeld
  <2> QED  BY <1>2, <1>8, <2>1 DEF StashesLink, Runtime
<1> QED  BY <1>2, <1>3, <1>4, <1>5, <1>6, <1>7, <1>8, Frames

TabOK == TabHeld /\ tab.form \in Forms /\ tab.fields \in Addresses

LEMMA TabStep ==
    ASSUME Typed, MailStep
    PROVE  TabOK'
<1>1. Called /\ MailTypeOK /\ TabOK /\ NoAddress \in Addresses /\ Unset \in Forms
  BY DEF Typed, MailTypeOK, TabOK, NoAddress, Addresses, Unset, Forms
<1>2. ASSUME tab' = Closed \/ tab' = [Closed EXCEPT !.open = TRUE]  PROVE TabOK'
  <2>1. /\ DOMAIN Closed = TabFields /\ ~Closed.manual /\ Closed.manual \in BOOLEAN
        /\ Closed.form = Unset /\ Closed.fields = NoAddress
    BY DEF Closed, TabFields
  <2>2. CASE tab' = Closed  BY <1>1, <2>1, <2>2 DEF TabOK, TabHeld
  <2>3. CASE tab' = [Closed EXCEPT !.open = TRUE]
    <3>1. /\ DOMAIN tab' = TabFields /\ tab'.manual = Closed.manual
          /\ tab'.form = Closed.form /\ tab'.fields = Closed.fields
      BY <2>1, <2>3 DEF TabFields
    <3> QED  BY <1>1, <2>1, <3>1 DEF TabOK, TabHeld
  <2> QED  BY <1>2, <2>2, <2>3
<1>3. CASE OpensTab \/ LeavesTab \/ Restarts
  BY <1>2, <1>3 DEF OpensTab, LeavesTab, Restarts
<1>4. CASE LoadsTab
  <2> DEFINE server == IF smtp = None THEN tab.form.server ELSE smtp.server
             sheet == [tab.form EXCEPT !.server = server]
  <2>1. sheet \in Forms  BY <1>1 DEF Forms, MailTypeOK, Configs, TabOK
  <2>2. tab' = [tab EXCEPT !.loaded = TRUE, !.manual = manual, !.fields = address, !.form = sheet]
    BY <1>1, <1>4 DEF LoadsTab, TabOK, TabHeld, TabFields
  <2> HIDE DEF sheet
  <2>3. manual \in BOOLEAN /\ address \in Addresses  BY <1>1 DEF MailTypeOK
  <2> QED  BY <1>1, <2>1, <2>2, <2>3 DEF TabOK, TabHeld, TabFields
<1>5. CASE TypesMailServer
  BY <1>1, <1>5 DEF TypesMailServer, TabOK, TabHeld, TabFields, Configs, Forms
<1>6. CASE TypesAddress
  BY <1>1, <1>6 DEF TypesAddress, TabOK, TabHeld, TabFields
<1>7. CASE SavesMailServer \/ TestsMailServer \/ SavesAddress
  BY <1>1, <1>7 DEF SavesMailServer, TestsMailServer, SavesAddress, TabOK, TabHeld, TabFields
<1>8. ASSUME NEW s \in Slots, TellsTab(s)  PROVE TabOK'
  <2>1. Held(calls[s])  BY <1>1, <1>8, NotIdle DEF Command, Called
  <2>2. ASSUME tab' = Told(tab, calls[s])  PROVE TabOK'
    <3>1. CASE calls[s].kind = "toggle"
      BY <1>1, <2>1, <2>2, <3>1 DEF Told, TabOK, TabHeld, TabFields, Held
    <3>2. CASE calls[s].kind = "save"
      <4> DEFINE pass == IF calls[s].ok THEN Blank ELSE tab.form.pass
                 sheet == [tab.form EXCEPT !.pass = pass]
      <4>1. sheet \in Forms  BY <1>1 DEF Forms, TabOK
      <4>2. tab' = [tab EXCEPT !.saving = FALSE, !.form = sheet]
        BY <1>1, <2>2, <3>2 DEF Told, TabOK, TabHeld, TabFields
      <4> HIDE DEF sheet
      <4> QED  BY <1>1, <4>1, <4>2 DEF TabOK, TabHeld, TabFields
    <3>3. CASE calls[s].kind \in {"try", "test"}
      BY <1>1, <2>2, <3>3 DEF Told, TabOK, TabHeld, TabFields
    <3>4. CASE calls[s].kind = "address"
      BY <1>1, <2>2, <3>4 DEF Told, TabOK, TabHeld, TabFields
    <3>5. CASE calls[s].kind \notin {"toggle", "save", "try", "test", "address"}
      BY <1>1, <2>2, <3>5 DEF Told, TabOK, TabHeld
    <3> QED  BY <3>1, <3>2, <3>3, <3>4, <3>5
  <2> QED  BY <1>1, <1>8, <2>2 DEF TellsTab, TabOK, TabHeld
<1>9. ASSUME UNCHANGED tab  PROVE TabOK'  BY <1>1, <1>9 DEF TabOK, TabHeld
<1>10. CASE Toggles \/ OtherActs \/ Boots \/ Warms \/ Dies
  BY <1>9, <1>10 DEF Toggles, OtherActs, AsksLink, AsksOtp, AsksExport, Recovers, Reminds, Boots, Warms, Dies
<1>11. ASSUME NEW s \in Slots, Command(s), ~TellsTab(s)  PROVE TabOK'
  <2>1. UNCHANGED tab
    BY <1>11 DEF Command, Admitted, ReadsPassword, StoresMailServer, StoresManual, StoresUrl, StoresTrusted,
       ReadsAddress, Pushes, PushFails, Asks, SendsOtp, SendsExport, SendsTest, StashesLink, SendsLink, RequestFails
  <2> QED  BY <1>9, <2>1
<1> QED
  BY <1>3, <1>4, <1>5, <1>6, <1>7, <1>8, <1>10, <1>11 DEF MailStep, TabActs, MailRuns
(* What commands that met have left behind stays recorded.                 *)
LEMMA MixedStep ==
    ASSUME MailStep
    PROVE  /\ mixed \subseteq mixed'
           /\ mixed \subseteq Mixtures => mixed' \subseteq Mixtures
<1>1. \A kinds, what : Mixes(kinds, what) \subseteq {what}  BY DEF Mixes
<1>2. ASSUME NEW kind, NEW arg, NEW pc, NEW what, Sends(kind, arg, pc, what), what \subseteq Mixtures
      PROVE  mixed \subseteq mixed' /\ (mixed \subseteq Mixtures => mixed' \subseteq Mixtures)
  BY <1>2 DEF Sends
<1>3. CASE Sending
  <2>1. \A kinds : /\ Mixes(kinds, "saves") \subseteq Mixtures
                   /\ Mixes(kinds, "addresses") \subseteq Mixtures
                   /\ Mixes(kinds, "links") \subseteq Mixtures
    BY <1>1 DEF Mixtures
  <2>2. \A k, j : Mixes(k, "links") \cup Mixes(j, "addresses") \subseteq Mixtures  BY <2>1
  <2>3. {} \subseteq Mixtures  OBVIOUS
  <2>4. CASE Toggles \/ AsksOtp \/ AsksExport  BY <1>2, <2>3, <2>4 DEF Toggles, AsksOtp, AsksExport
  <2>5. CASE SavesMailServer  BY <1>2, <2>1, <2>5 DEF SavesMailServer
  <2>6. CASE TestsMailServer  BY <1>2, <2>1, <2>3, <2>6 DEF TestsMailServer
  <2>7. CASE SavesAddress  BY <1>2, <2>1, <2>7 DEF SavesAddress
  <2>8. CASE AsksLink  BY <1>2, <2>2, <2>8 DEF AsksLink
  <2> QED  BY <1>3, <2>4, <2>5, <2>6, <2>7, <2>8 DEF Sending
<1>4. CASE OpensTab \/ LeavesTab \/ LoadsTab \/ TypesMailServer \/ TypesAddress \/ Boots \/ Warms
            \/ Dies \/ Restarts \/ Recovers \/ Reminds
  BY <1>4 DEF OpensTab, LeavesTab, LoadsTab, TypesMailServer, TypesAddress, Boots, Warms, Dies, Restarts,
     Recovers, Reminds
<1>5. ASSUME NEW s \in Slots, Command(s)
      PROVE  mixed \subseteq mixed' /\ (mixed \subseteq Mixtures => mixed' \subseteq Mixtures)
  <2>1. CASE PushFails(s)  BY <2>1 DEF PushFails, Mixtures
  <2>2. CASE StashesLink(s)  BY <2>2 DEF StashesLink, Mixtures
  <2>3. CASE UNCHANGED mixed  BY <2>3
  <2> QED
    BY <1>5, <2>1, <2>2, <2>3 DEF Command, Admitted, ReadsPassword, StoresMailServer, StoresManual, StoresUrl,
       StoresTrusted, ReadsAddress, Pushes, Asks, SendsOtp, SendsExport, SendsTest, SendsLink,
       RequestFails, TellsTab
<1> QED  BY <1>3, <1>4, <1>5 DEF MailStep, TabActs, OtherActs, MailRuns, Sending

LEMMA TypedStep ==
    ASSUME Typed, MailStep
    PROVE  Typed'
<1>1. Called' /\ TabOK'  BY CalledStep, TabStep
<1>2. \A s \in Slots : calls'[s].kind \in Kinds \cup {"none"}
  BY <1>1 DEF Called, Held, Idle
<1>3. mixed' \subseteq Mixtures  BY MixedStep DEF Typed, MailTypeOK
<1>4. MailTypeOK'
  BY <1>1, <1>2, <1>3, KeptStep, SidecarStep DEF MailTypeOK, Runtime, TabOK
<1> QED  BY <1>1, <1>4 DEF Typed, TabOK

-----------------------------------------------------------------------------
(* Where a command goes.                                                   *)

Others(s) == \A r \in Slots \ {s} : calls'[r] = calls[r]

LEMMA Moves ==
    ASSUME Called, NEW s \in Slots, calls[s] # Idle
    PROVE  /\ \A ok : Answers(s, ok) =>
                 Others(s) /\ calls'[s].kind = calls[s].kind /\ calls'[s].pc = "answer"
           /\ \A pc : To(s, pc) =>
                 /\ Others(s) /\ calls'[s].kind = calls[s].kind /\ calls'[s].pc = pc
                 /\ calls'[s].got = calls[s].got
           /\ \A what, pc : Got(s, what, pc) =>
                 /\ Others(s) /\ calls'[s].kind = calls[s].kind /\ calls'[s].pc = pc
                 /\ calls'[s].got = what
<1> USE DEF Becomes, Others
<1>1. DOMAIN calls[s] = Locals /\ DOMAIN calls = Slots  BY DEF Called, Held
<1>2. ASSUME NEW ok, Answers(s, ok)
      PROVE  Others(s) /\ calls'[s].kind = calls[s].kind /\ calls'[s].pc = "answer"
  BY <1>1, <1>2 DEF Answers, Locals
<1>3. ASSUME NEW pc, To(s, pc)
      PROVE  /\ Others(s) /\ calls'[s].kind = calls[s].kind /\ calls'[s].pc = pc
             /\ calls'[s].got = calls[s].got
  BY <1>1, <1>3 DEF To, Locals
<1>4. ASSUME NEW what, NEW pc, Got(s, what, pc)
      PROVE  /\ Others(s) /\ calls'[s].kind = calls[s].kind /\ calls'[s].pc = pc
             /\ calls'[s].got = what
  BY <1>1, <1>4 DEF Got, Locals
<1> QED  BY <1>2, <1>3, <1>4

(* How a command comes to the steps that the invariants speak of.          *)
Comes(s) ==
    LET c == calls'[s] IN
    /\ c.kind \in {calls[s].kind, "none"} \/ (calls[s].kind = "try" /\ c.kind = "test")
    /\ c.kind \in {"save", "try"} /\ c.pc = "write" => ReadsPassword(s) /\ c.got = Existing
    /\ c.kind = "address" /\ c.pc = "push" => ReadsAddress(s) /\ c.got = address
    /\ c.kind = "address" /\ calls[s].pc \in {"trusted", "configured", "push"} /\ c.pc \notin {"trusted", "configured", "push"}
         => Pushes(s) \/ PushFails(s)
    /\ c.kind = "link" /\ c.pc = "request" => Asks(s) /\ c.got = [smtp |-> smtp, url |-> address.url]
    /\ c.kind = "link" /\ c.pc = "callback" => StashesLink(s) /\ c.got = calls[s].got

LEMMA CommandMoves ==
    ASSUME Typed, NEW s \in Slots, Command(s)
    PROVE  Others(s) /\ Comes(s)
<1>1. Called /\ calls[s] # Idle /\ Held(calls[s])  BY NotIdle DEF Typed, Called
<1>2. CASE Admitted(s)
  <2>1. \/ \E ok : Answers(s, ok)
        \/ calls[s].kind \in {"save", "try"} /\ To(s, "read")
        \/ calls[s].kind = "test" /\ To(s, "ask")
        \/ calls[s].kind \notin {"save", "try"} /\ To(s, "write")
    BY <1>2 DEF Admitted
  <2>2. calls[s].pc = "guard"  BY <1>2 DEF Admitted, At
  <2> QED  BY <1>1, <2>1, <2>2, Moves DEF Comes
<1>3. CASE ReadsPassword(s)
  BY <1>1, <1>3, Moves DEF ReadsPassword, At, Comes, Existing
<1>4. CASE StoresMailServer(s)
  <2>1. calls[s].kind \in {"save", "try"}  BY <1>4 DEF StoresMailServer, At
  <2>2. CASE calls[s].kind = "save"
    BY <1>1, <1>4, <2>2, Moves DEF StoresMailServer, Comes
  <2>3. CASE calls[s].kind = "try"
    <3>1. Becomes(s, [calls[s] EXCEPT !.kind = "test", !.pc = "guard", !.arg = None, !.got = None])
      BY <1>4, <2>3 DEF StoresMailServer
    <3>2. Others(s) /\ calls'[s].kind = "test"
      BY <1>1, <3>1 DEF Becomes, Called, Others, Held, Locals
    <3> QED  BY <2>3, <3>2 DEF Comes
  <2> QED  BY <2>1, <2>2, <2>3
<1>5. CASE StoresManual(s)
  BY <1>1, <1>5, Moves DEF StoresManual, At, Comes
<1>6. CASE StoresUrl(s) \/ StoresTrusted(s)
  BY <1>1, <1>6, Moves DEF StoresUrl, StoresTrusted, At, Comes
<1>7. CASE ReadsAddress(s)
  <2>1. calls[s].kind = "address"  BY <1>7 DEF ReadsAddress, At
  <2>2. Becomes(s, [calls[s] EXCEPT !.arg = None, !.got = address, !.pc = "push"])
    BY <1>7 DEF ReadsAddress
  <2>3. Others(s) /\ calls'[s].kind = "address" /\ calls'[s].pc = "push" /\ calls'[s].got = address
    BY <1>1, <2>1, <2>2 DEF Becomes, Called, Others, Held, Locals
  <2> QED  BY <1>7, <2>1, <2>3 DEF Comes
<1>8. CASE Pushes(s) \/ PushFails(s)
  BY <1>1, <1>8, Moves DEF Pushes, PushFails, At, Comes
<1>9. CASE Asks(s)
  <2>1. calls[s].pc = "ask"  BY <1>9 DEF Asks, At
  <2>2. CASE Answers(s, FALSE)  BY <1>1, <2>1, <2>2, Moves DEF Comes
  <2>3. CASE Got(s, [smtp |-> smtp, url |-> address.url], "request")
    <3> DEFINE what == [smtp |-> smtp, url |-> address.url]
    <3> HIDE DEF what
    <3>1. /\ Others(s) /\ calls'[s].kind = calls[s].kind /\ calls'[s].pc = "request"
          /\ calls'[s].got = what
      BY <1>1, <2>3, Moves DEF what
    <3> QED  BY <1>9, <2>1, <3>1 DEF Comes, what
  <2> QED  BY <1>9, <2>2, <2>3 DEF Asks
<1>10. CASE SendsOtp(s) \/ SendsExport(s) \/ SendsTest(s) \/ SendsLink(s) \/ RequestFails(s)
  BY <1>1, <1>10, Moves DEF SendsOtp, SendsExport, SendsTest, SendsLink, RequestFails, At, Comes
<1>11. CASE StashesLink(s)
  <2>1. calls[s].kind = "link"  BY <1>11 DEF StashesLink, At
  <2>2. (\E ok : Answers(s, ok)) \/ To(s, "callback")  BY <1>11 DEF StashesLink
  <2> QED  BY <1>1, <1>11, <2>1, <2>2, Moves DEF Comes
<1>12. CASE TellsTab(s)
  <2>1. Others(s) /\ calls'[s] = Idle  BY <1>1, <1>12 DEF TellsTab, Becomes, Called, Others
  <2> QED  BY <2>1 DEF Comes, Idle
<1> QED
  BY <1>2, <1>3, <1>4, <1>5, <1>6, <1>7, <1>8, <1>9, <1>10, <1>11, <1>12 DEF Command
(* A command that is sent, and what it meets.                              *)
Arrives(f) ==
    LET c == calls'[f] IN
    /\ calls[f] = Idle /\ Others(f) /\ c.pc \in {"guard", "ask"}
    /\ c.kind \in {"save", "try"} /\ Under({"save", "try"}) # {} => "saves" \in mixed'
    /\ c.kind = "address" /\ Under({"address", "link"}) # {} => "addresses" \in mixed'
    /\ c.kind = "link" /\ Under({"address"}) # {} => "addresses" \in mixed'
    /\ c.kind = "link" /\ Under({"link"}) # {} => "links" \in mixed'

LEMMA SendingMoves ==
    ASSUME Called, Sending
    PROVE  /\ \E f \in Slots : Arrives(f)
           /\ UNCHANGED <<kept, sidecar, mail>>
<1>1. ASSUME NEW kind, NEW arg, NEW pc \in {"guard", "ask"}, NEW what, Sends(kind, arg, pc, what),
             kind \in {"save", "try"} /\ Under({"save", "try"}) # {} => "saves" \in what,
             kind = "address" /\ Under({"address", "link"}) # {} => "addresses" \in what,
             kind = "link" /\ Under({"address"}) # {} => "addresses" \in what,
             kind = "link" /\ Under({"link"}) # {} => "links" \in what
      PROVE  (\E f \in Slots : Arrives(f)) /\ UNCHANGED <<kept, sidecar, mail>>
  <2>1. PICK f \in Slots : calls[f] = Idle /\ Becomes(f, Sent(kind, arg, pc))
    BY <1>1, SendsTo
  <2>2. Others(f) /\ calls'[f].kind = kind /\ calls'[f].pc = pc
    BY <2>1 DEF Becomes, Called, Others, Sent
  <2>3. mixed' = mixed \cup what /\ UNCHANGED <<kept, sidecar, mail>>  BY <1>1 DEF Sends
  <2>4. Arrives(f)  BY <1>1, <2>1, <2>2, <2>3 DEF Arrives
  <2> QED  BY <2>3, <2>4
<1>2. \A kinds, what : Under(kinds) # {} => what \in Mixes(kinds, what)  BY DEF Mixes
<1>3. CASE Toggles  BY <1>1, <1>3 DEF Toggles
<1>4. CASE SavesMailServer  BY <1>1, <1>2, <1>4 DEF SavesMailServer
<1>5. CASE TestsMailServer  BY <1>1, <1>2, <1>5 DEF TestsMailServer
<1>6. CASE SavesAddress  BY <1>1, <1>2, <1>6 DEF SavesAddress
<1>7. CASE AsksLink
  <2> DEFINE what == Mixes({"link"}, "links") \cup Mixes({"address"}, "addresses")
  <2>1. Sends("link", None, "ask", what)  BY <1>7 DEF AsksLink
  <2>2. /\ Under({"link"}) # {} => "links" \in what
        /\ Under({"address"}) # {} => "addresses" \in what
    BY <1>2
  <2> HIDE DEF what
  <2> QED  BY <1>1, <2>1, <2>2
<1>8. CASE AsksOtp \/ AsksExport  BY <1>1, <1>8 DEF AsksOtp, AsksExport
<1> QED  BY <1>3, <1>4, <1>5, <1>6, <1>7, <1>8 DEF Sending

(* The rest leaves the commands where they are.                            *)
Stays ==
    \A s \in Slots :
        /\ calls'[s].kind = calls[s].kind
        /\ calls[s].kind # "none" => calls'[s].pc = calls[s].pc /\ calls'[s].got = calls[s].got

Besides ==
    OpensTab \/ LeavesTab \/ LoadsTab \/ TypesMailServer \/ TypesAddress \/ Boots \/ Warms \/ Dies
    \/ Recovers \/ Reminds

LEMMA BesidesMoves ==
    ASSUME Called, Besides
    PROVE  Stays /\ UNCHANGED <<kept, mixed>>
<1>1. CASE LeavesTab
  <2>1. ASSUME NEW s \in Slots, calls[s].kind # "none"
        PROVE  /\ calls'[s].kind = calls[s].kind /\ calls'[s].pc = calls[s].pc
               /\ calls'[s].got = calls[s].got
    <3>1. DOMAIN calls[s] = Locals  BY <2>1 DEF Called, Idle, Held
    <3>2. calls'[s] = [calls[s] EXCEPT !.ui = FALSE]  BY <1>1, <2>1 DEF LeavesTab
    <3> QED  BY <3>1, <3>2 DEF Locals
  <2>2. ASSUME NEW s \in Slots, calls[s].kind = "none"  PROVE calls'[s].kind = "none"
    BY <1>1, <2>2 DEF LeavesTab, Idle
  <2> QED  BY <1>1, <2>1, <2>2 DEF LeavesTab, Stays
<1>2. CASE OpensTab \/ LoadsTab \/ TypesMailServer \/ TypesAddress \/ Boots \/ Warms \/ Dies
            \/ Recovers \/ Reminds
  <2>1. UNCHANGED <<kept, mixed, calls>>
    BY <1>2 DEF OpensTab, LoadsTab, TypesMailServer, TypesAddress, Boots, Warms, Dies, Recovers, Reminds
  <2> QED  BY <2>1 DEF Stays
<1> QED  BY <1>1, <1>2 DEF Besides

LEMMA StepCases ==
    ASSUME MailStep
    PROVE  (\E s \in Slots : Command(s)) \/ Sending \/ Besides \/ Restarts
  BY DEF MailStep, TabActs, OtherActs, MailRuns, Sending, Besides

-----------------------------------------------------------------------------
(* The password.                                                           *)

Saving == Under({"save", "try"})

LEMMA OneSaveStep ==
    ASSUME Typed, OneSave, MailStep
    PROVE  OneSave'
<1> SUFFICES ASSUME "saves" \notin mixed'
             PROVE  /\ \A s, r \in Saving' : s = r
                    /\ \A s \in Saving' : calls'[s].pc = "write" => calls'[s].got = Existing'
                    /\ typed' = Existing'
  BY DEF OneSave, Saving, Under
<1>1. /\ \A s, r \in Saving : s = r
      /\ \A s \in Saving : calls[s].pc = "write" => calls[s].got = Existing
      /\ typed = Existing
  BY MixedStep DEF OneSave, Saving
<1>2. /\ Saving = {s \in Slots : calls[s].kind \in {"save", "try"}}
      /\ Saving' = {s \in Slots : calls'[s].kind \in {"save", "try"}}
  BY DEF Saving, Under
<1>3. Called  BY DEF Typed
<1>4. CASE Restarts
  BY <1>1, <1>2, <1>4 DEF Restarts, Idle, kept, Existing
<1>5. CASE Besides
  BY <1>1, <1>2, <1>3, <1>5, BesidesMoves DEF Stays, kept, Existing
<1>6. CASE Sending
  <2>1. PICK f \in Slots : Arrives(f)  BY <1>3, <1>6, SendingMoves
  <2>2. UNCHANGED <<smtp, typed>>  BY <1>3, <1>6, SendingMoves DEF kept
  <2>3. Saving' = Saving \/ (Saving = {} /\ Saving' = {f})
    <3>1. calls[f].kind = "none" /\ \A r \in Slots \ {f} : calls'[r].kind = calls[r].kind
      BY <2>1 DEF Arrives, Others, Idle
    <3>2. CASE calls'[f].kind \in {"save", "try"}
      <4>1. Saving = {}  BY <2>1, <3>2 DEF Arrives, Saving
      <4> QED  BY <1>2, <3>1, <3>2, <4>1
    <3>3. CASE calls'[f].kind \notin {"save", "try"}
      BY <1>2, <3>1, <3>3
    <3> QED  BY <3>2, <3>3
  <2> QED  BY <1>1, <1>2, <2>1, <2>2, <2>3 DEF Arrives, Others, Existing, Idle
<1>7. ASSUME NEW s \in Slots, Command(s)
      PROVE  /\ \A q, r \in Saving' : q = r
             /\ \A r \in Saving' : calls'[r].pc = "write" => calls'[r].got = Existing'
             /\ typed' = Existing'
  <2>1. Others(s) /\ Comes(s)  BY <1>7, CommandMoves
  <2>2. Saving' \subseteq Saving  BY <1>2, <2>1 DEF Others, Comes
  <2>3. CASE ~StoresMailServer(s)
    <3>1. UNCHANGED <<smtp, typed>>
      BY <1>7, <2>3 DEF Command, Admitted, ReadsPassword, StoresManual, StoresUrl, StoresTrusted, ReadsAddress,
         Pushes, PushFails, Asks, SendsOtp, SendsExport, SendsTest, StashesLink, SendsLink, RequestFails,
         TellsTab, kept
    <3> QED  BY <1>1, <1>2, <2>1, <2>2, <3>1 DEF Others, Comes, Existing
  <2>4. CASE StoresMailServer(s)
    <3>1. s \in Saving /\ calls[s].pc = "write" /\ calls[s].got = typed
      BY <1>1, <1>2, <2>4 DEF StoresMailServer, At
    <3>2. \A r \in Saving' : r = s /\ calls'[r].pc # "write"
      <4>1. ~ReadsPassword(s)  BY <3>1 DEF ReadsPassword, At
      <4> QED  BY <1>1, <1>2, <2>1, <2>2, <3>1, <4>1 DEF Comes
    <3>3. Held(calls[s])  BY <1>2, <1>3, <3>1 DEF Called, Idle
    <3>4. calls[s].arg \in Forms  BY <1>2, <3>1, <3>3 DEF Held, FormHeld
    <3>5. smtp'.pass = Password(calls[s].arg.pass, typed)
      BY <2>4, <3>1, <3>4 DEF StoresMailServer, Forms
    <3>6. typed' = smtp'.pass
      BY <2>4, <3>5 DEF StoresMailServer, Password
    <3>7. smtp' # None
      <4>1. smtp' \in Configs
        <5> DEFINE pass == Password(calls[s].arg.pass, calls[s].got)
        <5>1. calls[s].arg.server # Blank /\ calls[s].got \in Passes \cup {Blank}
          BY <1>2, <3>1, <3>3 DEF Held, FormHeld
        <5>2. pass \in Passes \cup {Blank}  BY <3>4, <5>1 DEF Password, Forms
        <5>3. smtp' = [calls[s].arg EXCEPT !.pass = pass]  BY <2>4 DEF StoresMailServer
        <5> HIDE DEF pass
        <5> QED  BY <3>4, <5>1, <5>2, <5>3 DEF Forms, Configs
      <4> QED  BY <4>1, SettingsAssumption
    <3> QED  BY <3>2, <3>6, <3>7 DEF Existing
  <2> QED  BY <2>3, <2>4
<1> QED  BY <1>4, <1>5, <1>6, <1>7, StepCases
-----------------------------------------------------------------------------
(* The addresses.                                                          *)

LEMMA Sets ==
    /\ \A s : s \in Under({"address"}) <=> s \in Slots /\ calls[s].kind = "address"
    /\ \A s : s \in Under({"address"})' <=> s \in Slots /\ calls'[s].kind = "address"
    /\ \A s : s \in Under({"link"}) <=> s \in Slots /\ calls[s].kind = "link"
    /\ \A s : s \in Under({"link"})' <=> s \in Slots /\ calls'[s].kind = "link"
    /\ \A s : s \in Under({"address", "link"}) <=> s \in Slots /\ calls[s].kind \in {"address", "link"}
    /\ \A s : s \in Linking <=> s \in Slots /\ calls[s].kind = "link" /\ calls[s].pc \in {"request", "callback"}
    /\ \A s : s \in Linking' <=> s \in Slots /\ calls'[s].kind = "link" /\ calls'[s].pc \in {"request", "callback"}
    /\ \A s : s \in Calling <=> s \in Slots /\ calls[s].kind = "link" /\ calls[s].pc = "callback"
    /\ \A s : s \in Calling' <=> s \in Slots /\ calls'[s].kind = "link" /\ calls'[s].pc = "callback"
    /\ \A s : s \in Storing <=>
          s \in Slots /\ calls[s].kind = "address" /\ calls[s].pc \in {"trusted", "configured", "push"}
    /\ \A s : s \in Storing' <=>
          s \in Slots /\ calls'[s].kind = "address" /\ calls'[s].pc \in {"trusted", "configured", "push"}
  BY DEF Under, Linking, Calling, Storing

(* The invariant without sets.                                             *)
Apart(calling, kept_) ==
    /\ \A s, r \in Slots : calling[s].kind = "address" /\ calling[r].kind = "address" => s = r
    /\ \A s, r \in Slots : ~(calling[s].kind = "address" /\ calling[r].kind = "link")
    /\ \A s \in Slots : calling[s].kind = "address" /\ calling[s].pc = "push" => calling[s].got = kept_
    /\ \A s \in Slots : calling[s].kind = "link" /\ calling[s].pc \in {"request", "callback"}
          => calling[s].got.url = kept_.url

LEMMA ApartIs ==
    /\ OneAddress <=> ("addresses" \notin mixed => Apart(calls, address))
    /\ OneAddress' <=> ("addresses" \notin mixed' => Apart(calls', address'))
<1>1. OneAddress <=> ("addresses" \notin mixed => Apart(calls, address))
  BY Sets DEF OneAddress, Apart
<1>2. OneAddress' <=> ("addresses" \notin mixed' => Apart(calls', address'))
  BY Sets DEF OneAddress, Apart
<1> QED  BY <1>1, <1>2

LEMMA OneAddressStep ==
    ASSUME Typed, OneAddress, MailStep
    PROVE  OneAddress'
<1> SUFFICES ASSUME "addresses" \notin mixed'
             PROVE  Apart(calls', address')
  BY ApartIs
<1>1. Apart(calls, address) /\ Called  BY ApartIs, MixedStep DEF Typed
<1>2. CASE Restarts
  BY <1>2 DEF Restarts, Idle, Apart
<1>3. CASE Besides
  <2>1. Stays /\ UNCHANGED address  BY <1>1, <1>3, BesidesMoves DEF kept
  <2> QED  BY <1>1, <2>1 DEF Stays, Apart
<1>4. CASE Sending
  <2>1. PICK f \in Slots : Arrives(f)  BY <1>1, <1>4, SendingMoves
  <2>2. UNCHANGED address  BY <1>1, <1>4, SendingMoves DEF kept
  <2>3. /\ calls[f].kind = "none" /\ \A r \in Slots \ {f} : calls'[r] = calls[r]
        /\ calls'[f].pc \in {"guard", "ask"}
    BY <2>1 DEF Arrives, Others, Idle
  <2>4. calls'[f].kind = "address" => \A r \in Slots : calls[r].kind \notin {"address", "link"}
    BY <2>1, Sets DEF Arrives
  <2>5. calls'[f].kind = "link" => \A r \in Slots : calls[r].kind # "address"
    BY <2>1, Sets DEF Arrives
  <2> QED  BY <1>1, <2>2, <2>3, <2>4, <2>5 DEF Apart
<1>5. ASSUME NEW s \in Slots, Command(s)  PROVE Apart(calls', address')
  <2>1. Others(s) /\ Comes(s)  BY <1>5, CommandMoves
  <2>2. \A r \in Slots : calls'[r].kind \in {"address", "link"} => calls'[r].kind = calls[r].kind
    BY <2>1 DEF Others, Comes
  <2>3. CASE UNCHANGED address
    <3>1. \A r \in Slots : calls'[r].kind = "address" /\ calls'[r].pc = "push" => calls'[r].got = address
      BY <1>1, <2>1 DEF Apart, Others, Comes
    <3>2. \A r \in Slots : calls'[r].kind = "link" /\ calls'[r].pc \in {"request", "callback"}
             => calls'[r].got.url = address.url
      <4>1. calls'[s].kind = "link" /\ calls'[s].pc = "request" => calls'[s].got.url = address.url
        BY <2>1 DEF Comes
      <4>2. calls'[s].kind = "link" /\ calls'[s].pc = "callback" => calls'[s].got.url = address.url
        BY <1>1, <2>1, <2>2 DEF Comes, Apart, StashesLink, At
      <4> QED  BY <1>1, <2>1, <4>1, <4>2 DEF Others, Apart
    <3> QED  BY <1>1, <2>2, <2>3, <3>1, <3>2 DEF Apart
  <2>4. CASE StoresUrl(s) \/ StoresTrusted(s)
    <3>1. calls[s].kind = "address" /\ calls[s].pc \in {"write", "trusted"}
      BY <2>4 DEF StoresUrl, StoresTrusted, At
    <3>2. ~ReadsAddress(s)  BY <3>1 DEF ReadsAddress, At
    <3> QED  BY <1>1, <2>1, <2>2, <3>1, <3>2 DEF Apart, Others, Comes
  <2>5. UNCHANGED address \/ StoresUrl(s) \/ StoresTrusted(s)
    BY <1>5 DEF Command, Admitted, ReadsPassword, StoresMailServer, StoresManual, ReadsAddress, Pushes,
       PushFails, Asks, SendsOtp, SendsExport, SendsTest, StashesLink, SendsLink, RequestFails, TellsTab, kept
  <2> QED  BY <2>3, <2>4, <2>5
<1> QED  BY <1>2, <1>3, <1>4, <1>5, StepCases
(* A link that reaches the sidecar finds the addresses there.              *)
LEMMA LinkFinds ==
    ASSUME Typed, OneAddress, Handed, NEW s \in Slots, StashesLink(s),
           mixed \cap {"addresses", "lost"} = {}
    PROVE  /\ Agrees /\ calls[s].got \in [smtp : Configs, url : Origins \cup {None}]
           /\ calls[s].got.url = address.url
<1>1. s \in Slots /\ calls[s].kind = "link" /\ calls[s].pc = "request" /\ alive = "up"
  BY DEF StashesLink, At
<1>2. Apart(calls, address)  BY ApartIs
<1>3. Storing = {}  BY <1>1, <1>2, Sets DEF Apart
<1>4. Agrees  BY <1>1, <1>3 DEF Handed
<1>5. calls[s].got \in [smtp : Configs, url : Origins \cup {None}]
  BY <1>1 DEF Typed, Called, Idle, Held, RequestHeld
<1> QED  BY <1>1, <1>2, <1>4, <1>5 DEF Apart

LEMMA HandedStep ==
    ASSUME Typed, OneAddress, Handed, MailStep
    PROVE  Handed'
<1> SUFFICES ASSUME alive' = "up", mixed' \cap {"addresses", "lost"} = {}, Storing' = {}
             PROVE  Agrees'
  BY DEF Handed
<1>1. /\ Called /\ MailTypeOK /\ mixed \cap {"addresses", "lost"} = {} /\ Apart(calls, address)
      /\ runtime \in Runtime
  BY MixedStep, ApartIs DEF Typed, MailTypeOK, Runtime
<1>2. ASSUME alive = "up", Storing = {}, runtime'.origin = runtime.origin,
             runtime'.trusted = runtime.trusted, UNCHANGED address
      PROVE  Agrees'
  BY <1>1, <1>2 DEF Handed, Agrees
<1>3. CASE Restarts  BY <1>3 DEF Restarts
<1>4. CASE Boots  BY <1>4 DEF Boots, kept, Agrees
<1>5. CASE Sending
  <2>1. UNCHANGED <<alive, runtime, address>> /\ \E f \in Slots : Arrives(f)
    BY <1>1, <1>5, SendingMoves DEF kept, sidecar
  <2>2. Storing = {}
    BY <2>1, Sets DEF Arrives, Others, Idle
  <2> QED  BY <1>2, <2>1, <2>2
<1>6. CASE Besides /\ ~Boots
  <2>1. Stays /\ UNCHANGED address  BY <1>1, <1>6, BesidesMoves DEF kept
  <2>2. Storing = {}
    <3>1. \A s \in Slots : calls[s].kind = "address" =>
             calls'[s].kind = "address" /\ calls'[s].pc = calls[s].pc
      BY <2>1 DEF Stays
    <3> QED  BY <3>1, Sets
  <2>3. alive = "up"  BY <1>6 DEF Besides, OpensTab, LeavesTab, LoadsTab, TypesMailServer, TypesAddress,
                         Boots, Warms, Dies, Recovers, Reminds, sidecar
  <2>4. UNCHANGED runtime \/ Warms
    BY <1>6 DEF Besides, OpensTab, LeavesTab, LoadsTab, TypesMailServer, TypesAddress,
       Boots, Dies, Recovers, Reminds, sidecar
  <2>5. runtime'.origin = runtime.origin /\ runtime'.trusted = runtime.trusted
    BY <1>1, <2>4 DEF Warms, Runtime
  <2> QED  BY <1>2, <2>1, <2>2, <2>3, <2>5
<1>7. ASSUME NEW s \in Slots, Command(s)  PROVE Agrees'
  <2>1. Others(s) /\ Comes(s)  BY <1>7, CommandMoves
  <2>2. CASE Pushes(s)
    <3>1. calls[s].got = address  BY <1>1, <2>2 DEF Apart, Pushes, At
    <3>2. UNCHANGED address  BY <2>2 DEF Pushes, kept
    <3>3. runtime' = [runtime EXCEPT !.origin = address.url, !.trusted = address.trusted]
      BY <2>2, <3>1 DEF Pushes
    <3>4. runtime'.origin = address.url /\ runtime'.trusted = address.trusted
      BY <1>1, <3>3 DEF Runtime
    <3> QED  BY <3>2, <3>4 DEF Agrees, LanOrigins
  <2>3. CASE PushFails(s)
    <3>1. "lost" \in mixed'  BY <2>3 DEF PushFails
    <3> QED  BY <3>1
  <2>4. CASE StoresUrl(s) \/ StoresTrusted(s)
    <3>1. calls[s].kind = "address" /\ calls[s] # Idle
      BY <2>4, <1>7, NotIdle DEF StoresUrl, StoresTrusted, At
    <3>2. calls'[s].kind = "address" /\ calls'[s].pc \in {"trusted", "configured"}
      BY <1>1, <2>4, <3>1, Moves DEF StoresUrl, StoresTrusted
    <3> QED  BY <3>2, Sets
  <2>5. CASE StashesLink(s)
    <3>1. Agrees /\ calls[s].got.url = address.url /\ UNCHANGED address
      BY <1>1, <2>5, LinkFinds DEF StashesLink, kept
    <3> DEFINE origin == IF calls[s].got.url # None THEN calls[s].got.url ELSE runtime.origin
    <3>2. origin = runtime.origin \/ (origin = address.url /\ address.url # None)
      BY <3>1
    <3>3. runtime' = runtime \/ runtime' = [runtime EXCEPT !.origin = origin, !.smtp = calls[s].got.smtp]
      BY <2>5 DEF StashesLink
    <3> HIDE DEF origin
    <3>4. runtime'.trusted = runtime.trusted /\ runtime'.origin \in {runtime.origin, origin}
      BY <1>1, <3>3 DEF Runtime
    <3> QED  BY <3>1, <3>2, <3>4 DEF Agrees
  <2>6. CASE ~(Pushes(s) \/ PushFails(s) \/ StoresUrl(s) \/ StoresTrusted(s) \/ StashesLink(s))
    <3>1. UNCHANGED <<alive, runtime, address>>
      BY <1>7, <2>6 DEF Command, Admitted, ReadsPassword, StoresMailServer, StoresManual, ReadsAddress,
         Asks, SendsOtp, SendsExport, SendsTest, SendsLink, RequestFails, TellsTab, kept, sidecar
    <3>2. Storing = {}
      <4> SUFFICES ASSUME NEW r \in Storing  PROVE FALSE  OBVIOUS
      <4>1. r \in Slots /\ calls[r].kind = "address" /\ calls[r].pc \in {"trusted", "configured", "push"}
        BY Sets
      <4>2. r = s
        <5> SUFFICES ASSUME r # s  PROVE FALSE  OBVIOUS
        <5>1. calls'[r] = calls[r]  BY <2>1, <4>1 DEF Others
        <5> QED  BY <4>1, <5>1, Sets
      <4>3. ReadsAddress(s)
        BY <1>7, <2>6, <4>1, <4>2 DEF Command, Admitted, ReadsPassword, StoresMailServer, StoresManual, Asks,
           SendsOtp, SendsExport, SendsTest, SendsLink, RequestFails, TellsTab, At
      <4>4. calls'[s].kind = "address"
        <5>1. DOMAIN calls[s] = Locals  BY <1>1, <1>7, NotIdle DEF Called, Held
        <5>2. Becomes(s, [calls[s] EXCEPT !.arg = None, !.got = address, !.pc = "push"])
          BY <4>3 DEF ReadsAddress
        <5> QED  BY <1>1, <4>1, <4>2, <5>1, <5>2 DEF Becomes, Called, Locals
      <4>5. calls'[s].pc \in {"trusted", "configured", "push"}
        BY <2>1, <2>6, <4>1, <4>2, <4>4 DEF Comes
      <4> QED  BY <4>4, <4>5, Sets
    <3> QED  BY <1>2, <3>1, <3>2
  <2> QED  BY <2>2, <2>3, <2>4, <2>5, <2>6
<1> QED  BY <1>3, <1>4, <1>5, <1>6, <1>7, StepCases
-----------------------------------------------------------------------------
(* The links.                                                              *)

LEMMA OneLinkStep ==
    ASSUME Typed, OneLink, MailStep
    PROVE  OneLink'
<1>1. Called  BY DEF Typed
<1>2. /\ \A s \in Calling : alive # "off"
      /\ "links" \notin mixed => (\A s, r \in Slots : calls[s].kind = "link" /\ calls[r].kind = "link" => s = r)
      /\ "links" \notin mixed => \A s \in Calling : warm = None
  BY Sets DEF OneLink
<1>3. ASSUME \A s \in Calling' : alive' # "off",
             "links" \notin mixed' => (\A s, r \in Slots : calls'[s].kind = "link" /\ calls'[r].kind = "link" => s = r),
             "links" \notin mixed' => \A s \in Calling' : warm' = None
      PROVE  OneLink'
  BY <1>3, Sets DEF OneLink
<1>4. CASE Restarts
  <2>1. \A s \in Slots : calls'[s].kind # "link"  BY <1>4 DEF Restarts, Idle
  <2> QED  BY <1>3, <2>1, Sets
<1>5. CASE Besides
  <2>1. Stays /\ UNCHANGED mixed  BY <1>1, <1>5, BesidesMoves
  <2>2. \A s \in Slots : calls'[s].kind = "link" =>
           calls[s].kind = "link" /\ calls[s].pc = calls'[s].pc
    BY <2>1 DEF Stays
  <2>3. Calling' \subseteq Calling  BY <2>2, Sets
  <2>4. CASE UNCHANGED <<alive, warm>>  BY <1>2, <1>3, <2>1, <2>2, <2>3, <2>4
  <2>5. CASE Boots
    <3>1. alive = "off"  BY <2>5 DEF Boots
    <3>2. Calling' = {}  BY <1>2, <2>3, <3>1
    <3> QED  BY <1>2, <1>3, <2>1, <2>2, <3>2
  <2>6. CASE Warms \/ Dies
    <3>1. warm' = None /\ alive' # "off"  BY <2>6 DEF Warms, Dies
    <3> QED  BY <1>2, <1>3, <2>1, <2>2, <3>1
  <2> QED
    BY <1>5, <2>4, <2>5, <2>6 DEF Besides, OpensTab, LeavesTab, LoadsTab, TypesMailServer, TypesAddress,
       Recovers, Reminds, sidecar
<1>6. CASE Sending
  <2>1. UNCHANGED <<alive, warm>> /\ mixed \subseteq mixed'
    BY <1>1, <1>6, SendingMoves, MixedStep DEF sidecar
  <2>2. PICK f \in Slots : Arrives(f)  BY <1>1, <1>6, SendingMoves
  <2>3. /\ calls[f].kind = "none" /\ \A r \in Slots \ {f} : calls'[r] = calls[r]
        /\ calls'[f].pc # "callback"
    BY <2>2 DEF Arrives, Others, Idle
  <2>4. calls'[f].kind = "link" /\ "links" \notin mixed' => \A r \in Slots : calls[r].kind # "link"
    BY <2>2, Sets DEF Arrives
  <2>5. Calling' \subseteq Calling  BY <2>3, Sets
  <2> QED  BY <1>2, <1>3, <2>1, <2>3, <2>4, <2>5
<1>7. ASSUME NEW s \in Slots, Command(s)  PROVE OneLink'
  <2>1. Others(s) /\ Comes(s) /\ mixed \subseteq mixed'  BY <1>7, CommandMoves, MixedStep
  <2>2. UNCHANGED <<alive, warm>>
    BY <1>7 DEF Command, Admitted, ReadsPassword, StoresMailServer, StoresManual, StoresUrl, StoresTrusted,
       ReadsAddress, Pushes, PushFails, Asks, SendsOtp, SendsExport, SendsTest, StashesLink, SendsLink,
       RequestFails, TellsTab, sidecar
  <2>3. \A r \in Slots : calls'[r].kind = "link" => calls[r].kind = "link"
    BY <2>1 DEF Others, Comes
  <2>4. \A r \in Calling' : r \in Calling \/ StashesLink(s)
    BY <2>1, Sets DEF Others, Comes
  <2>5. StashesLink(s) => alive = "up" /\ ("links" \notin mixed' => warm = None)
    BY DEF StashesLink
  <2> QED  BY <1>2, <1>3, <2>1, <2>2, <2>3, <2>4, <2>5
<1> QED  BY <1>4, <1>5, <1>6, <1>7, StepCases

Met == {"links", "addresses", "lost"}

LEMMA StashedStep ==
    ASSUME Typed, OneAddress, Handed, OneLink, Stashed, MailStep
    PROVE  Stashed'
<1> DEFINE Has(r) == /\ runtime.smtp = calls[r].got.smtp
                     /\ runtime.origin = IF calls[r].got.url = None THEN Lan ELSE calls[r].got.url
<1> SUFFICES ASSUME mixed' \cap Met = {}, NEW r \in Calling'
             PROVE  Has(r)'
  BY DEF Stashed, Met
<1>1. /\ Called /\ runtime \in Runtime /\ mixed \subseteq mixed' /\ Apart(calls, address)
      /\ "links" \notin mixed /\ mixed \cap {"addresses", "lost"} = {} /\ mixed \cap Met = {}
  BY MixedStep, ApartIs DEF Typed, MailTypeOK, Runtime, Met
<1>2. r \in Slots /\ calls'[r].kind = "link" /\ calls'[r].pc = "callback"  BY Sets
<1>3. ASSUME r \in Calling, calls'[r].got = calls[r].got, UNCHANGED runtime  PROVE Has(r)'
  BY <1>1, <1>3 DEF Stashed, Met
<1>4. r \in Calling => alive # "off" /\ warm = None  BY <1>1 DEF OneLink
<1>5. ~Restarts  BY <1>2 DEF Restarts, Idle
<1>6. CASE Besides
  <2>1. Stays  BY <1>1, <1>6, BesidesMoves
  <2>2. r \in Calling /\ calls'[r].got = calls[r].got  BY <1>2, <2>1, Sets DEF Stays
  <2>3. ~Boots /\ ~Warms  BY <1>4, <2>2 DEF Boots, Warms
  <2>4. UNCHANGED runtime
    BY <1>6, <2>3 DEF Besides, OpensTab, LeavesTab, LoadsTab, TypesMailServer, TypesAddress, Dies,
       Recovers, Reminds, sidecar
  <2> QED  BY <1>3, <2>2, <2>4
<1>7. CASE Sending
  <2>1. UNCHANGED runtime  BY <1>1, <1>7, SendingMoves DEF sidecar
  <2>2. PICK f \in Slots : Arrives(f)  BY <1>1, <1>7, SendingMoves
  <2>3. r # f /\ calls'[r] = calls[r]  BY <1>2, <2>2 DEF Arrives, Others
  <2>4. r \in Calling  BY <1>2, <2>3, Sets
  <2> QED  BY <1>3, <2>1, <2>3, <2>4
<1>8. ASSUME NEW s \in Slots, Command(s)  PROVE Has(r)'
  <2>1. Others(s) /\ Comes(s)  BY <1>8, CommandMoves
  <2>2. CASE r = s
    <3>1. StashesLink(s) /\ calls'[s].got = calls[s].got  BY <1>2, <2>1, <2>2 DEF Comes
    <3>2. Agrees /\ calls[s].got.url = address.url  BY <1>1, <3>1, LinkFinds
    <3> DEFINE origin == IF calls[s].got.url # None THEN calls[s].got.url ELSE runtime.origin
    <3>3. origin # None /\ runtime' = [runtime EXCEPT !.origin = origin, !.smtp = calls[s].got.smtp]
      <4>1. calls[s].pc = "request" /\ calls[s] # Idle  BY <1>8, <3>1, NotIdle DEF StashesLink, At
      <4>2. ~Answers(s, FALSE)  BY <1>1, <1>2, <2>2, <4>1, Moves
      <4> QED  BY <3>1, <4>2 DEF StashesLink
    <3>4. origin = IF calls[s].got.url = None THEN Lan ELSE calls[s].got.url
      BY <3>2, <3>3 DEF Agrees, LanOrigins
    <3> HIDE DEF origin
    <3>5. runtime'.smtp = calls[s].got.smtp /\ runtime'.origin = origin
      BY <1>1, <3>3 DEF Runtime
    <3> QED  BY <2>2, <3>1, <3>4, <3>5
  <2>3. CASE r # s
    <3>1. calls'[r] = calls[r] /\ r \in Calling  BY <1>2, <2>1, <2>3, Sets DEF Others
    <3>2. ~Pushes(s)  BY <1>1, <1>2, <3>1 DEF Pushes, At, Apart
    <3>3. ~StashesLink(s)
      <4> SUFFICES ASSUME StashesLink(s)  PROVE FALSE  OBVIOUS
      <4>1. calls[s].kind = "link"  BY DEF StashesLink, At
      <4>2. s \in Under({"link"}) /\ r \in Under({"link"})  BY <1>2, <3>1, <4>1, Sets
      <4> QED  BY <1>1, <2>3, <4>2 DEF OneLink
    <3>4. UNCHANGED runtime
      BY <1>8, <3>2, <3>3 DEF Command, Admitted, ReadsPassword, StoresMailServer, StoresManual, StoresUrl,
         StoresTrusted, ReadsAddress, PushFails, Asks, SendsOtp, SendsExport, SendsTest, SendsLink,
         RequestFails, TellsTab, sidecar
    <3> QED  BY <1>3, <3>1, <3>4
  <2> QED  BY <2>2, <2>3
<1> QED  BY <1>5, <1>6, <1>7, <1>8, StepCases

LEMMA AskedStep ==
    ASSUME Stashed, LinkAsAsked, MailStep
    PROVE  LinkAsAsked'
<1>1. mixed \subseteq mixed'  BY MixedStep
<1>2. CASE UNCHANGED mail  BY <1>1, <1>2 DEF LinkAsAsked
<1>3. CASE mail'.asked = None  BY <1>3 DEF LinkAsAsked
<1>4. ASSUME NEW s \in Slots, SendsLink(s), ~UNCHANGED mail
      PROVE  LinkAsAsked'
  <2>1. s \in Calling  BY <1>4, Sets DEF SendsLink, At
  <2>2. mail' = PasswordMail(runtime.smtp, runtime.origin, calls[s].got) /\ UNCHANGED mixed
    BY <1>4 DEF SendsLink
  <2>3. mail'.via = runtime.smtp /\ mail'.link = runtime.origin /\ mail'.asked = calls[s].got
    BY <2>2 DEF PasswordMail
  <2> QED  BY <2>1, <2>2, <2>3 DEF LinkAsAsked, Stashed
<1>5. ASSUME NEW s \in Slots, Command(s), ~SendsLink(s)
      PROVE  UNCHANGED mail \/ mail'.asked = None
  <2>1. CASE SendsOtp(s) \/ SendsExport(s) \/ SendsTest(s)
    <3>1. \A kind, via : Mail(kind, via).asked = None  BY DEF Mail
    <3>2. \E kind, via : mail' = Mail(kind, via)
      BY <2>1 DEF SendsOtp, SendsExport, SendsTest, OtpMail, ExportMail, TestMail
    <3> QED  BY <3>1, <3>2
  <2>2. CASE ~(SendsOtp(s) \/ SendsExport(s) \/ SendsTest(s))
    BY <1>5, <2>2 DEF Command, Admitted, ReadsPassword, StoresMailServer, StoresManual, StoresUrl,
       StoresTrusted, ReadsAddress, Pushes, PushFails, Asks, StashesLink, RequestFails, TellsTab
  <2> QED  BY <2>1, <2>2
<1>6. CASE TabActs
  BY <1>2, <1>6 DEF TabActs, OpensTab, LeavesTab, TypesMailServer, TypesAddress, Toggles, SavesMailServer,
     TestsMailServer, SavesAddress, Sends
<1>7. CASE AsksLink \/ AsksOtp \/ AsksExport
  BY <1>2, <1>7 DEF AsksLink, AsksOtp, AsksExport, Sends
<1>8. CASE Recovers \/ Reminds
  BY <1>3, <1>8 DEF Recovers, Reminds, PasswordMail, MissedPunchMail, Mail
<1>9. CASE LoadsTab \/ Boots \/ Warms \/ Dies \/ Restarts
  BY <1>2, <1>9 DEF LoadsTab, Boots, Warms, Dies, Restarts
<1> QED
  BY <1>2, <1>3, <1>4, <1>5, <1>6, <1>7, <1>8, <1>9 DEF MailStep, TabActs, OtherActs, MailRuns
-----------------------------------------------------------------------------
(* The page of the administration, in a behaviour of the two pages.        *)

LEMMA MailInvInit ==
    ASSUME Init
    PROVE  MailInv
<1>1. MailInit  BY DEF Init
<1>2. Called  BY <1>1 DEF MailInit, Called
<1>3. TabOK
  BY <1>1 DEF MailInit, TabOK, TabHeld, TabFields, Closed, Unset, Forms, NoAddress, Addresses
<1>4. /\ smtp \in Configs \cup {None} /\ typed \in Passes \cup {Blank} /\ address \in Addresses
      /\ manual \in BOOLEAN /\ typed = Existing
  <2>1. smtp \in Configs \cup {None} /\ manual = FALSE /\ typed = Existing
    BY <1>1 DEF MailInit, Existing
  <2>2. typed \in Passes \cup {Blank}  BY <2>1 DEF Existing, Configs
  <2>3. address \in Addresses
    <3>1. NoAddress \in Addresses /\ \A o \in Origins : [url |-> o, trusted |-> {o}] \in Addresses
      BY DEF NoAddress, Addresses
    <3> QED  BY <1>1, <3>1 DEF MailInit
  <2> QED  BY <2>1, <2>2, <2>3
<1>5. /\ alive \in {"off", "up", "dead"} /\ runtime \in Runtime /\ warm \in Configs \cup {None}
      /\ mixed = {} /\ mail = None /\ alive = "off"
  BY <1>1 DEF MailInit, Runtime
<1>6. \A s \in Slots : calls[s].kind = "none"  BY <1>1 DEF MailInit, Idle
<1>7. Typed
  BY <1>2, <1>3, <1>4, <1>5, <1>6 DEF Typed, TabOK, MailTypeOK, Runtime
<1>8. OneSave  BY <1>4, <1>6 DEF OneSave, Under
<1>9. OneAddress  BY <1>6, ApartIs DEF Apart
<1>10. Handed /\ LinkAsAsked  BY <1>5 DEF Handed, LinkAsAsked
<1>11. OneLink /\ Stashed  BY <1>6, Sets DEF OneLink, Stashed
<1> QED  BY <1>7, <1>8, <1>9, <1>10, <1>11 DEF MailInv

LEMMA NextIs ==
    ASSUME Next
    PROVE  MailStep \/ UNCHANGED mailVars
  BY DEF Next, UsesReader, LockGoesOn, GoesIn, DeskElseGoesOn, UsesTab, Elsewhere, MailGoesOn, Fails, OnDesk,
     OnTab, MailStep

LEMMA MailInvStep ==
    ASSUME MailInv, [Next]_vars
    PROVE  MailInv'
<1>1. CASE MailStep
  BY <1>1, TypedStep, OneSaveStep, OneAddressStep, HandedStep, OneLinkStep, StashedStep, AskedStep DEF MailInv
<1>2. CASE UNCHANGED mailVars
  <2> USE <1>2 DEF mailVars
  <2>1. Typed'  BY DEF MailInv, Typed, MailTypeOK, Called, TabHeld
  <2>2. OneSave'  BY DEF MailInv, OneSave, Under, Existing
  <2>3. OneAddress'  BY ApartIs DEF MailInv
  <2>4. Storing' = Storing /\ Calling' = Calling  BY DEF Storing, Calling, Under
  <2>5. Handed'  BY <2>4 DEF MailInv, Handed, Agrees
  <2>6. OneLink'  BY <2>4 DEF MailInv, OneLink, Under
  <2>7. Stashed' /\ LinkAsAsked'  BY <2>4 DEF MailInv, Stashed, LinkAsAsked
  <2> QED  BY <2>1, <2>2, <2>3, <2>5, <2>6, <2>7 DEF MailInv
<1>3. CASE UNCHANGED vars  BY <1>2, <1>3 DEF vars
<1> QED  BY <1>1, <1>2, <1>3, NextIs

(* The types of the mails, the commands and the tab, and what is recorded  *)
(* of the meetings, hold at every step.                                    *)
THEOREM MailInvariant == Spec => []MailInv
<1>1. Init => MailInv  BY MailInvInit
<1>2. MailInv /\ [Next]_vars => MailInv'  BY MailInvStep
<1> QED  BY <1>1, <1>2, PTL DEF Spec

(* set_smtp_config_cmd: the password stored is the last one typed, for any *)
(* number of saves and tests that left it blank, one after the other.      *)
THEOREM PasswordAlwaysKept == Spec => []PasswordKept
<1>1. MailInv => PasswordKept  BY DEF MailInv, OneSave, Existing, PasswordKept
<1> QED  BY <1>1, MailInvariant, PTL

(* save_advanced and sidecar::start: the running sidecar has the addresses *)
(* that are stored, through restarts in the middle of a save.              *)
THEOREM AddressesAlwaysAgree == Spec => []AddressesAgree
<1>1. MailInv => AddressesAgree
  <2> SUFFICES ASSUME MailInv, alive = "up", Under({"address"}) = {},
                      mixed \cap {"addresses", "lost"} = {}
               PROVE  Agrees
    BY DEF AddressesAgree, Agrees
  <2>1. Storing = {}  BY DEF Storing
  <2> QED  BY <2>1 DEF MailInv, Handed
<1> QED  BY <1>1, MailInvariant, PTL

(* password-setup/send and sendResetPassword: a link goes as it was asked  *)
(* for, though what it is mailed with is read from the sidecar's memory.   *)
THEOREM LinksGoAsAsked == Spec => []LinkAsAsked
<1>1. MailInv => LinkAsAsked  BY DEF MailInv
<1> QED  BY <1>1, MailInvariant, PTL
-----------------------------------------------------------------------------
(* The reader: nobody waits for its lock twice, nor while holding it, so   *)
(* that its queue is never longer than its users are many.                 *)

OnceEach ==
    /\ waiting \in Seq(Users)
    /\ \A i, j \in DOMAIN waiting : waiting[i] = waiting[j] => i = j
    /\ holder # Nothing => \A i \in DOMAIN waiting : waiting[i] # holder

DeskHeld ==
    /\ holder \in Users \cup {Nothing}
    /\ stage \in [Diagnoses -> {"new", "guard", "uid", "state", "told"}]
    /\ \A d \in Diagnoses : Uses(d) => stage[d] \in {"uid", "state"}

Window ==
    /\ {cancel, plugged, diagOpen, cardDataError, readerName} \subseteq BOOLEAN
    /\ cardDiag \in Found \cup {Nothing}
    /\ readerConnected \in {"unknown", "yes", "no"}

DeskInv == OnceEach /\ DeskHeld /\ Window

LEMMA Counted ==
    ASSUME NEW n \in Nat
    PROVE  Cardinality(1..n) = n
<1>1. 1 \in Int /\ n \in Int  OBVIOUS
<1>2. Cardinality(1..n) = IF 1 > n THEN 0 ELSE n - 1 + 1  BY <1>1, FS_Interval
<1>3. CASE 1 > n
  <2>1. n = 0  BY <1>3
  <2> QED  BY <1>2, <1>3, <2>1
<1>4. CASE ~(1 > n)
  <2>1. n - 1 + 1 = n  OBVIOUS
  <2> QED  BY <1>2, <1>4, <2>1
<1> QED  BY <1>3, <1>4

(* A sequence of different users is not longer than they are many.         *)
LEMMA Distinct ==
    ASSUME OnceEach
    PROVE  Len(waiting) <= Cardinality(Users)
<1>1. IsFiniteSet(Users)
  <2>1. IsFiniteSet({}) /\ Asking = ({} \cup {"poll"}) \cup {"test"}  BY FS_EmptySet DEF Asking
  <2>2. IsFiniteSet(Asking)  BY <2>1, FS_AddElement
  <2> QED  BY <2>2, FS_Union, SettingsAssumption DEF Users
<1>2. waiting \in Injection(1..Len(waiting), Users)
  <2>1. waiting \in [1..Len(waiting) -> Users]  BY DEF OnceEach
  <2>2. \A i, j \in 1..Len(waiting) : waiting[i] = waiting[j] => i = j
    BY <2>1 DEF OnceEach
  <2> QED  BY <2>1, <2>2, Fun_IsInj
<1>3. Cardinality(1..Len(waiting)) <= Cardinality(Users)  BY <1>1, <1>2, FS_Injection
<1>4. Len(waiting) \in Nat  BY DEF OnceEach
<1>5. Cardinality(1..Len(waiting)) = Len(waiting)  BY <1>4, Counted
<1> QED  BY <1>3, <1>5

(* Who does not use the reader may wait for it.                            *)
LEMMA QueuesOnce ==
    ASSUME OnceEach, NEW u \in Users, ~Uses(u) \/ (holder = u /\ u # Nothing), Queues(u),
           holder' = Nothing \/ (holder' = holder /\ holder # u)
    PROVE  /\ OnceEach'
           /\ \A x : Uses(x)' => Uses(x) \/ x = u \/ x = Nothing
<1>1. /\ waiting' \in Seq(Users) /\ Len(waiting') = Len(waiting) + 1 /\ DOMAIN waiting = 1..Len(waiting)
      /\ waiting'[Len(waiting) + 1] = u /\ DOMAIN waiting' = 1..(Len(waiting) + 1)
      /\ \A i \in DOMAIN waiting : waiting'[i] = waiting[i]
      /\ Len(waiting) \in Nat
  BY DEF Queues, OnceEach
<1>2. \A i \in DOMAIN waiting : waiting[i] # u
  <2>1. CASE ~Uses(u)  BY <2>1 DEF Uses
  <2>2. CASE holder = u /\ u # Nothing  BY <2>2 DEF OnceEach
  <2> QED  BY <2>1, <2>2
<1>3. \A i, j \in DOMAIN waiting' : waiting'[i] = waiting'[j] => i = j
  BY <1>1, <1>2 DEF OnceEach
<1>4. holder' # Nothing => \A i \in DOMAIN waiting' : waiting'[i] # holder'
  BY <1>1 DEF OnceEach
<1>5. \A x : Uses(x)' => Uses(x) \/ x = u \/ x = Nothing
  BY <1>1 DEF Uses
<1> QED  BY <1>1, <1>3, <1>4, <1>5 DEF OnceEach
\* What happens on the page of the reader.
DeskStep == DeskActs \/ LockRuns \/ (\E d \in Diagnoses : Admits(d)) \/ DeskElse

LEMMA DeskInvStep ==
    ASSUME DeskInv, DeskStep
    PROVE  OnceEach' /\ DeskHeld'
<1> USE DEF lock
<1>1. /\ Diagnoses \subseteq Users /\ \A d \in Diagnoses : d # Nothing /\ d \notin Asking
      /\ {"poll", "test"} = Asking /\ Asking \subseteq Users
  BY SettingsAssumption DEF Users, Asking
<1>2. /\ waiting \in Seq(Users) /\ holder \in Users \cup {Nothing}
      /\ stage \in [Diagnoses -> {"new", "guard", "uid", "state", "told"}]
      /\ \A d \in Diagnoses : Uses(d) => stage[d] \in {"uid", "state"}
  BY DEF DeskInv, OnceEach, DeskHeld
<1>3. ASSUME UNCHANGED waiting, holder' \in {holder, Nothing},
             NEW d \in Diagnoses, UNCHANGED stage \/ stage' = [stage EXCEPT ![d] = "told"],
             UNCHANGED stage \/ ~Uses(d)'
      PROVE  OnceEach' /\ DeskHeld'
  <2>1. \A e \in Diagnoses : Uses(e)' => Uses(e)  BY <1>1, <1>3 DEF Uses
  <2> QED  BY <1>2, <1>3, <2>1 DEF DeskInv, OnceEach, DeskHeld
<1>4. ASSUME UNCHANGED <<waiting, stage>>, holder' \in {holder, Nothing}
      PROVE  OnceEach' /\ DeskHeld'
  <2>1. \A e \in Diagnoses : Uses(e)' => Uses(e)  BY <1>1, <1>4 DEF Uses
  <2> QED  BY <1>2, <1>4, <2>1 DEF DeskInv, OnceEach, DeskHeld
<1>5. CASE Takes
  <2>1. /\ waiting' = Tail(waiting) /\ holder' = Head(waiting) /\ waiting # <<>> /\ UNCHANGED stage
    BY <1>5 DEF Takes
  <2>2. /\ Len(waiting) \in Nat \ {0} /\ Len(waiting') = Len(waiting) - 1 /\ holder' = waiting[1]
        /\ DOMAIN waiting = 1..Len(waiting) /\ DOMAIN waiting' = 1..(Len(waiting) - 1)
        /\ \A i \in DOMAIN waiting' : i + 1 \in DOMAIN waiting /\ waiting'[i] = waiting[i + 1]
        /\ waiting' \in Seq(Users) /\ 1 \in DOMAIN waiting
    BY <1>2, <2>1
  <2>3. holder' \in Users  BY <1>2, <2>2
  <2>4. \A i, j \in DOMAIN waiting' : waiting'[i] = waiting'[j] => i = j
    BY <2>2 DEF DeskInv, OnceEach
  <2>5. \A i \in DOMAIN waiting' : waiting'[i] # holder'
    BY <2>2 DEF DeskInv, OnceEach
  <2>6. \A e : Uses(e)' => Uses(e)  BY <2>2 DEF Uses
  <2> QED  BY <1>2, <2>1, <2>2, <2>3, <2>4, <2>5, <2>6 DEF OnceEach, DeskHeld
<1>6. ASSUME NEW u \in Asking, ~Uses(u), Queues(u), UNCHANGED <<holder, stage>>
      PROVE  OnceEach' /\ DeskHeld'
  <2>1. OnceEach' /\ \A x : Uses(x)' => Uses(x) \/ x = u \/ x = Nothing
    <3>1. CASE holder = Nothing  BY <1>1, <1>6, <3>1, QueuesOnce DEF DeskInv
    <3>2. CASE holder # Nothing
      <4>1. holder # u  BY <1>6 DEF Uses
      <4> QED  BY <1>1, <1>6, <4>1, QueuesOnce DEF DeskInv
    <3> QED  BY <3>1, <3>2
  <2>2. \A d \in Diagnoses : Uses(d)' => Uses(d)  BY <1>1, <1>6, <2>1
  <2> QED  BY <1>2, <1>6, <2>1, <2>2 DEF DeskHeld
<1>7. ASSUME NEW d \in Diagnoses, OpensDiagnosis(d)  PROVE OnceEach' /\ DeskHeld'
  <2>1. UNCHANGED <<waiting, holder>> /\ stage' = [stage EXCEPT ![d] = "guard"] /\ stage[d] = "new"
    BY <1>7 DEF OpensDiagnosis
  <2>2. OnceEach'  BY <2>1 DEF DeskInv, OnceEach
  <2>3. \A e : Uses(e)' => Uses(e)  BY <2>1 DEF Uses
  <2> QED  BY <1>2, <2>1, <2>2, <2>3 DEF DeskHeld
<1>8. ASSUME NEW d \in Diagnoses, NoCardComes(d) \/ ReadsCard(d)  PROVE OnceEach' /\ DeskHeld'
  <2>1. /\ holder = d /\ holder' = Nothing /\ UNCHANGED waiting /\ stage' = [stage EXCEPT ![d] = "told"]
    BY <1>8 DEF NoCardComes, ReadsCard, Tells, Frees
  <2>2. ~Uses(d)'  BY <1>1, <2>1 DEF Uses, DeskInv, OnceEach
  <2> QED  BY <1>3, <2>1, <2>2
<1>9. ASSUME NEW d \in Diagnoses, Admits(d)  PROVE OnceEach' /\ DeskHeld'
  <2>1. stage[d] = "guard" /\ UNCHANGED holder /\ ~Uses(d)  BY <1>2, <1>9 DEF Admits
  <2>2. CASE UNCHANGED waiting /\ stage' = [stage EXCEPT ![d] = "told"]
    <3>1. ~Uses(d)'  BY <2>1, <2>2 DEF Uses
    <3> QED  BY <1>3, <2>1, <2>2, <3>1
  <2>3. CASE Queues(d) /\ stage' = [stage EXCEPT ![d] = "uid"]
    <3>1. holder # d  BY <2>1 DEF Uses
    <3>2. OnceEach' /\ \A x : Uses(x)' => Uses(x) \/ x = d \/ x = Nothing
      BY <1>1, <2>1, <2>3, <3>1, QueuesOnce DEF DeskInv
    <3>3. \A e \in Diagnoses \ {d} : Uses(e)' => Uses(e)  BY <1>1, <3>2
    <3> QED  BY <1>2, <2>1, <2>3, <3>2, <3>3 DEF DeskHeld
  <2> QED  BY <1>9, <2>2, <2>3 DEF Admits, Tells
<1>10. ASSUME NEW d \in Diagnoses, CardComes(d)  PROVE OnceEach' /\ DeskHeld'
  <2>1. holder = d /\ holder' = Nothing /\ Queues(d) /\ stage' = [stage EXCEPT ![d] = "state"]
    BY <1>10 DEF CardComes, Frees
  <2>2. OnceEach' /\ \A x : Uses(x)' => Uses(x) \/ x = d \/ x = Nothing
    BY <1>1, <2>1, QueuesOnce DEF DeskInv
  <2>3. \A e \in Diagnoses \ {d} : Uses(e)' => Uses(e)  BY <1>1, <2>2
  <2> QED  BY <1>2, <2>1, <2>2, <2>3 DEF DeskHeld
<1>11. CASE RestartsDesk
  <2>1. /\ waiting' = <<>> /\ holder' = Nothing
        /\ stage' = [d \in Diagnoses |-> IF stage[d] = "new" THEN "new" ELSE "told"]
    BY <1>11 DEF RestartsDesk
  <2>2. OnceEach'  BY <2>1 DEF OnceEach
  <2>3. \A d \in Diagnoses : ~Uses(d)'  BY <1>1, <2>1 DEF Uses
  <2> QED  BY <2>1, <2>2, <2>3 DEF DeskHeld
<1>12. CASE ClosesDiagnosis \/ LeavesSettings \/ Plugs \/ TellsStatus
  BY <1>4, <1>12 DEF ClosesDiagnosis, LeavesSettings, Plugs, TellsStatus, Frees
<1>13. CASE Polls \/ Tests  BY <1>1, <1>6, <1>13 DEF Polls, Tests
<1> QED
  BY <1>5, <1>7, <1>8, <1>9, <1>10, <1>11, <1>12, <1>13 DEF DeskStep, DeskActs, LockRuns, DeskElse
LEMMA WindowStep ==
    ASSUME Window, DeskStep
    PROVE  Window'
<1> USE DEF lock, dialog, reader
<1>1. /\ cancel \in BOOLEAN /\ plugged \in BOOLEAN /\ diagOpen \in BOOLEAN /\ cardDataError \in BOOLEAN
      /\ readerName \in BOOLEAN /\ cardDiag \in Found \cup {Nothing}
      /\ readerConnected \in {"unknown", "yes", "no"}
  BY DEF Window
<1>2. ASSUME cancel' \in BOOLEAN, plugged' \in BOOLEAN, diagOpen' \in BOOLEAN, cardDataError' \in BOOLEAN,
             readerName' \in BOOLEAN, cardDiag' \in Found \cup {Nothing},
             readerConnected' \in {"unknown", "yes", "no"}
      PROVE  Window'
  BY <1>2 DEF Window
<1>3. CASE Takes \/ Polls \/ Tests
  BY <1>1, <1>2, <1>3 DEF Takes, Polls, Tests
<1>4. CASE TellsStatus
  <2>1. UNCHANGED <<cancel, plugged, dialog>>  BY <1>4 DEF TellsStatus, Frees
  <2>2. readerName' \in BOOLEAN  BY <1>1, <1>4 DEF TellsStatus
  <2>3. readerConnected' \in {"unknown", "yes", "no"}  BY <1>1, <1>4 DEF TellsStatus
  <2> QED  BY <1>1, <1>2, <2>1, <2>2, <2>3
<1>5. ASSUME NEW d \in Diagnoses, NEW found \in Found \cup {Nothing}, Tells(d, found)
      PROVE  cardDataError' \in BOOLEAN /\ cardDiag' \in Found \cup {Nothing} /\ UNCHANGED diagOpen
  BY <1>1, <1>5 DEF Tells
<1>6. ASSUME NEW d \in Diagnoses,
             OpensDiagnosis(d) \/ Admits(d) \/ CardComes(d) \/ NoCardComes(d) \/ ReadsCard(d)
      PROVE  Window'
  <2>1. CASE OpensDiagnosis(d) \/ CardComes(d)
    BY <1>1, <1>2, <2>1 DEF OpensDiagnosis, CardComes, Frees
  <2>2. CASE Admits(d)
    <3>1. UNCHANGED dialog \/ Tells(d, Nothing)  BY <2>2 DEF Admits
    <3>2. UNCHANGED <<cancel, plugged, reader>>  BY <2>2 DEF Admits
    <3> QED  BY <1>1, <1>2, <1>5, <3>1, <3>2
  <2>3. CASE NoCardComes(d) \/ ReadsCard(d)
    <3>1. \E found \in Found \cup {Nothing} : Tells(d, found)  BY <2>3 DEF NoCardComes, ReadsCard
    <3>2. UNCHANGED <<cancel, plugged, reader>>  BY <2>3 DEF NoCardComes, ReadsCard, Frees
    <3> QED  BY <1>1, <1>2, <1>5, <3>1, <3>2
  <2> QED  BY <1>6, <2>1, <2>2, <2>3
<1>7. CASE ClosesDiagnosis \/ LeavesSettings \/ RestartsDesk \/ Plugs
  BY <1>1, <1>2, <1>7 DEF ClosesDiagnosis, LeavesSettings, RestartsDesk, Plugs, Cancels
<1> QED  BY <1>3, <1>4, <1>6, <1>7 DEF DeskStep, DeskActs, LockRuns, DeskElse

(* Every state of the two pages is well typed; in particular nobody waits  *)
(* for the lock of the reader twice, so its queue is bounded by its users. *)
THEOREM TypeCorrect == Spec => []TypeOK
<1> DEFINE Page == page \in {"settings", "admin"} /\ acts \in 0..MaxActs
<1>1. Init => DeskInv /\ Page
  <2> SUFFICES ASSUME Init  PROVE DeskInv /\ Page  OBVIOUS
  <2>1. DeskInit  BY DEF Init
  <2>2. OnceEach  BY <2>1 DEF DeskInit, OnceEach
  <2>3. \A d \in Diagnoses : ~Uses(d)  BY <2>1, SettingsAssumption DEF DeskInit, Uses
  <2>4. DeskHeld  BY <2>1, <2>3 DEF DeskInit, DeskHeld
  <2>5. Window  BY <2>1 DEF DeskInit, Window
  <2>6. Page  BY SettingsAssumption DEF Init
  <2> QED  BY <2>2, <2>4, <2>5, <2>6 DEF DeskInv
<1>2. DeskInv /\ [Next]_vars => DeskInv'
  <2> SUFFICES ASSUME DeskInv, [Next]_vars  PROVE DeskInv'  OBVIOUS
  <2>1. DeskStep \/ UNCHANGED deskVars
    BY DEF Next, UsesReader, LockGoesOn, GoesIn, DeskElseGoesOn, UsesTab, Elsewhere, MailGoesOn, Fails,
       OnDesk, OnTab, DeskStep, vars
  <2>2. CASE DeskStep  BY <2>2, DeskInvStep, WindowStep DEF DeskInv
  <2>3. CASE UNCHANGED deskVars
    BY <2>3 DEF deskVars, DeskInv, OnceEach, DeskHeld, Uses, Window
  <2> QED  BY <2>1, <2>2, <2>3
<1>3. Page /\ [Next]_vars => Page'
  BY SettingsAssumption DEF Next, UsesReader, LockGoesOn, GoesIn, DeskElseGoesOn, UsesTab, Elsewhere,
     MailGoesOn, Fails, OnDesk, OnTab, Asked, vars
<1>4. DeskInv => DeskTypeOK
  BY Distinct DEF DeskInv, OnceEach, DeskHeld, Window, DeskTypeOK
<1>5. MailInv => MailTypeOK  BY DEF MailInv, Typed
<1>6. MailInv /\ DeskInv /\ Page => TypeOK  BY <1>4, <1>5 DEF TypeOK
<1> QED  BY <1>1, <1>2, <1>3, <1>6, MailInvariant, PTL DEF Spec
-----------------------------------------------------------------------------
(* The administrator's pages (EmployeeEditor).                             *)

\* A field still to be written has a time, or the "N/A" that will be refused.
Sendable == \A s \in Pending : flow[s].kind = "edit" =>
                \A f \in flow[s].todo : flow[s].form[f] \in Times \cup {NA}

\* The dialogs stand on one another: a profile on an employee, an employee on a selection.
Stacked == (modal # NoForm => open) /\ (open => sel # NoUser)

\* Without an overlap there is one save at a time, and under the form of a profile only its own.
OneUnderWay ==
    /\ \A s, t \in Pending : flow[s] # NoSave /\ flow[t] # NoSave => s = t
    /\ modal # NoForm => \A s \in Pending : flow[s].kind \in {"idle", "profile"}

\* The form of a profile started from what is recorded, until its save has written it.
Unwritten(f) == f.kind = "profile" /\ f.stage = "asked"
FormFresh ==
    /\ \A s \in Pending : Unwritten(flow[s]) => flow[s].base = profile[flow[s].of]
    /\ modal # NoForm /\ (\A s \in Pending : flow[s] = NoSave \/ Unwritten(flow[s]))
          => modal.base = profile[sel.of]

\* What an edit has not to write any more is recorded as its form says.
Written(f) == row[<<f.of, f.date>>] # NoDay
              /\ \A k \in Fields \ f.todo : row[<<f.of, f.date>>][k] = f.form[k]
EditTold == \A s \in Pending : flow[s].kind = "edit" /\ flow[s].ok => Written(flow[s])

\* The list is as recorded but for what the save under way is about to tell it.
TrueOf(list, who) == \A e \in who : list[e] = Recorded(e)
Without(v, d) == [v EXCEPT !.days[d] = NoDay]
ButForDay(f) ==
    f.of \in DOMAIN users =>
        /\ users[f.of].profile = profile[f.of]
        /\ \A d \in Dates \ {f.date} : users[f.of].days[d] = row[<<f.of, d>>]
KeepsTrue(f) ==
    CASE f.kind = "edit" -> f.ok /\ TrueOf(users, DOMAIN users \ {f.of}) /\ ButForDay(f)
      [] f.kind = "delete" -> /\ TrueOf(users, DOMAIN users \ {f.of})
                              /\ Recorded(f.of) = IF f.done THEN Without(f.was, f.date) ELSE f.was
      [] f.kind = "profile" -> f.stage = "got" => TrueOf(f.got, DOMAIN f.got)
      [] f.kind = "mass" -> f.ok /\ (f.stage = "got" => f.todo = {} /\ TrueOf(f.got, DOMAIN f.got))
      [] OTHER -> TRUE
ListKept ==
    /\ Settled => TrueOf(users, DOMAIN users)
    /\ \A s \in Pending : KeepsTrue(flow[s])

EditorInv ==
    /\ EditorTypeOK /\ Sendable /\ Stacked
    /\ Calm({"overlap"}) => OneUnderWay
    /\ Calm({"overlap", "stale"}) => FormFresh
    /\ Calm({"overlap", "stale", "others"}) => EditTold
    /\ odd = {} => ListKept

-----------------------------------------------------------------------------
(* The saves, and what a step makes of one.                                *)

EditFlow == [kind : {"edit"}, of : Employees, date : Dates, form : Form, todo : SUBSET Fields, ok : BOOLEAN]
DeleteFlow == [kind : {"delete"}, of : Employees, was : View, date : Dates, done : BOOLEAN]
ProfileFlow == [kind : {"profile"}, of : Employees, base : Profile, form : Profile, list : List,
                stage : {"asked", "updated", "got"}, got : List]
MassFlow == [kind : {"mass"}, todo : SUBSET (Employees \X Fields), time : Times, ok : BOOLEAN,
             stage : {"asked", "got"}, got : List]
AnyFlow == Flow \cup {NoSave}

LEMMA FlowIs == Flow = EditFlow \cup DeleteFlow \cup ProfileFlow \cup MassFlow
  BY DEF Flow, EditFlow, DeleteFlow, ProfileFlow, MassFlow

LEMMA FlowParts ==
    ASSUME NEW f \in AnyFlow
    PROVE  /\ f = NoSave \/ f.kind \in {"edit", "delete", "profile", "mass"}
           /\ f.kind = "edit" => f \in EditFlow
           /\ f.kind = "delete" => f \in DeleteFlow
           /\ f.kind = "profile" => f \in ProfileFlow
           /\ f.kind = "mass" => f \in MassFlow
  BY FlowIs DEF AnyFlow, NoSave, EditFlow, DeleteFlow, ProfileFlow, MassFlow

LEMMA NoSaveKind == NoSave.kind = "idle"
  BY DEF NoSave

LEMMA FlowOf ==
    ASSUME EditorTypeOK, NEW s \in Pending
    PROVE  /\ flow[s] \in AnyFlow
           /\ flow[s].kind # "idle" <=> flow[s] # NoSave
  BY FlowParts, NoSaveKind DEF EditorTypeOK, AnyFlow

LEMMA FlowGoes ==
    ASSUME EditorTypeOK, NEW s \in Pending, NEW f, flow' = [flow EXCEPT ![s] = f]
    PROVE  /\ flow'[s] = f
           /\ \A t \in Pending \ {s} : flow'[t] = flow[t]
           /\ f \in AnyFlow => flow' \in [Pending -> AnyFlow]
  BY DEF EditorTypeOK, AnyFlow

\* An edit that has one field less to write, or that could not write it.
LEMMA EditMade ==
    ASSUME NEW f \in EditFlow, NEW k
    PROVE  LET x == [f EXCEPT !.todo = @ \ {k}]
               y == [f EXCEPT !.todo = @ \ {k}, !.ok = FALSE]
           IN  /\ x \in EditFlow /\ x.kind = "edit" /\ x.of = f.of /\ x.date = f.date /\ x.form = f.form
               /\ x.ok = f.ok /\ x.todo = f.todo \ {k}
               /\ y \in EditFlow /\ y.kind = "edit" /\ y.ok = FALSE /\ y.form = f.form
               /\ y.todo = f.todo \ {k}
  BY DEF EditFlow

LEMMA DeleteMade ==
    ASSUME NEW f \in DeleteFlow
    PROVE  LET x == [f EXCEPT !.done = TRUE]
           IN  /\ x \in DeleteFlow /\ x.kind = "delete" /\ x.of = f.of /\ x.date = f.date /\ x.was = f.was
               /\ x.done
  BY DEF DeleteFlow

LEMMA ProfileMade ==
    ASSUME NEW f \in ProfileFlow, NEW list \in List
    PROVE  LET x == [f EXCEPT !.stage = "updated"]
               y == [f EXCEPT !.stage = "got", !.got = list]
           IN  /\ x \in ProfileFlow /\ x.kind = "profile" /\ x.stage = "updated"
               /\ y \in ProfileFlow /\ y.kind = "profile" /\ y.stage = "got" /\ y.got = list
  BY DEF ProfileFlow

LEMMA MassLess ==
    ASSUME NEW f \in MassFlow, NEW c
    PROVE  LET x == [f EXCEPT !.todo = @ \ {c}]
               y == [f EXCEPT !.todo = @ \ {c}, !.ok = FALSE]
           IN  /\ x \in MassFlow /\ x.kind = "mass" /\ x.ok = f.ok /\ x.stage = f.stage
               /\ x.todo = f.todo \ {c} /\ x.got = f.got
               /\ y \in MassFlow /\ y.kind = "mass" /\ y.ok = FALSE
  BY DEF MassFlow

LEMMA MassGot ==
    ASSUME NEW f \in MassFlow, NEW list \in List
    PROVE  LET z == [f EXCEPT !.stage = "got", !.got = list]
           IN  /\ z \in MassFlow /\ z.kind = "mass" /\ z.ok = f.ok /\ z.stage = "got"
               /\ z.todo = f.todo /\ z.got = list
  BY DEF MassFlow

\* A day that is written has the field, and the others it had.
LEMMA WithType ==
    ASSUME NEW day \in Day \cup {NoDay}, NEW f \in Fields, NEW t \in Times
    PROVE  /\ With(day, f, t) \in Day
           /\ With(day, f, t)[f] = t
           /\ \A g \in Fields : g # f /\ day # NoDay => With(day, f, t)[g] = day[g]
           /\ With(day, f, t) # NoDay
<1> DEFINE from == IF day = NoDay THEN BlankDay ELSE day
<1>1. from \in Day
  BY DEF Day, BlankDay
<1>2. With(day, f, t) = [from EXCEPT ![f] = t]
  BY DEF With
<1> HIDE DEF from
<1>3. /\ With(day, f, t) \in Day
      /\ \A g \in Fields : With(day, f, t)[g] = IF g = f THEN t ELSE from[g]
  BY <1>1, <1>2 DEF Day
<1>4. DOMAIN With(day, f, t) = Fields
  BY <1>3 DEF Day
<1>5. DOMAIN NoDay = {}
  BY DEF NoDay
<1>6. With(day, f, t) # NoDay
  BY <1>4, <1>5
<1> QED BY <1>3, <1>6 DEF from

Lower == {pair \in Nat \X Nat : pair[1] < pair[2]}

LEMMA LowerWellFounded == IsWellFoundedOn(Lower, Nat)
<1>1. Lower = OpToRel(<, Nat)
  BY DEF Lower, OpToRel
<1> QED BY <1>1, NatLessThanWellFounded, Zenon

\* The next field to write is one of those left.
LEMMA FirstIs ==
    ASSUME NEW todo \in SUBSET Fields, todo # {}
    PROVE  First(todo) \in todo
<1> DEFINE T == {i \in DOMAIN Keys : Keys[i] \in todo}
<1>1. DOMAIN Keys \subseteq Nat /\ DOMAIN Keys = 1..Len(Keys) /\ Len(Keys) \in Nat
  BY EmployeeEditorAssumption
<1>2. T \subseteq Nat /\ T # {}
  BY <1>1 DEF Fields
<1>3. PICK i \in T : \A j \in T : ~(<<j, i>> \in Lower)
  <2> HIDE DEF T
  <2> QED BY <1>2, LowerWellFounded, WFMin
<1>4. \A j \in T : ~(j < i)
  <2> HIDE DEF T
  <2> QED BY <1>2, <1>3 DEF Lower
<1>5. i \in DOMAIN Keys /\ Keys[i] \in todo /\ \A j \in 1..(i - 1) : Keys[j] \notin todo
  BY <1>1, <1>3, <1>4
<1> DEFINE Least(k) == k \in DOMAIN Keys /\ Keys[k] \in todo /\ \A j \in 1..(k - 1) : Keys[j] \notin todo
<1>6. Least(CHOOSE k \in DOMAIN Keys : Keys[k] \in todo /\ \A j \in 1..(k - 1) : Keys[j] \notin todo)
  BY <1>5
<1> QED BY <1>6 DEF First

LEMMA RecordedType ==
    ASSUME EditorTypeOK, NEW e \in Employees
    PROVE  /\ Recorded(e) \in View
           /\ Recorded(e).profile = profile[e]
           /\ \A d \in Dates : Recorded(e).days[d] = row[<<e, d>>]
<1>1. Day \cup {NoDay} \subseteq Form \cup {NoDay}
  BY DEF Day, Form
<1>2. /\ \A d \in Dates : row[<<e, d>>] \in Form \cup {NoDay}
      /\ profile[e] \in Profile
  BY <1>1 DEF EditorTypeOK
<1>3. [d \in Dates |-> row[<<e, d>>]] \in [Dates -> Form \cup {NoDay}]
  BY <1>2
<1> QED BY <1>2, <1>3 DEF Recorded, View

LEMMA ListingType ==
    ASSUME EditorTypeOK, NEW list \in Listings
    PROVE  /\ list \in List
           /\ DOMAIN list \subseteq Employees
           /\ TrueOf(list, DOMAIN list)
<1>1. PICK S \in SUBSET Employees : list = [e \in S |-> Recorded(e)]
  BY DEF Listings
<1>2. list \in [S -> View]
  BY <1>1, RecordedType
<1> QED BY <1>1, <1>2 DEF List, TrueOf

-----------------------------------------------------------------------------
(* Type correctness, and what stands on what.                              *)

EditorRest ==
    /\ row \in [Employees \X Dates -> Day \cup {NoDay}]
    /\ profile \in [Employees -> Profile]
    /\ users \in List
    /\ open \in BOOLEAN /\ editing \in BOOLEAN
    /\ sel \in [of : Employees, was : View] \cup {NoUser}
    /\ date \in Dates \cup {""}
    /\ form \in Form
    /\ modal \in [base : Profile, form : Profile] \cup {NoForm}
    /\ keyed \in Nat /\ started \in Nat /\ odd \subseteq Oddities

LEMMA EditorTypedIs == EditorTypeOK <=> EditorRest /\ flow \in [Pending -> AnyFlow]
  BY DEF EditorTypeOK, EditorRest, AnyFlow

LEMMA EditorTypedNext == EditorRest' /\ flow' \in [Pending -> AnyFlow] => EditorTypeOK'
  BY DEF EditorTypeOK, EditorRest, AnyFlow

Selection == [of : Employees, was : View]

LEMMA SelectionIs ==
    ASSUME EditorTypeOK, Stacked
    PROVE  /\ open => sel \in Selection
           /\ modal # NoForm => open /\ modal \in [base : Profile, form : Profile] /\ sel \in Selection
  BY DEF EditorTypeOK, Stacked, Selection

LEMMA ListParts ==
    ASSUME NEW list \in List
    PROVE  DOMAIN list \subseteq Employees /\ list \in [DOMAIN list -> View]
  BY DEF List

LEMMA ListMade ==
    ASSUME NEW S \in SUBSET Employees, NEW list \in [S -> View]
    PROVE  list \in List
  BY DEF List

\* The list with another employee, or another day of one.
LEMMA ListPut ==
    ASSUME NEW list \in List, NEW e \in DOMAIN list, NEW v \in View
    PROVE  LET x == [list EXCEPT ![e] = v]
           IN  x \in List /\ DOMAIN x = DOMAIN list /\ x[e] = v /\ \A y \in DOMAIN list \ {e} : x[y] = list[y]
<1>1. list \in [DOMAIN list -> View] /\ DOMAIN list \in SUBSET Employees
  BY ListParts
<1> DEFINE x == [list EXCEPT ![e] = v]
<1>2. /\ x \in [DOMAIN list -> View] /\ DOMAIN x = DOMAIN list /\ x[e] = v
      /\ \A y \in DOMAIN list \ {e} : x[y] = list[y]
  BY <1>1
<1> HIDE DEF x
<1>3. x \in List
  BY <1>1, <1>2, ListMade
<1> QED BY <1>2, <1>3 DEF x

LEMMA ViewSet ==
    ASSUME NEW v \in View, NEW d \in Dates, NEW day \in Form \cup {NoDay}
    PROVE  LET x == [v EXCEPT !.days[d] = day]
           IN  /\ x \in View /\ x.profile = v.profile /\ x.days[d] = day
               /\ \A y \in Dates \ {d} : x.days[y] = v.days[y]
<1> DEFINE x == [v EXCEPT !.days[d] = day]
<1>1. x = [profile |-> v.profile, days |-> [v.days EXCEPT ![d] = day]]
  BY DEF View
<1>2. v.profile \in Profile /\ v.days \in [Dates -> Form \cup {NoDay}]
  BY DEF View
<1>3. x.profile = v.profile /\ x.days = [v.days EXCEPT ![d] = day]
  BY <1>1
<1>4. [v.days EXCEPT ![d] = day] \in [Dates -> Form \cup {NoDay}]
  BY <1>2
<1>5. x \in View
  BY <1>1, <1>2, <1>4 DEF View
<1> QED BY <1>2, <1>3, <1>5

LEMMA RowWritten ==
    ASSUME EditorTypeOK, NEW e \in Employees, NEW d \in Dates, NEW k \in Fields, NEW t \in Times,
           row' = [row EXCEPT ![<<e, d>>] = With(@, k, t)]
    PROVE  /\ row' \in [Employees \X Dates -> Day \cup {NoDay}]
           /\ row'[<<e, d>>] = With(row[<<e, d>>], k, t)
           /\ \A x \in Employees, y \in Dates : x # e \/ y # d => row'[<<x, y>>] = row[<<x, y>>]
<1>1. row \in [Employees \X Dates -> Day \cup {NoDay}] /\ <<e, d>> \in Employees \X Dates
  BY DEF EditorTypeOK
<1> DEFINE w == With(row[<<e, d>>], k, t)
<1>2. w \in Day
  BY <1>1, WithType
<1>3. row' = [row EXCEPT ![<<e, d>>] = w]
  OBVIOUS
<1> HIDE DEF w
<1>4. row'[<<e, d>>] = w /\ row' \in [Employees \X Dates -> Day \cup {NoDay}]
  BY <1>1, <1>2, <1>3
<1>5. \A x \in Employees, y \in Dates : x # e \/ y # d => row'[<<x, y>>] = row[<<x, y>>]
  BY <1>1, <1>3
<1> QED BY <1>4, <1>5 DEF w

LEMMA RowCleared ==
    ASSUME EditorTypeOK, NEW e \in Employees, NEW d \in Dates, row' = [row EXCEPT ![<<e, d>>] = NoDay]
    PROVE  /\ row' \in [Employees \X Dates -> Day \cup {NoDay}]
           /\ row'[<<e, d>>] = NoDay
           /\ \A x \in Employees, y \in Dates : x # e \/ y # d => row'[<<x, y>>] = row[<<x, y>>]
  BY DEF EditorTypeOK

LEMMA LoadedType ==
    ASSUME NEW u \in Selection, NEW d \in Dates \cup {""}
    PROVE  Loaded(u, d) \in Form
<1>1. Empty \in Form
  BY DEF Empty, Form
<1>2. ASSUME d \in Dates PROVE u.was.days[d] \in Form \cup {NoDay}
  BY <1>2 DEF Selection, View
<1> QED BY <1>1, <1>2 DEF Loaded

LEMMA SelectsType ==
    ASSUME EditorTypeOK, NEW u \in Selection, NEW d \in Dates \cup {""}, Selects(u, d)
    PROVE  /\ sel' = u /\ sel' \in Selection /\ date' \in Dates \cup {""} /\ form' \in Form
           /\ sel' # NoUser
<1>1. form' \in Form
  BY LoadedType DEF Selects, EditorTypeOK
<1>2. DOMAIN u = {"of", "was"}
  BY DEF Selection
<1>3. DOMAIN NoUser = {"of"}
  BY DEF NoUser
<1>4. ASSUME u = NoUser PROVE FALSE
  <2>1. DOMAIN u = DOMAIN NoUser
    BY <1>4
  <2>2. "was" \in {"of"}
    BY <1>2, <1>3, <2>1
  <2> QED BY <2>2
<1> QED BY <1>1, <1>4 DEF Selects

LEMMA EditorTypedInit == EditorInit => EditorTypeOK
<1> SUFFICES ASSUME EditorInit PROVE EditorTypeOK
  OBVIOUS
<1>1. row \in [Employees \X Dates -> Day \cup {NoDay}]
  <2> DEFINE t0 == CHOOSE t \in Times : TRUE
             d0 == [f \in Fields |-> IF f = Keys[1] THEN t0 ELSE NA]
  <2>1. t0 \in Times
    BY EmployeeEditorAssumption
  <2> HIDE DEF t0
  <2>2. d0 \in Day
    BY <2>1 DEF Day
  <2>3. row \in [Employees \X Dates -> {NoDay, d0}]
    BY DEF EditorInit, t0
  <2> HIDE DEF d0
  <2> QED BY <2>2, <2>3
<1>2. profile \in [Employees -> Profile]
  BY DEF EditorInit
<1>3. Empty \in Form
  BY DEF Empty, Form
<1>4. flow \in [Pending -> AnyFlow]
  BY DEF EditorInit, AnyFlow
<1>5. users \in List
  <2>1. PICK S \in SUBSET Employees : users = [e \in S |-> Recorded(e)]
    BY DEF EditorInit, Listings
  <2>2. Day \cup {NoDay} \subseteq Form \cup {NoDay}
    BY DEF Day, Form
  <2>3. \A e \in Employees : Recorded(e) \in View
    <3> TAKE e \in Employees
    <3>1. [d \in Dates |-> row[<<e, d>>]] \in [Dates -> Form \cup {NoDay}]
      BY <1>1, <2>2
    <3> QED BY <1>2, <3>1 DEF Recorded, View
  <2>4. users \in [S -> View]
    BY <2>1, <2>3
  <2> QED BY <2>4, ListMade
<1> QED BY <1>1, <1>2, <1>3, <1>4, <1>5, EditorTypedIs DEF EditorInit, EditorRest

EditorSound == EditorTypeOK /\ Sendable /\ Stacked

LEMMA SoundGoes ==
    ASSUME EditorSound, EditorRest', Stacked', NEW s \in Pending, NEW f \in AnyFlow,
           f.kind = "edit" => \A k \in f.todo : f.form[k] \in Times \cup {NA},
           flow' = [flow EXCEPT ![s] = f]
    PROVE  EditorSound'
<1>1. EditorTypeOK'
  BY FlowGoes, EditorTypedNext DEF EditorSound
<1>2. Sendable'
  BY FlowGoes DEF EditorSound, Sendable
<1> QED BY <1>1, <1>2 DEF EditorSound

LEMMA SoundStays ==
    ASSUME EditorSound, EditorRest', Stacked', UNCHANGED flow
    PROVE  EditorSound'
<1>1. EditorTypeOK'
  BY EditorTypedNext, EditorTypedIs DEF EditorSound
<1>2. Sendable'
  BY DEF EditorSound, Sendable
<1> QED BY <1>1, <1>2 DEF EditorSound

LEMMA SoundParts ==
    ASSUME EditorSound
    PROVE  /\ EditorTypeOK /\ EditorRest /\ Sendable /\ Stacked
           /\ open => sel \in Selection
           /\ modal # NoForm => open /\ modal \in [base : Profile, form : Profile] /\ sel \in Selection
  BY SelectionIs, EditorTypedIs DEF EditorSound

LEMMA OddGrows ==
    ASSUME odd \subseteq Oddities, NEW what, IsOdd(what)
    PROVE  odd' \subseteq Oddities /\ odd \subseteq odd' /\ what \subseteq odd'
  BY EmployeeEditorAssumption DEF IsOdd

LEMMA SoundWritesField ==
    ASSUME EditorSound, NEW s \in Pending, WritesField(s)
    PROVE  EditorSound'
<1>1. EditorTypeOK /\ EditorRest /\ Sendable /\ Stacked
  BY SoundParts
<1> DEFINE f == flow[s]
           k == First(f.todo)
           x == [f EXCEPT !.todo = @ \ {k}]
           y == [f EXCEPT !.todo = @ \ {k}, !.ok = FALSE]
<1>2. f \in EditFlow /\ f.todo \in SUBSET Fields /\ f.todo # {} /\ f.of \in Employees /\ f.date \in Dates
  BY <1>1, FlowOf, FlowParts DEF WritesField, EditFlow
<1>3. k \in f.todo /\ k \in Fields
  BY <1>2, FirstIs
<1>4. f.form[k] \in Times \cup {NA} /\ \A g \in f.todo : f.form[g] \in Times \cup {NA}
  BY <1>1, <1>2, <1>3 DEF Sendable, EditFlow
<1>5. /\ x \in EditFlow /\ x.form = f.form /\ x.todo = f.todo \ {k}
      /\ y \in EditFlow /\ y.form = f.form /\ y.todo = f.todo \ {k}
  <2> HIDE DEF k, f
  <2> QED BY <1>2, EditMade
<1>6. x \in AnyFlow /\ y \in AnyFlow
  BY <1>5, FlowIs DEF AnyFlow
<1>7. /\ UNCHANGED <<profile, users, dialogState, keyed, started>>
      /\ \/ /\ f.form[k] # NA /\ row' = [row EXCEPT ![<<f.of, f.date>>] = With(@, k, f.form[k])]
            /\ Goes(s, x) /\ UNCHANGED odd
         \/ IsOdd({"fail"}) /\ Goes(s, y) /\ UNCHANGED row
  BY DEF WritesField
<1> HIDE DEF x, y, k, f
<1>8. Stacked'
  BY <1>1, <1>7 DEF Stacked, dialogState
<1>9. CASE /\ f.form[k] # NA /\ row' = [row EXCEPT ![<<f.of, f.date>>] = With(@, k, f.form[k])]
           /\ Goes(s, x) /\ UNCHANGED odd
  <2>1. f.form[k] \in Times
    BY <1>4, <1>9
  <2>2. row' \in [Employees \X Dates -> Day \cup {NoDay}]
    BY <1>1, <1>2, <1>3, <1>9, <2>1, RowWritten
  <2>3. EditorRest'
    BY <1>1, <1>7, <1>9, <2>2 DEF EditorRest, dialogState
  <2> QED BY <1>4, <1>5, <1>6, <1>8, <1>9, <2>3, SoundGoes DEF Goes
<1>10. CASE IsOdd({"fail"}) /\ Goes(s, y) /\ UNCHANGED row
  <2>1. EditorRest'
    BY <1>1, <1>7, <1>10, OddGrows DEF EditorRest, dialogState
  <2> QED BY <1>4, <1>5, <1>6, <1>8, <1>10, <2>1, SoundGoes DEF Goes
<1> QED BY <1>7, <1>9, <1>10

LEMMA NoSaveSound == NoSave \in AnyFlow /\ NoSave.kind # "edit"
  BY DEF NoSave, AnyFlow

LEMMA SoundEndsEdit ==
    ASSUME EditorSound, NEW s \in Pending, EndsEdit(s)
    PROVE  EditorSound'
<1>1. EditorTypeOK /\ EditorRest /\ Sendable /\ Stacked
  BY SoundParts
<1> DEFINE f == flow[s]
<1>2. f \in EditFlow /\ f.of \in Employees /\ f.date \in Dates /\ f.form \in Form /\ f.ok \in BOOLEAN
  BY <1>1, FlowOf, FlowParts DEF EndsEdit, EditFlow
<1>3. /\ users' = IF f.ok /\ f.of \in DOMAIN users THEN [users EXCEPT ![f.of].days[f.date] = f.form] ELSE users
      /\ editing' = (editing /\ ~f.ok) /\ Goes(s, NoSave)
      /\ UNCHANGED <<row, profile, open, sel, date, form, modal, keyed, started, odd>>
  BY DEF EndsEdit
<1> HIDE DEF f
<1>4. users' \in List
  <2>1. users \in List /\ users \in [DOMAIN users -> View]
    BY <1>1, ListParts DEF EditorRest
  <2>2. ASSUME f.of \in DOMAIN users PROVE [users EXCEPT ![f.of].days[f.date] = f.form] \in List
    <3> DEFINE v == [users[f.of] EXCEPT !.days[f.date] = f.form]
    <3>1. v \in View
      BY <1>2, <2>1, <2>2, ViewSet
    <3>2. [users EXCEPT ![f.of].days[f.date] = f.form] = [users EXCEPT ![f.of] = v]
      OBVIOUS
    <3> HIDE DEF v
    <3> QED BY <2>1, <2>2, <3>1, <3>2, ListPut
  <2> QED BY <1>3, <2>1, <2>2
<1>5. editing' \in BOOLEAN
  BY <1>3
<1>6. EditorRest' /\ Stacked'
  BY <1>1, <1>3, <1>4, <1>5 DEF EditorRest, Stacked
<1> QED BY <1>3, <1>6, NoSaveSound, SoundGoes DEF Goes

LEMMA SoundDeletesDay ==
    ASSUME EditorSound, NEW s \in Pending, DeletesDay(s)
    PROVE  EditorSound'
<1>1. EditorTypeOK /\ EditorRest /\ Sendable /\ Stacked
  BY SoundParts
<1> DEFINE f == flow[s]
           x == [f EXCEPT !.done = TRUE]
<1>2. f \in DeleteFlow /\ f.of \in Employees /\ f.date \in Dates
  BY <1>1, FlowOf, FlowParts DEF DeletesDay, DeleteFlow
<1>3. x \in AnyFlow /\ x.kind # "edit"
  <2>1. x \in DeleteFlow /\ x.kind = "delete"
    BY <1>2, DeleteMade
  <2> HIDE DEF x
  <2> QED BY <2>1, FlowIs DEF AnyFlow
<1>4. /\ UNCHANGED <<profile, users, dialogState, keyed, started>>
      /\ \/ row' = [row EXCEPT ![<<f.of, f.date>>] = NoDay] /\ Goes(s, x) /\ UNCHANGED odd
         \/ IsOdd({"fail"}) /\ Goes(s, NoSave) /\ UNCHANGED row
  BY DEF DeletesDay
<1> HIDE DEF x, f
<1>5. Stacked'
  BY <1>1, <1>4 DEF Stacked, dialogState
<1>6. CASE row' = [row EXCEPT ![<<f.of, f.date>>] = NoDay] /\ Goes(s, x) /\ UNCHANGED odd
  <2>1. EditorRest'
    BY <1>1, <1>2, <1>4, <1>6, RowCleared DEF EditorRest, dialogState
  <2> QED BY <1>3, <1>5, <1>6, <2>1, SoundGoes DEF Goes
<1>7. CASE IsOdd({"fail"}) /\ Goes(s, NoSave) /\ UNCHANGED row
  <2>1. EditorRest'
    BY <1>1, <1>4, <1>7, OddGrows DEF EditorRest, dialogState
  <2> QED BY <1>5, <1>7, <2>1, NoSaveSound, SoundGoes DEF Goes
<1> QED BY <1>4, <1>6, <1>7

LEMMA BlankType == Empty \in Form /\ NoDay \in Form \cup {NoDay}
  BY DEF Empty, Form

LEMMA SelectionMade ==
    ASSUME NEW e \in Employees, NEW v \in View
    PROVE  [of |-> e, was |-> v] \in Selection /\ [of |-> e, was |-> v] # NoUser
<1>1. DOMAIN [of |-> e, was |-> v] = {"of", "was"}
  OBVIOUS
<1>2. DOMAIN NoUser = {"of"}
  BY DEF NoUser
<1> QED BY <1>1, <1>2 DEF Selection

LEMMA SoundEndsDelete ==
    ASSUME EditorSound, NEW s \in Pending, EndsDelete(s)
    PROVE  EditorSound'
<1>1. EditorTypeOK /\ EditorRest /\ Sendable /\ Stacked
  BY SoundParts
<1> DEFINE f == flow[s]
           left == [f.was EXCEPT !.days[f.date] = NoDay]
<1>2. f \in DeleteFlow /\ f.of \in Employees /\ f.date \in Dates /\ f.was \in View
  BY <1>1, FlowOf, FlowParts DEF EndsDelete, DeleteFlow
<1>3. /\ users' = IF f.of \in DOMAIN users THEN [users EXCEPT ![f.of] = left] ELSE users
      /\ sel' = [of |-> f.of, was |-> left]
      /\ date' = "" /\ form' = Empty /\ editing' = FALSE /\ Goes(s, NoSave)
      /\ UNCHANGED <<row, profile, open, modal, keyed, started, odd>>
  BY DEF EndsDelete
<1>4. left \in View
  BY <1>2, BlankType, ViewSet
<1> HIDE DEF left, f
<1>5. users' \in List
  BY <1>1, <1>3, <1>4, ListPut DEF EditorRest
<1>6. sel' \in Selection /\ sel' # NoUser
  BY <1>2, <1>3, <1>4, SelectionMade
<1>7. EditorRest' /\ Stacked'
  BY <1>1, <1>3, <1>5, <1>6, BlankType DEF EditorRest, Stacked, Selection
<1> QED BY <1>3, <1>7, NoSaveSound, SoundGoes DEF Goes

LEMMA SoundProfile ==
    ASSUME EditorSound, NEW s \in Pending, UpdatesProfile(s) \/ GetsList(s) \/ EndsProfile(s)
    PROVE  EditorSound'
<1>1. EditorTypeOK /\ EditorRest /\ Sendable /\ Stacked
  BY SoundParts
<1> DEFINE f == flow[s]
           x == [f EXCEPT !.stage = "updated"]
<1>2. /\ f \in ProfileFlow /\ f.of \in Employees /\ f.form \in Profile
      /\ f.list \in List /\ f.got \in List
  BY <1>1, FlowOf, FlowParts DEF UpdatesProfile, GetsList, EndsProfile, ProfileFlow
<1>3. CASE UpdatesProfile(s)
  <2>1. /\ UNCHANGED <<row, users, dialogState, keyed, started>>
        /\ \/ profile' = [profile EXCEPT ![f.of] = f.form] /\ Goes(s, x) /\ UNCHANGED odd
           \/ IsOdd({"fail"}) /\ Goes(s, NoSave) /\ UNCHANGED profile
    BY <1>3 DEF UpdatesProfile
  <2>2. x \in AnyFlow /\ x.kind # "edit"
    <3>1. users \in List
      BY <1>1 DEF EditorRest
    <3>2. x \in ProfileFlow /\ x.kind = "profile"
      <4> HIDE DEF f
      <4> QED BY <1>2, <3>1, ProfileMade
    <3> HIDE DEF x
    <3> QED BY <3>2, FlowIs DEF AnyFlow
  <2> HIDE DEF x, f
  <2>3. Stacked'
    BY <1>1, <2>1 DEF Stacked, dialogState
  <2>4. CASE profile' = [profile EXCEPT ![f.of] = f.form] /\ Goes(s, x) /\ UNCHANGED odd
    <3>1. profile' \in [Employees -> Profile]
      BY <1>1, <1>2, <2>4 DEF EditorRest
    <3>2. EditorRest'
      BY <1>1, <2>1, <2>4, <3>1 DEF EditorRest, dialogState
    <3> QED BY <2>2, <2>3, <2>4, <3>2, SoundGoes DEF Goes
  <2>5. CASE IsOdd({"fail"}) /\ Goes(s, NoSave) /\ UNCHANGED profile
    <3>1. EditorRest'
      BY <1>1, <2>1, <2>5, OddGrows DEF EditorRest, dialogState
    <3> QED BY <2>3, <2>5, <3>1, NoSaveSound, SoundGoes DEF Goes
  <2> QED BY <2>1, <2>4, <2>5
<1>4. CASE GetsList(s)
  <2>1. PICK list \in Listings : Goes(s, [f EXCEPT !.stage = "got", !.got = list])
    BY <1>4 DEF GetsList
  <2> DEFINE z == [f EXCEPT !.stage = "got", !.got = list]
  <2>2. list \in List
    BY <1>1, ListingType
  <2>3. z \in AnyFlow /\ z.kind # "edit"
    <3>1. z \in ProfileFlow /\ z.kind = "profile"
      <4> HIDE DEF f
      <4> QED BY <1>2, <2>2, ProfileMade
    <3> HIDE DEF z
    <3> QED BY <3>1, FlowIs DEF AnyFlow
  <2>4. EditorRest' /\ Stacked'
    BY <1>1, <1>4 DEF GetsList, EditorRest, Stacked, dialogState
  <2> HIDE DEF z
  <2>5. Goes(s, z)
    BY <2>1 DEF z
  <2> QED BY <2>3, <2>4, <2>5, SoundGoes DEF Goes
<1>5. CASE EndsProfile(s)
  <2>1. /\ users' = f.got /\ modal' = NoForm /\ Goes(s, NoSave)
        /\ IF f.of \in DOMAIN f.list THEN Selects([of |-> f.of, was |-> f.list[f.of]], date)
                                     ELSE UNCHANGED <<sel, date, form>>
        /\ UNCHANGED <<row, profile, open, editing, keyed, started, odd>>
    BY <1>5 DEF EndsProfile
  <2> HIDE DEF f
  <2>2. /\ sel' \in Selection \cup {NoUser} /\ date' \in Dates \cup {""} /\ form' \in Form
        /\ sel # NoUser => sel' # NoUser
    <3>1. CASE f.of \in DOMAIN f.list
      <4> DEFINE u == [of |-> f.of, was |-> f.list[f.of]]
      <4>1. f.list[f.of] \in View
        BY <1>2, <3>1, ListParts
      <4>2. u \in Selection
        BY <1>2, <4>1, SelectionMade
      <4>3. Selects(u, date) /\ date \in Dates \cup {""}
        BY <1>1, <2>1, <3>1 DEF EditorRest
      <4> HIDE DEF u
      <4> QED BY <1>1, <4>2, <4>3, SelectsType
    <3>2. CASE f.of \notin DOMAIN f.list
      BY <1>1, <2>1, <3>2 DEF EditorRest, Selection
    <3> QED BY <3>1, <3>2
  <2>3. EditorRest' /\ Stacked'
    BY <1>1, <1>2, <2>1, <2>2 DEF EditorRest, Stacked, Selection
  <2> QED BY <2>1, <2>3, NoSaveSound, SoundGoes DEF Goes
<1> QED BY <1>3, <1>4, <1>5

LEMMA SoundMany ==
    ASSUME EditorSound, NEW s \in Pending, WritesOne(s) \/ EndsMany(s)
    PROVE  EditorSound'
<1>1. EditorTypeOK /\ EditorRest /\ Sendable /\ Stacked
  BY SoundParts
<1> DEFINE f == flow[s]
<1>2. f \in MassFlow /\ f.todo \in SUBSET (Employees \X Fields) /\ f.time \in Times /\ f.got \in List
  BY <1>1, FlowOf, FlowParts DEF WritesOne, EndsMany, MassFlow
<1>3. users \in List /\ Today \in Dates
  BY <1>1, EmployeeEditorAssumption DEF EditorRest
<1>4. CASE WritesOne(s)
  <2>1. PICK c \in f.todo :
           \/ /\ row' = [row EXCEPT ![<<c[1], Today>>] = With(@, c[2], f.time)]
              /\ Goes(s, [f EXCEPT !.todo = @ \ {c}]) /\ UNCHANGED odd
           \/ /\ IsOdd({"fail"}) /\ Goes(s, [f EXCEPT !.todo = @ \ {c}, !.ok = FALSE]) /\ UNCHANGED row
    BY <1>4 DEF WritesOne
  <2>2. UNCHANGED <<profile, users, dialogState, keyed, started>>
    BY <1>4 DEF WritesOne
  <2> DEFINE x == [f EXCEPT !.todo = @ \ {c}]
             y == [f EXCEPT !.todo = @ \ {c}, !.ok = FALSE]
  <2>3. x \in MassFlow /\ x.kind = "mass" /\ y \in MassFlow /\ y.kind = "mass"
    <3> HIDE DEF f
    <3> QED BY <1>2, MassLess
  <2>4. \/ row' = [row EXCEPT ![<<c[1], Today>>] = With(@, c[2], f.time)] /\ Goes(s, x) /\ UNCHANGED odd
        \/ IsOdd({"fail"}) /\ Goes(s, y) /\ UNCHANGED row
    BY <2>1
  <2> HIDE DEF x, y, f
  <2>5. x \in AnyFlow /\ x.kind # "edit" /\ y \in AnyFlow /\ y.kind # "edit"
    BY <2>3, FlowIs DEF AnyFlow
  <2>6. c[1] \in Employees /\ c[2] \in Fields
    BY <1>2
  <2>7. Stacked'
    BY <1>1, <2>2 DEF Stacked, dialogState
  <2>8. CASE row' = [row EXCEPT ![<<c[1], Today>>] = With(@, c[2], f.time)] /\ Goes(s, x) /\ UNCHANGED odd
    <3>1. row' \in [Employees \X Dates -> Day \cup {NoDay}]
      BY <1>1, <1>2, <1>3, <2>6, <2>8, RowWritten
    <3>2. EditorRest'
      BY <1>1, <2>2, <2>8, <3>1 DEF EditorRest, dialogState
    <3> QED BY <2>5, <2>7, <2>8, <3>2, SoundGoes DEF Goes
  <2>9. CASE IsOdd({"fail"}) /\ Goes(s, y) /\ UNCHANGED row
    <3>1. EditorRest'
      BY <1>1, <2>2, <2>9, OddGrows DEF EditorRest, dialogState
    <3> QED BY <2>5, <2>7, <2>9, <3>1, SoundGoes DEF Goes
  <2> QED BY <2>4, <2>8, <2>9
<1>5. CASE EndsMany(s)
  <2>1. UNCHANGED <<row, profile, dialogState, keyed, started, odd>>
    BY <1>5 DEF EndsMany
  <2>2. \/ Goes(s, NoSave) /\ users' \in {users, f.got}
        \/ UNCHANGED users /\ \E list \in Listings : Goes(s, [f EXCEPT !.stage = "got", !.got = list])
    BY <1>5 DEF EndsMany
  <2>3. users' \in List
    BY <1>2, <1>3, <2>2
  <2>4. EditorRest' /\ Stacked'
    BY <1>1, <2>1, <2>3 DEF EditorRest, Stacked, dialogState
  <2>5. CASE Goes(s, NoSave)
    BY <2>4, <2>5, NoSaveSound, SoundGoes DEF Goes
  <2>6. CASE \E list \in Listings : Goes(s, [f EXCEPT !.stage = "got", !.got = list])
    <3>1. PICK list \in Listings : Goes(s, [f EXCEPT !.stage = "got", !.got = list])
      BY <2>6
    <3> DEFINE z == [f EXCEPT !.stage = "got", !.got = list]
    <3>2. list \in List
      BY <1>1, ListingType
    <3>3. z \in MassFlow /\ z.kind = "mass"
      <4> HIDE DEF f
      <4> QED BY <1>2, <3>2, MassGot
    <3>4. Goes(s, z)
      BY <3>1
    <3> HIDE DEF z
    <3>5. z \in AnyFlow /\ z.kind # "edit"
      BY <3>3, FlowIs DEF AnyFlow
    <3> QED BY <2>4, <3>4, <3>5, SoundGoes DEF Goes
  <2> QED BY <2>2, <2>5, <2>6
<1> QED BY <1>4, <1>5

LEMMA StartsType ==
    ASSUME EditorRest, NEW s \in Pending, NEW f, Starts(s, f)
    PROVE  started' \in Nat /\ flow' = [flow EXCEPT ![s] = f]
<1>1. started \in Nat /\ started' = started + 1
  BY DEF Starts, EditorRest
<1>2. started' \in Nat
  BY <1>1
<1> QED BY <1>2 DEF Starts

LEMMA KeyedType ==
    ASSUME EditorRest, keyed' = keyed + 1
    PROVE  keyed' \in Nat
<1>1. keyed \in Nat
  BY DEF EditorRest
<1> QED BY <1>1

\* The day shown is one of the employee selected.
LEMMA ShownDay ==
    ASSUME NEW u \in Selection, NEW d \in Dates, u.was.days[d] # NoDay
    PROVE  u.of \in Employees /\ u.was \in View /\ u.was.days[d] \in Form
  BY DEF Selection, View

LEMMA SoundSaves ==
    ASSUME EditorSound, NEW s \in Pending, Saves(s)
    PROVE  EditorSound'
<1>1. EditorTypeOK /\ EditorRest /\ Sendable /\ Stacked /\ sel \in Selection
  BY SoundParts DEF Saves, InFront
<1> DEFINE modified == {f \in Fields : form[f] # sel.was.days[date][f]}
           sent == [f \in Fields |-> IF f \in modified /\ form[f] = "" THEN NA ELSE form[f]]
           x == [kind |-> "edit", of |-> sel.of, date |-> date, form |-> sent, todo |-> modified, ok |-> TRUE]
<1>2. form' = sent /\ Starts(s, x)
  BY DEF Saves
<1>3. IsOdd(Overlap \cup Stale) /\ UNCHANGED <<row, profile, users, open, sel, date, editing, modal, keyed>>
  BY DEF Saves
<1>4. date \in Dates /\ sel.was.days[date] # NoDay
  BY DEF Saves, HasDayData, SortedDates
<1>5. form \in Form
  BY <1>1 DEF EditorRest
<1>6. modified \in SUBSET Fields
  OBVIOUS
<1> HIDE DEF modified
<1>7. sent \in Form /\ \A f \in modified : sent[f] \in Times \cup {NA}
  BY <1>5, <1>6 DEF Form
<1> HIDE DEF sent
<1>8. x \in EditFlow /\ x.todo = modified /\ x.form = sent
  BY <1>1, <1>4, <1>6, <1>7, ShownDay DEF EditFlow
<1> HIDE DEF x
<1>9. x \in AnyFlow
  BY <1>8, FlowIs DEF AnyFlow
<1>10. started' \in Nat /\ flow' = [flow EXCEPT ![s] = x]
  BY <1>1, <1>2, StartsType
<1>11. EditorRest' /\ Stacked'
  BY <1>1, <1>2, <1>3, <1>7, <1>10, OddGrows DEF EditorRest, Stacked
<1> QED BY <1>7, <1>8, <1>9, <1>10, <1>11, SoundGoes

LEMMA SoundDeletes ==
    ASSUME EditorSound, NEW s \in Pending, Deletes(s)
    PROVE  EditorSound'
<1>1. EditorTypeOK /\ EditorRest /\ Sendable /\ Stacked /\ sel \in Selection
  BY SoundParts DEF Deletes, InFront
<1> DEFINE x == [kind |-> "delete", of |-> sel.of, was |-> sel.was, date |-> date, done |-> FALSE]
<1>2. /\ Starts(s, x) /\ IsOdd(Overlap \cup Stale)
      /\ UNCHANGED <<row, profile, users, dialogState, keyed>>
  BY DEF Deletes
<1>3. date \in Dates /\ sel.was.days[date] # NoDay
  BY DEF Deletes, HasDayData, SortedDates
<1>4. x \in DeleteFlow /\ x.kind = "delete"
  BY <1>1, <1>3, ShownDay DEF DeleteFlow
<1> HIDE DEF x
<1>5. x \in AnyFlow /\ x.kind # "edit"
  BY <1>4, FlowIs DEF AnyFlow
<1>6. started' \in Nat /\ flow' = [flow EXCEPT ![s] = x]
  BY <1>1, <1>2, StartsType
<1>7. EditorRest' /\ Stacked'
  BY <1>1, <1>2, <1>6, OddGrows DEF EditorRest, Stacked, dialogState
<1> QED BY <1>5, <1>6, <1>7, SoundGoes

LEMMA SoundSavesProfile ==
    ASSUME EditorSound, NEW s \in Pending, SavesProfile(s)
    PROVE  EditorSound'
<1>1. /\ EditorTypeOK /\ EditorRest /\ Sendable /\ Stacked /\ sel \in Selection
      /\ modal \in [base : Profile, form : Profile]
  BY SoundParts DEF SavesProfile
<1> DEFINE x == [kind |-> "profile", of |-> sel.of, base |-> modal.base, form |-> modal.form,
                 list |-> users, stage |-> "asked", got |-> users]
<1>2. /\ Starts(s, x) /\ IsOdd(Overlap \cup Stale)
      /\ UNCHANGED <<row, profile, users, dialogState, keyed>>
  BY DEF SavesProfile
<1>3. users \in List /\ sel.of \in Employees
  BY <1>1 DEF EditorRest, Selection
<1>4. x \in ProfileFlow /\ x.kind = "profile"
  BY <1>1, <1>3 DEF ProfileFlow
<1> HIDE DEF x
<1>5. x \in AnyFlow /\ x.kind # "edit"
  BY <1>4, FlowIs DEF AnyFlow
<1>6. started' \in Nat /\ flow' = [flow EXCEPT ![s] = x]
  BY <1>1, <1>2, StartsType
<1>7. EditorRest' /\ Stacked'
  BY <1>1, <1>2, <1>6, OddGrows DEF EditorRest, Stacked, dialogState
<1> QED BY <1>5, <1>6, <1>7, SoundGoes

LEMMA SoundChangesMany ==
    ASSUME EditorSound, NEW s \in Pending, NEW chosen \in SUBSET Employees, NEW f \in Fields, NEW t \in Times,
           ChangesMany(s, chosen, f, t)
    PROVE  EditorSound'
<1>1. EditorTypeOK /\ EditorRest /\ Sendable /\ Stacked
  BY SoundParts
<1> DEFINE x == [kind |-> "mass", todo |-> chosen \X {f}, time |-> t, ok |-> TRUE,
                 stage |-> "asked", got |-> users]
<1>2. /\ Starts(s, x) /\ IsOdd(Overlap) /\ keyed' = keyed + 1
      /\ UNCHANGED <<row, profile, users, dialogState>>
  BY DEF ChangesMany
<1>3. users \in List /\ chosen \X {f} \in SUBSET (Employees \X Fields)
  BY <1>1 DEF EditorRest
<1>4. x \in MassFlow /\ x.kind = "mass"
  BY <1>3 DEF MassFlow
<1> HIDE DEF x
<1>5. x \in AnyFlow /\ x.kind # "edit"
  BY <1>4, FlowIs DEF AnyFlow
<1>6. started' \in Nat /\ flow' = [flow EXCEPT ![s] = x]
  BY <1>1, <1>2, StartsType
<1>7. keyed' \in Nat /\ odd' \subseteq Oddities
  BY <1>1, <1>2, KeyedType, OddGrows DEF EditorRest
<1>8. EditorRest' /\ Stacked'
  BY <1>1, <1>2, <1>6, <1>7 DEF EditorRest, Stacked, dialogState
<1> QED BY <1>5, <1>6, <1>8, SoundGoes

\* What happens in the dialog without a save, and elsewhere.
DialogStep ==
    \/ \E e \in Employees : Opens(e)
    \/ \E d \in Dates : SelectsDate(d)
    \/ \E f \in Fields, text \in Times \cup {""} : Types(f, text)
    \/ \E p \in Profile : OpensProfile(p)
    \/ Closes \/ Enables \/ CancelsProfile \/ Refreshes

LEMMA SoundDialog ==
    ASSUME EditorSound, DialogStep
    PROVE  EditorSound' /\ UNCHANGED <<row, profile, flow>>
<1>1. /\ EditorTypeOK /\ EditorRest /\ Sendable /\ Stacked
      /\ open => sel \in Selection
      /\ modal # NoForm => open /\ modal \in [base : Profile, form : Profile] /\ sel \in Selection
  BY SoundParts
<1>2. ASSUME NEW e \in Employees, Opens(e) PROVE EditorRest' /\ Stacked' /\ UNCHANGED <<row, profile, flow>>
  <2> DEFINE u == [of |-> e, was |-> users[e]]
  <2>1. users[e] \in View /\ date \in Dates \cup {""}
    BY <1>1, <1>2, ListParts DEF Opens, EditorRest
  <2>2. u \in Selection
    BY <2>1, SelectionMade
  <2>3. /\ open' = TRUE /\ Selects(u, date)
        /\ UNCHANGED <<row, profile, users, editing, modal, flow, keyed, started, odd>>
    BY <1>2 DEF Opens
  <2> HIDE DEF u
  <2>4. sel' \in Selection /\ date' \in Dates \cup {""} /\ form' \in Form /\ sel' # NoUser
    BY <1>1, <2>1, <2>2, <2>3, SelectsType
  <2> QED BY <1>1, <2>3, <2>4 DEF EditorRest, Stacked, Selection
<1>3. ASSUME NEW d \in Dates, SelectsDate(d) PROVE EditorRest' /\ Stacked' /\ UNCHANGED <<row, profile, flow>>
  <2>1. /\ Selects(sel, d) /\ sel \in Selection /\ d \in Dates \cup {""}
        /\ UNCHANGED <<row, profile, users, open, editing, modal, flow, keyed, started, odd>>
    BY <1>1, <1>3 DEF SelectsDate, InFront
  <2>2. sel' \in Selection /\ date' \in Dates \cup {""} /\ form' \in Form /\ sel' # NoUser
    BY <1>1, <2>1, SelectsType
  <2> QED BY <1>1, <2>1, <2>2 DEF EditorRest, Stacked, Selection
<1>4. ASSUME NEW f \in Fields, NEW text \in Times \cup {""}, Types(f, text)
      PROVE  EditorRest' /\ Stacked' /\ UNCHANGED <<row, profile, flow>>
  <2>1. form' \in Form
    BY <1>1, <1>4 DEF Types, EditorRest, Form
  <2>2. keyed' \in Nat
    BY <1>1, <1>4, KeyedType DEF Types
  <2> QED BY <1>1, <1>4, <2>1, <2>2 DEF Types, EditorRest, Stacked
<1>5. ASSUME NEW p \in Profile, OpensProfile(p) PROVE EditorRest' /\ Stacked' /\ UNCHANGED <<row, profile, flow>>
  <2>1. sel \in Selection /\ open
    BY <1>1, <1>5 DEF OpensProfile, InFront
  <2>2. sel.was.profile \in Profile
    BY <2>1 DEF Selection, View
  <2>3. modal' \in [base : Profile, form : Profile]
    BY <1>5, <2>2 DEF OpensProfile
  <2>4. odd' \subseteq Oddities /\ keyed' \in Nat
    BY <1>1, <1>5, OddGrows, KeyedType DEF OpensProfile, EditorRest
  <2>5. UNCHANGED <<row, profile, users, open, sel, date, form, editing, flow, started>>
    BY <1>5 DEF OpensProfile
  <2>6. EditorRest'
    BY <1>1, <2>3, <2>4, <2>5 DEF EditorRest
  <2>7. Stacked'
    BY <1>1, <2>1, <2>5 DEF Stacked
  <2> QED BY <2>5, <2>6, <2>7
<1>6. ASSUME Closes PROVE EditorRest' /\ Stacked' /\ UNCHANGED <<row, profile, flow>>
  BY <1>1, <1>6, BlankType DEF Closes, InFront, EditorRest, Stacked
<1>7. ASSUME Enables PROVE EditorRest' /\ Stacked' /\ UNCHANGED <<row, profile, flow>>
  <2>1. editing' \in BOOLEAN
    BY <1>1, <1>7 DEF Enables
  <2> QED BY <1>1, <1>7, <2>1 DEF Enables, EditorRest, Stacked
<1>8. ASSUME CancelsProfile PROVE EditorRest' /\ Stacked' /\ UNCHANGED <<row, profile, flow>>
  BY <1>1, <1>8 DEF CancelsProfile, EditorRest, Stacked
<1>9. ASSUME Refreshes PROVE EditorRest' /\ Stacked' /\ UNCHANGED <<row, profile, flow>>
  <2>1. users' \in List
    BY <1>1, <1>9, ListingType DEF Refreshes
  <2> QED BY <1>1, <1>9, <2>1, BlankType DEF Refreshes, EditorRest, Stacked
<1>10. EditorRest' /\ Stacked' /\ UNCHANGED <<row, profile, flow>>
  BY <1>2, <1>3, <1>4, <1>5, <1>6, <1>7, <1>8, <1>9 DEF DialogStep
<1> QED BY <1>10, SoundStays

LEMMA SoundOthers ==
    ASSUME EditorSound, OthersWrite
    PROVE  EditorSound'
<1>1. EditorTypeOK /\ EditorRest /\ Sendable /\ Stacked
  BY SoundParts
<1>2. PICK e \in Employees, d \in Dates, f \in Fields, t \in Times :
         row' = [row EXCEPT ![<<e, d>>] = With(@, f, t)]
  <2>1. PICK day \in Employees \X Dates, f \in Fields, t \in Times : row' = [row EXCEPT ![day] = With(@, f, t)]
    BY DEF OthersWrite
  <2>2. day = <<day[1], day[2]>> /\ day[1] \in Employees /\ day[2] \in Dates
    OBVIOUS
  <2> QED BY <2>1, <2>2
<1>3. row' \in [Employees \X Dates -> Day \cup {NoDay}]
  BY <1>1, <1>2, RowWritten
<1>4. IsOdd({"others"}) /\ UNCHANGED <<profile, users, dialogState, flow, keyed, started>>
  BY DEF OthersWrite
<1>5. EditorRest' /\ Stacked'
  BY <1>1, <1>3, <1>4, OddGrows DEF EditorRest, Stacked, dialogState
<1> QED BY <1>4, <1>5, SoundStays

\* The steps of the page: a save begins or goes on, the dialog, or another terminal.
LEMMA EditorSteps ==
    ASSUME EditorNext
    PROVE  \/ \E s \in Pending : Proceeds(s)
           \/ \E s \in Pending : Clicks(s)
           \/ DialogStep
           \/ OthersWrite
  BY DEF EditorNext, DialogStep

LEMMA SoundStep ==
    ASSUME EditorSound, [EditorNext]_editorVars
    PROVE  EditorSound'
<1>1. ASSUME NEW s \in Pending, Proceeds(s) PROVE EditorSound'
  BY <1>1, SoundWritesField, SoundEndsEdit, SoundDeletesDay, SoundEndsDelete, SoundProfile, SoundMany
     DEF Proceeds
<1>2. ASSUME NEW s \in Pending, Clicks(s) PROVE EditorSound'
  BY <1>2, SoundSaves, SoundDeletes, SoundSavesProfile, SoundChangesMany DEF Clicks
<1>3. ASSUME UNCHANGED editorVars PROVE EditorSound'
  <2>1. EditorRest /\ Stacked
    BY SoundParts
  <2>2. EditorRest' /\ Stacked' /\ UNCHANGED flow
    BY <1>3, <2>1 DEF editorVars, EditorRest, Stacked
  <2> QED BY <2>2, SoundStays
<1> QED BY <1>1, <1>2, <1>3, SoundDialog, SoundOthers, EditorSteps

-----------------------------------------------------------------------------
(* One save at a time.                                                     *)

\* What a save that goes on leaves alone.
LEMMA GoesOnFrame ==
    ASSUME EditorSound, NEW s \in Pending, Proceeds(s)
    PROVE  /\ flow[s] # NoSave /\ odd \subseteq odd'
           /\ \A t \in Pending \ {s} : flow'[t] = flow[t]
           /\ flow'[s] = NoSave \/ flow'[s].kind = flow[s].kind
           /\ modal' \in {modal, NoForm}
           /\ flow[s].kind # "profile" => profile' = profile
           /\ flow[s].kind \notin {"delete", "profile"} => sel' = sel
           /\ UpdatesProfile(s) \/ GetsList(s) => sel' = sel
<1>1. EditorTypeOK
  BY SoundParts
<1> DEFINE f == flow[s]
<1>2. PICK g : flow' = [flow EXCEPT ![s] = g] /\ (g = NoSave \/ g.kind = f.kind)
  <2>1. f \in AnyFlow
    BY <1>1, FlowOf
  <2>2. CASE WritesField(s)
    <3>1. f \in EditFlow
      BY <2>1, <2>2, FlowParts DEF WritesField
    <3> DEFINE x == [f EXCEPT !.todo = @ \ {First(f.todo)}]
               y == [f EXCEPT !.todo = @ \ {First(f.todo)}, !.ok = FALSE]
    <3>2. Goes(s, x) \/ Goes(s, y)
      BY <2>2 DEF WritesField
    <3>3. x.kind = f.kind /\ y.kind = f.kind
      BY <3>1 DEF EditFlow
    <3> HIDE DEF x, y
    <3> QED BY <3>2, <3>3 DEF Goes
  <2>3. CASE EndsEdit(s) \/ EndsDelete(s) \/ EndsProfile(s)
    BY <2>3 DEF EndsEdit, EndsDelete, EndsProfile, Goes
  <2>4. CASE DeletesDay(s)
    <3>1. f \in DeleteFlow
      BY <2>1, <2>4, FlowParts DEF DeletesDay
    <3> DEFINE x == [f EXCEPT !.done = TRUE]
    <3>2. Goes(s, x) \/ Goes(s, NoSave)
      BY <2>4 DEF DeletesDay
    <3>3. x.kind = f.kind
      BY <3>1 DEF DeleteFlow
    <3> HIDE DEF x
    <3> QED BY <3>2, <3>3 DEF Goes
  <2>5. CASE UpdatesProfile(s)
    <3>1. f \in ProfileFlow
      BY <2>1, <2>5, FlowParts DEF UpdatesProfile
    <3> DEFINE x == [f EXCEPT !.stage = "updated"]
    <3>2. Goes(s, x) \/ Goes(s, NoSave)
      BY <2>5 DEF UpdatesProfile
    <3>3. x.kind = f.kind
      BY <3>1 DEF ProfileFlow
    <3> HIDE DEF x
    <3> QED BY <3>2, <3>3 DEF Goes
  <2>6. CASE GetsList(s)
    <3>1. f \in ProfileFlow
      BY <2>1, <2>6, FlowParts DEF GetsList
    <3>2. PICK list \in Listings : Goes(s, [f EXCEPT !.stage = "got", !.got = list])
      BY <2>6 DEF GetsList
    <3> DEFINE x == [f EXCEPT !.stage = "got", !.got = list]
    <3>3. x.kind = f.kind /\ Goes(s, x)
      BY <3>1, <3>2 DEF ProfileFlow
    <3> HIDE DEF x
    <3> QED BY <3>3 DEF Goes
  <2>7. CASE WritesOne(s)
    <3>1. f \in MassFlow
      BY <2>1, <2>7, FlowParts DEF WritesOne
    <3>2. PICK c \in f.todo : \/ Goes(s, [f EXCEPT !.todo = @ \ {c}])
                              \/ Goes(s, [f EXCEPT !.todo = @ \ {c}, !.ok = FALSE])
      BY <2>7 DEF WritesOne
    <3> DEFINE x == [f EXCEPT !.todo = @ \ {c}]
               y == [f EXCEPT !.todo = @ \ {c}, !.ok = FALSE]
    <3>3. Goes(s, x) \/ Goes(s, y)
      BY <3>2
    <3>4. x.kind = f.kind /\ y.kind = f.kind
      BY <3>1 DEF MassFlow
    <3> HIDE DEF x, y
    <3> QED BY <3>3, <3>4 DEF Goes
  <2>8. CASE EndsMany(s)
    <3>1. f \in MassFlow
      BY <2>1, <2>8, FlowParts DEF EndsMany
    <3>2. Goes(s, NoSave) \/ \E list \in Listings : Goes(s, [f EXCEPT !.stage = "got", !.got = list])
      BY <2>8 DEF EndsMany
    <3>3. CASE Goes(s, NoSave)
      BY <3>3 DEF Goes
    <3>4. CASE \E list \in Listings : Goes(s, [f EXCEPT !.stage = "got", !.got = list])
      <4>1. PICK list \in Listings : Goes(s, [f EXCEPT !.stage = "got", !.got = list])
        BY <3>4
      <4> DEFINE x == [f EXCEPT !.stage = "got", !.got = list]
      <4>2. x.kind = f.kind /\ Goes(s, x)
        BY <3>1, <4>1 DEF MassFlow
      <4> HIDE DEF x
      <4> QED BY <4>2 DEF Goes
    <3> QED BY <3>2, <3>3, <3>4
  <2> QED BY <2>2, <2>3, <2>4, <2>5, <2>6, <2>7, <2>8 DEF Proceeds
<1>3. flow'[s] = g /\ \A t \in Pending \ {s} : flow'[t] = flow[t]
  BY <1>1, <1>2, FlowGoes
<1>4. flow[s] # NoSave
  BY NoSaveKind DEF Proceeds, WritesField, EndsEdit, DeletesDay, EndsDelete, UpdatesProfile, GetsList,
                    EndsProfile, WritesOne, EndsMany
<1>5. odd \subseteq odd'
  <2>1. UNCHANGED odd \/ IsOdd({"fail"})
    BY DEF Proceeds, WritesField, EndsEdit, DeletesDay, EndsDelete, UpdatesProfile, GetsList,
           EndsProfile, WritesOne, EndsMany
  <2> QED BY <2>1 DEF IsOdd
<1>6. modal' \in {modal, NoForm}
  BY DEF Proceeds, WritesField, EndsEdit, DeletesDay, EndsDelete, UpdatesProfile, GetsList,
         EndsProfile, WritesOne, EndsMany, dialogState
<1>7. flow[s].kind # "profile" => profile' = profile
  BY DEF Proceeds, WritesField, EndsEdit, DeletesDay, EndsDelete, UpdatesProfile, GetsList,
         EndsProfile, WritesOne, EndsMany
<1>8. flow[s].kind \notin {"delete", "profile"} => sel' = sel
  BY DEF Proceeds, WritesField, EndsEdit, DeletesDay, EndsDelete, UpdatesProfile, GetsList,
         EndsProfile, WritesOne, EndsMany, dialogState
<1>9. UpdatesProfile(s) \/ GetsList(s) => sel' = sel
  BY DEF UpdatesProfile, GetsList, dialogState
<1> QED BY <1>2, <1>3, <1>4, <1>5, <1>6, <1>7, <1>8, <1>9

\* What a save that begins leaves alone, and when it begins.
LEMMA BeginsFrame ==
    ASSUME EditorSound, NEW s \in Pending, Clicks(s)
    PROVE  /\ flow[s] = NoSave /\ odd \subseteq odd' /\ ("overlap" \notin odd' => Settled)
           /\ ~(\E c \in SUBSET Employees, f \in Fields, t \in Times : ChangesMany(s, c, f, t))
                 => ("stale" \notin odd' => sel.was = Recorded(sel.of)) /\ sel \in Selection
           /\ \A t \in Pending \ {s} : flow'[t] = flow[t]
           /\ flow'[s].kind \in {"edit", "delete", "profile", "mass"}
           /\ flow'[s].kind # "profile" => modal = NoForm
           /\ UNCHANGED <<row, profile, users, sel, modal>>
<1>1. EditorTypeOK /\ Stacked /\ EditorRest /\ (open => sel \in Selection)
      /\ (modal # NoForm => sel \in Selection)
  BY SoundParts
<1>2. PICK g : Starts(s, g) /\ g.kind \in {"edit", "delete", "profile", "mass"}
               /\ (g.kind # "profile" => modal = NoForm)
  <2>1. CASE Saves(s)
    BY <2>1 DEF Saves, InFront
  <2>2. CASE Deletes(s)
    BY <2>2 DEF Deletes, InFront
  <2>3. CASE SavesProfile(s)
    BY <2>3 DEF SavesProfile
  <2>4. ASSUME NEW c \in SUBSET Employees, NEW f \in Fields, NEW t \in Times, ChangesMany(s, c, f, t)
        PROVE  \E g : Starts(s, g) /\ g.kind = "mass" /\ modal = NoForm
    BY <1>1, <2>4 DEF ChangesMany, Stacked
  <2> QED BY <2>1, <2>2, <2>3, <2>4 DEF Clicks
<1>3. /\ flow[s] = NoSave /\ flow'[s] = g /\ \A t \in Pending \ {s} : flow'[t] = flow[t]
  BY <1>1, <1>2, FlowGoes DEF Starts
<1>4. UNCHANGED <<row, profile, users, sel, modal>>
  BY DEF Clicks, Saves, Deletes, SavesProfile, ChangesMany, dialogState
<1>5. odd \subseteq odd' /\ Overlap \subseteq odd'
  BY DEF Clicks, Saves, Deletes, SavesProfile, ChangesMany, IsOdd
<1>6. "overlap" \notin odd' => Settled
  BY <1>5 DEF Overlap
<1>7. ASSUME Saves(s) \/ Deletes(s) \/ SavesProfile(s)
      PROVE  ("stale" \notin odd' => sel.was = Recorded(sel.of)) /\ sel \in Selection
  <2>1. Stale \subseteq odd'
    BY <1>7 DEF Saves, Deletes, SavesProfile, IsOdd
  <2>2. sel \in Selection
    BY <1>1, <1>7 DEF Saves, Deletes, SavesProfile, InFront
  <2> QED BY <2>1, <2>2 DEF Stale
<1>8. Saves(s) \/ Deletes(s) \/ SavesProfile(s)
      \/ \E c \in SUBSET Employees, f \in Fields, t \in Times : ChangesMany(s, c, f, t)
  BY DEF Clicks
<1> QED BY <1>2, <1>3, <1>4, <1>5, <1>6, <1>7, <1>8

\* What the dialog leaves alone.
LEMMA DialogFrame ==
    ASSUME EditorSound, DialogStep
    PROVE  /\ UNCHANGED <<row, profile, flow>> /\ odd \subseteq odd'
           /\ users' = users \/ (users' \in Listings /\ Settled)
           /\ \/ modal' = modal /\ (modal # NoForm => sel' = sel)
              \/ modal' = NoForm
              \/ /\ sel' = sel /\ modal'.base = sel.was.profile /\ sel \in Selection
                 /\ "overlap" \notin odd' => Settled
                 /\ "stale" \notin odd' => sel.was = Recorded(sel.of)
<1>1. Stacked /\ (open => sel \in Selection)
  BY SoundParts
<1>2. UNCHANGED <<row, profile, flow>>
  BY SoundDialog
<1>3. odd \subseteq odd'
  BY DEF DialogStep, Opens, SelectsDate, Types, OpensProfile, Closes, Enables, CancelsProfile, Refreshes, IsOdd
<1>4. users' = users \/ (users' \in Listings /\ Settled)
  BY DEF DialogStep, Opens, SelectsDate, Types, OpensProfile, Closes, Enables, CancelsProfile, Refreshes
<1>5. ASSUME ~(\E p \in Profile : OpensProfile(p))
      PROVE  (modal' = modal /\ (modal # NoForm => sel' = sel)) \/ modal' = NoForm
  BY <1>1, <1>5 DEF DialogStep, Opens, SelectsDate, Selects, Types, Closes, Enables, CancelsProfile, Refreshes,
                    InFront, Stacked
<1>6. ASSUME NEW p \in Profile, OpensProfile(p)
      PROVE  /\ sel' = sel /\ modal'.base = sel.was.profile /\ sel \in Selection
             /\ "overlap" \notin odd' => Settled
             /\ "stale" \notin odd' => sel.was = Recorded(sel.of)
  <2>1. Overlap \subseteq odd' /\ Stale \subseteq odd'
    BY <1>6 DEF OpensProfile, IsOdd
  <2>2. sel' = sel /\ modal'.base = sel.was.profile /\ sel \in Selection
    BY <1>1, <1>6 DEF OpensProfile, InFront
  <2> QED BY <2>1, <2>2 DEF Overlap, Stale
<1> QED BY <1>2, <1>3, <1>4, <1>5, <1>6

LEMMA OthersFrame ==
    ASSUME OthersWrite
    PROVE  /\ UNCHANGED <<profile, users, sel, modal, flow>> /\ odd \subseteq odd'
           /\ "others" \in odd'
  BY DEF OthersWrite, dialogState, IsOdd

\* What a save of a day says, and of whom.
SavedDay(s) ==
    LET modified == {f \in Fields : form[f] # sel.was.days[date][f]}
    IN  [kind |-> "edit", of |-> sel.of, date |-> date,
         form |-> [f \in Fields |-> IF f \in modified /\ form[f] = "" THEN NA ELSE form[f]],
         todo |-> modified, ok |-> TRUE]

LEMMA SavesParts ==
    ASSUME EditorSound, NEW s \in Pending, Saves(s)
    PROVE  /\ flow'[s] = SavedDay(s) /\ Starts(s, SavedDay(s))
           /\ date \in Dates /\ sel.was.days[date] # NoDay
           /\ flow'[s].kind = "edit" /\ flow'[s].of = sel.of /\ flow'[s].date = date /\ flow'[s].ok
           /\ \A k \in Fields \ flow'[s].todo : flow'[s].form[k] = sel.was.days[date][k]
<1>1. Starts(s, SavedDay(s))
  BY Zenon DEF Saves, SavedDay
<1>2. flow'[s] = SavedDay(s)
  BY <1>1, FlowGoes, SoundParts DEF Starts
<1>3. date \in Dates /\ sel.was.days[date] # NoDay
  BY DEF Saves, HasDayData, SortedDates
<1>4. /\ SavedDay(s).kind = "edit" /\ SavedDay(s).of = sel.of /\ SavedDay(s).date = date /\ SavedDay(s).ok
      /\ \A k \in Fields \ SavedDay(s).todo : SavedDay(s).form[k] = sel.was.days[date][k]
  BY DEF SavedDay
<1> QED BY <1>1, <1>2, <1>3, <1>4

LEMMA EditorOddStays ==
    ASSUME EditorSound, [EditorNext]_editorVars
    PROVE  odd \subseteq odd'
  BY GoesOnFrame, BeginsFrame, DialogFrame, OthersFrame, EditorSteps DEF editorVars

LEMMA IdleKind == \A f : f = NoSave => f.kind = "idle"
  BY NoSaveKind

LEMMA OneUnderWayStep ==
    ASSUME EditorSound, OneUnderWay, [EditorNext]_editorVars, "overlap" \notin odd'
    PROVE  OneUnderWay'
<1>1. ASSUME NEW s \in Pending, Proceeds(s) PROVE OneUnderWay'
  <2>1. /\ flow[s] # NoSave /\ \A t \in Pending \ {s} : flow'[t] = flow[t]
        /\ flow'[s] = NoSave \/ flow'[s].kind = flow[s].kind
        /\ modal' \in {modal, NoForm}
    BY <1>1, GoesOnFrame
  <2>2. \A t \in Pending \ {s} : flow'[t] = NoSave
    BY <2>1 DEF OneUnderWay
  <2> QED BY <2>1, <2>2, NoSaveKind DEF OneUnderWay
<1>2. ASSUME NEW s \in Pending, Clicks(s) PROVE OneUnderWay'
  <2>1. /\ Settled /\ \A t \in Pending \ {s} : flow'[t] = flow[t]
        /\ flow'[s].kind # "profile" => modal = NoForm
        /\ modal' = modal
    BY <1>2, BeginsFrame
  <2>2. \A t \in Pending \ {s} : flow'[t] = NoSave
    BY <2>1 DEF Settled
  <2> QED BY <2>1, <2>2, NoSaveKind DEF OneUnderWay
<1>3. ASSUME DialogStep PROVE OneUnderWay'
  <2>1. flow' = flow /\ (modal' \in {modal, NoForm} \/ Settled)
    BY <1>3, DialogFrame
  <2> QED BY <2>1, NoSaveKind DEF OneUnderWay, Settled
<1>4. ASSUME UNCHANGED <<flow, modal>> PROVE OneUnderWay'
  BY <1>4 DEF OneUnderWay
<1> QED BY <1>1, <1>2, <1>3, <1>4, EditorSteps, OthersFrame DEF editorVars

-----------------------------------------------------------------------------
(* The profile of the form.                                                *)

LEMMA FormFreshStep ==
    ASSUME EditorSound, OneUnderWay, FormFresh, [EditorNext]_editorVars,
           "overlap" \notin odd', "stale" \notin odd'
    PROVE  FormFresh'
<1>1. \A t \in Pending : Unwritten(flow[t]) => flow[t].base = profile[flow[t].of]
  BY DEF FormFresh
<1>2. modal # NoForm /\ (\A t \in Pending : flow[t] = NoSave \/ Unwritten(flow[t]))
         => modal.base = profile[sel.of]
  BY DEF FormFresh
<1>3. ASSUME NEW s \in Pending, Proceeds(s) PROVE FormFresh'
  <2>1. /\ flow[s] # NoSave /\ \A t \in Pending \ {s} : flow'[t] = flow[t]
        /\ flow'[s] = NoSave \/ flow'[s].kind = flow[s].kind
        /\ modal' \in {modal, NoForm}
        /\ flow[s].kind # "profile" => profile' = profile
        /\ UpdatesProfile(s) \/ GetsList(s) => sel' = sel
    BY <1>3, GoesOnFrame
  <2>2. \A t \in Pending \ {s} : flow'[t] = NoSave
    BY <2>1 DEF OneUnderWay
  <2>3. \A t \in Pending : t # s => ~Unwritten(flow'[t])
    BY <2>2, NoSaveKind DEF Unwritten
  <2>4. CASE flow[s].kind # "profile"
    <3>1. ~Unwritten(flow'[s])
      BY <2>1, <2>4, NoSaveKind DEF Unwritten
    <3>2. modal = NoForm
      BY <2>1, <2>4, FlowOf, SoundParts DEF OneUnderWay
    <3> QED BY <2>1, <2>3, <3>1, <3>2 DEF FormFresh
  <2>5. CASE flow[s].kind = "profile"
    <3>1. CASE UpdatesProfile(s)
      <4>1. \/ Goes(s, [flow[s] EXCEPT !.stage = "updated"])
            \/ Goes(s, NoSave) /\ UNCHANGED profile
        BY <3>1 DEF UpdatesProfile
      <4>2. modal' = modal /\ sel' = sel /\ flow[s].stage = "asked"
        BY <2>1, <3>1 DEF UpdatesProfile, dialogState
      <4>3. CASE Goes(s, [flow[s] EXCEPT !.stage = "updated"])
        <5> DEFINE x == [flow[s] EXCEPT !.stage = "updated"]
        <5>1. x.stage = "updated" /\ x.kind = "profile"
          BY <2>5, FlowOf, FlowParts, SoundParts DEF ProfileFlow
        <5>2. flow'[s] = x
          BY <4>3, FlowGoes, SoundParts DEF Goes
        <5> HIDE DEF x
        <5>3. ~Unwritten(flow'[s]) /\ flow'[s] # NoSave
          BY <5>1, <5>2, NoSaveKind DEF Unwritten
        <5> QED BY <2>3, <5>3 DEF FormFresh
      <4>4. CASE Goes(s, NoSave) /\ UNCHANGED profile
        <5>1. flow'[s] = NoSave
          BY <4>4, FlowGoes, SoundParts DEF Goes
        <5>2. ~Unwritten(flow'[s])
          BY <5>1, NoSaveKind DEF Unwritten
        <5>3. \A t \in Pending : flow[t] = NoSave \/ Unwritten(flow[t])
          BY <2>1, <2>5, <4>2 DEF OneUnderWay, Unwritten
        <5> QED BY <1>2, <2>3, <4>2, <4>4, <5>2, <5>3 DEF FormFresh
      <4> QED BY <4>1, <4>3, <4>4
    <3>2. CASE GetsList(s)
      <4>1. PICK list \in Listings : Goes(s, [flow[s] EXCEPT !.stage = "got", !.got = list])
        BY <3>2 DEF GetsList
      <4> DEFINE x == [flow[s] EXCEPT !.stage = "got", !.got = list]
      <4>2. x.stage = "got" /\ x.kind = "profile"
        BY <2>5, FlowOf, FlowParts, SoundParts DEF ProfileFlow
      <4>3. flow'[s] = x
        BY <4>1, FlowGoes, SoundParts DEF Goes
      <4> HIDE DEF x
      <4>4. ~Unwritten(flow'[s]) /\ flow'[s] # NoSave
        BY <4>2, <4>3, NoSaveKind DEF Unwritten
      <4> QED BY <2>3, <4>4 DEF FormFresh
    <3>3. CASE EndsProfile(s)
      <4>1. modal' = NoForm /\ Goes(s, NoSave)
        BY <3>3 DEF EndsProfile
      <4>2. flow'[s] = NoSave
        BY <4>1, FlowGoes, SoundParts DEF Goes
      <4>3. ~Unwritten(flow'[s])
        BY <4>2, NoSaveKind DEF Unwritten
      <4> QED BY <2>3, <4>1, <4>3 DEF FormFresh
    <3> QED BY <1>3, <2>5, <3>1, <3>2, <3>3
            DEF Proceeds, WritesField, EndsEdit, DeletesDay, EndsDelete, WritesOne, EndsMany
  <2> QED BY <2>4, <2>5
<1>4. ASSUME NEW s \in Pending, Clicks(s) PROVE FormFresh'
  <2>1. /\ Settled /\ \A t \in Pending \ {s} : flow'[t] = flow[t]
        /\ flow'[s].kind # "profile" => modal = NoForm
        /\ UNCHANGED <<profile, sel, modal>>
    BY <1>4, BeginsFrame
  <2>2. \A t \in Pending : t # s => ~Unwritten(flow'[t])
    BY <2>1, NoSaveKind DEF Unwritten, Settled
  <2>3. modal # NoForm => modal.base = profile[sel.of]
    BY <1>2, <2>1 DEF Settled
  <2>4. Unwritten(flow'[s]) => flow'[s].base = profile[flow'[s].of]
    <3>1. CASE SavesProfile(s)
      <4> DEFINE x == [kind |-> "profile", of |-> sel.of, base |-> modal.base, form |-> modal.form,
                       list |-> users, stage |-> "asked", got |-> users]
      <4>1. Starts(s, x) /\ modal # NoForm
        BY <3>1 DEF SavesProfile
      <4>2. x.of = sel.of /\ x.base = modal.base
        OBVIOUS
      <4> HIDE DEF x
      <4>3. flow'[s] = x
        BY <4>1, FlowGoes, SoundParts DEF Starts
      <4> QED BY <2>3, <4>1, <4>2, <4>3
    <3>2. CASE ~SavesProfile(s)
      <4>1. \E x : Starts(s, x) /\ x.kind \in {"edit", "delete", "mass"}
        <5>1. CASE Saves(s)
          BY <5>1, SavesParts
        <5>2. CASE Deletes(s)
          BY <5>2 DEF Deletes
        <5>3. ASSUME NEW c \in SUBSET Employees, NEW f \in Fields, NEW t \in Times, ChangesMany(s, c, f, t)
              PROVE  \E x : Starts(s, x) /\ x.kind = "mass"
          BY <5>3 DEF ChangesMany
        <5> QED BY <1>4, <3>2, <5>1, <5>2, <5>3 DEF Clicks
      <4>2. flow'[s].kind \in {"edit", "delete", "mass"}
        BY <4>1, FlowGoes, SoundParts DEF Starts
      <4> QED BY <4>2 DEF Unwritten
    <3> QED BY <3>1, <3>2
  <2> QED BY <2>1, <2>2, <2>3, <2>4 DEF FormFresh
<1>5. ASSUME DialogStep PROVE FormFresh'
  <2>1. UNCHANGED <<profile, flow>>
    BY <1>5, DialogFrame
  <2>2. modal' # NoForm /\ (\A t \in Pending : flow[t] = NoSave \/ Unwritten(flow[t]))
           => modal'.base = profile[sel'.of]
    <3>1. CASE modal' = modal /\ (modal # NoForm => sel' = sel)
      BY <1>2, <3>1
    <3>2. CASE modal'.base = sel.was.profile /\ sel' = sel /\ sel \in Selection /\ sel.was = Recorded(sel.of)
      <4>1. sel.of \in Employees
        BY <3>2 DEF Selection
      <4> QED BY <3>2, <4>1, RecordedType, SoundParts
    <3> QED BY <1>5, <3>1, <3>2, DialogFrame
  <2> QED BY <1>1, <2>1, <2>2 DEF FormFresh
<1>6. ASSUME UNCHANGED <<profile, sel, modal, flow>> PROVE FormFresh'
  BY <1>6 DEF FormFresh
<1> QED BY <1>3, <1>4, <1>5, <1>6, EditorSteps, OthersFrame DEF editorVars

-----------------------------------------------------------------------------
(* What an edit has written.                                               *)

LEMMA EditToldStep ==
    ASSUME EditorSound, OneUnderWay, EditTold, [EditorNext]_editorVars,
           "overlap" \notin odd', "stale" \notin odd', "others" \notin odd'
    PROVE  EditTold'
<1>1. ASSUME NEW s \in Pending, Proceeds(s) PROVE EditTold'
  <2>1. /\ flow[s] # NoSave /\ \A t \in Pending \ {s} : flow'[t] = flow[t]
        /\ flow'[s] = NoSave \/ flow'[s].kind = flow[s].kind
    BY <1>1, GoesOnFrame
  <2>2. \A t \in Pending : t # s => flow'[t].kind # "edit"
    BY <2>1, NoSaveKind DEF OneUnderWay
  <2>3. CASE flow'[s].kind # "edit" \/ ~flow'[s].ok
    BY <2>2, <2>3 DEF EditTold
  <2>4. CASE flow'[s].kind = "edit" /\ flow'[s].ok
    <3> DEFINE f == flow[s]
               k == First(f.todo)
               x == [f EXCEPT !.todo = @ \ {k}]
               y == [f EXCEPT !.todo = @ \ {k}, !.ok = FALSE]
    <3>1. f.kind = "edit" /\ flow'[s] # NoSave
      BY <2>1, <2>4, NoSaveKind
    <3>2. f \in EditFlow /\ f.of \in Employees /\ f.date \in Dates /\ f.todo \in SUBSET Fields
      BY <3>1, FlowOf, FlowParts, SoundParts DEF EditFlow
    <3>3. WritesField(s)
      <4>1. ~EndsEdit(s)
        BY <3>1, FlowGoes, SoundParts DEF EndsEdit, Goes
      <4> QED BY <1>1, <3>1, <4>1 DEF Proceeds, DeletesDay, EndsDelete, UpdatesProfile, GetsList, EndsProfile,
                                      WritesOne, EndsMany
    <3>4. /\ \/ f.form[k] # NA /\ row' = [row EXCEPT ![<<f.of, f.date>>] = With(@, k, f.form[k])] /\ Goes(s, x)
             \/ Goes(s, y)
          /\ f.todo # {}
      BY <3>3 DEF WritesField
    <3>5. /\ x.of = f.of /\ x.date = f.date /\ x.form = f.form /\ x.ok = f.ok /\ x.todo = f.todo \ {k}
          /\ y.ok = FALSE
      <4> HIDE DEF f, k
      <4> QED BY <3>2, EditMade
    <3> HIDE DEF x, y
    <3>6. ~Goes(s, y)
      BY <2>4, <3>5, FlowGoes, SoundParts DEF Goes
    <3>7. flow'[s] = x
      BY <3>4, <3>6, FlowGoes, SoundParts DEF Goes
    <3>8. k \in f.todo /\ k \in Fields
      <4> HIDE DEF f
      <4> QED BY <3>2, <3>4, FirstIs
    <3>9. f.form[k] \in Times
      BY <3>1, <3>4, <3>6, <3>8, SoundParts DEF Sendable
    <3>10. f.ok
      BY <2>4, <3>5, <3>7
    <3>11. row[<<f.of, f.date>>] # NoDay /\ \A g \in Fields \ f.todo : row[<<f.of, f.date>>][g] = f.form[g]
      BY <3>1, <3>10 DEF EditTold, Written
    <3>12. row[<<f.of, f.date>>] \in Day \cup {NoDay}
      BY <3>2, SoundParts DEF EditorRest
    <3> HIDE DEF f, k
    <3>13. row'[<<f.of, f.date>>] = With(row[<<f.of, f.date>>], k, f.form[k])
      BY <3>2, <3>4, <3>6, <3>8, <3>9, RowWritten, SoundParts
    <3> DEFINE day == row[<<f.of, f.date>>]
               t == f.form[k]
    <3>14. /\ With(day, k, t)[k] = t /\ With(day, k, t) # NoDay
           /\ \A g \in Fields : g # k => With(day, k, t)[g] = day[g]
      <4>1. day # NoDay /\ day \in Day \cup {NoDay} /\ t \in Times
        BY <3>9, <3>11, <3>12
      <4> HIDE DEF day, t
      <4> QED BY <3>8, <4>1, WithType
    <3>15. /\ row'[<<x.of, x.date>>] # NoDay
           /\ \A g \in Fields \ x.todo : row'[<<x.of, x.date>>][g] = x.form[g]
      BY <3>5, <3>11, <3>13, <3>14
    <3> QED BY <2>2, <3>7, <3>15 DEF EditTold, Written
  <2> QED BY <2>3, <2>4
<1>2. ASSUME NEW s \in Pending, Clicks(s) PROVE EditTold'
  <2>1. /\ Settled /\ \A t \in Pending \ {s} : flow'[t] = flow[t]
        /\ row' = row
    BY <1>2, BeginsFrame
  <2>2. \A t \in Pending : t # s => flow'[t].kind # "edit"
    BY <2>1, NoSaveKind DEF Settled
  <2>3. CASE Saves(s)
    <3>1. /\ date \in Dates /\ sel.was.days[date] # NoDay
          /\ flow'[s].of = sel.of /\ flow'[s].date = date
          /\ \A k \in Fields \ flow'[s].todo : flow'[s].form[k] = sel.was.days[date][k]
      BY <2>3, SavesParts
    <3>2. sel.was = Recorded(sel.of) /\ sel \in Selection
      <4>1. ~\E c \in SUBSET Employees, f \in Fields, t \in Times : ChangesMany(s, c, f, t)
        BY <2>3 DEF Saves, ChangesMany, InFront
      <4> QED BY <1>2, <4>1, BeginsFrame
    <3>3. sel.was.days[date] = row[<<sel.of, date>>]
      BY <3>1, <3>2, RecordedType, SoundParts DEF Selection
    <3>4. Written(flow[s])'
      BY <2>1, <3>1, <3>3 DEF Written
    <3> QED BY <2>2, <3>4 DEF EditTold
  <2>4. CASE ~Saves(s)
    <3>1. \E x : Starts(s, x) /\ x.kind # "edit"
      <4>1. CASE Deletes(s)
        BY <4>1 DEF Deletes
      <4>2. CASE SavesProfile(s)
        BY <4>2 DEF SavesProfile
      <4>3. ASSUME NEW c \in SUBSET Employees, NEW f \in Fields, NEW t \in Times, ChangesMany(s, c, f, t)
            PROVE  \E x : Starts(s, x) /\ x.kind # "edit"
        BY <4>3 DEF ChangesMany
      <4> QED BY <1>2, <2>4, <4>1, <4>2, <4>3 DEF Clicks
    <3>2. flow'[s].kind # "edit"
      BY <3>1, FlowGoes, SoundParts DEF Starts
    <3> QED BY <2>2, <3>2 DEF EditTold
  <2> QED BY <2>3, <2>4
<1>3. ASSUME UNCHANGED <<row, flow>> PROVE EditTold'
  BY <1>3 DEF EditTold, Written
<1> QED BY <1>1, <1>2, <1>3, EditorSteps, DialogFrame, OthersFrame DEF editorVars

-----------------------------------------------------------------------------
(* The list.                                                               *)

\* What an employee is recorded as, unless a step changes it.
LEMMA RecordedStays ==
    ASSUME EditorSound, EditorSound', NEW e \in Employees, profile'[e] = profile[e],
           \A d \in Dates : row'[<<e, d>>] = row[<<e, d>>]
    PROVE  Recorded(e)' = Recorded(e)
  BY DEF Recorded

\* Two employees' records agree when their parts do.
LEMMA ViewsAgree ==
    ASSUME NEW v \in View, NEW w \in View, v.profile = w.profile, \A d \in Dates : v.days[d] = w.days[d]
    PROVE  v = w
<1>1. v.days = w.days
  BY DEF View
<1>2. v = [profile |-> v.profile, days |-> v.days] /\ w = [profile |-> w.profile, days |-> w.days]
  BY DEF View
<1> QED BY <1>1, <1>2

LEMMA DaysAgree ==
    ASSUME NEW day \in Day, NEW said \in Form, \A k \in Fields : day[k] = said[k]
    PROVE  day = said
<1>1. day = [k \in Fields |-> day[k]]
  BY DEF Day
<1>2. said = [k \in Fields |-> said[k]]
  BY DEF Form
<1>3. [k \in Fields |-> day[k]] = [k \in Fields |-> said[k]]
  OBVIOUS
<1> QED BY <1>1, <1>2, <1>3

LEMMA KeepsIs ==
    ASSUME NEW s \in Pending, KeepsTrue(flow[s])
    PROVE  /\ flow[s].kind = "edit" =>
                 flow[s].ok /\ TrueOf(users, DOMAIN users \ {flow[s].of}) /\ ButForDay(flow[s])
           /\ flow[s].kind = "delete" =>
                 /\ TrueOf(users, DOMAIN users \ {flow[s].of})
                 /\ Recorded(flow[s].of) = IF flow[s].done THEN Without(flow[s].was, flow[s].date)
                                                           ELSE flow[s].was
           /\ flow[s].kind = "profile" => (flow[s].stage = "got" => TrueOf(flow[s].got, DOMAIN flow[s].got))
           /\ flow[s].kind = "mass" =>
                 /\ flow[s].ok
                 /\ flow[s].stage = "got" => flow[s].todo = {} /\ TrueOf(flow[s].got, DOMAIN flow[s].got)
  BY DEF KeepsTrue

\* The list is kept when the save that went on is true to it, and no other is left.
LEMMA KeptBy ==
    ASSUME NEW s \in Pending, \A t \in Pending : t # s => flow'[t] = NoSave,
           \/ flow'[s] = NoSave /\ TrueOf(users, DOMAIN users)'
           \/ flow'[s] # NoSave /\ KeepsTrue(flow[s])'
    PROVE  ListKept'
<1>1. \A t \in Pending : flow'[t] = NoSave => KeepsTrue(flow[t])'
  BY NoSaveKind DEF KeepsTrue
<1> QED BY <1>1 DEF ListKept, Settled

LEMMA KeepsEdit ==
    ASSUME NEW s \in Pending, flow'[s].kind = "edit", flow'[s].ok,
           TrueOf(users, DOMAIN users \ {flow[s].of})', ButForDay(flow[s])'
    PROVE  KeepsTrue(flow[s])' /\ flow'[s] # NoSave
  BY NoSaveKind DEF KeepsTrue

LEMMA KeepsDelete ==
    ASSUME NEW s \in Pending, flow'[s].kind = "delete",
           TrueOf(users, DOMAIN users \ {flow[s].of})',
           (Recorded(flow[s].of) = IF flow[s].done THEN Without(flow[s].was, flow[s].date) ELSE flow[s].was)'
    PROVE  KeepsTrue(flow[s])' /\ flow'[s] # NoSave
  BY NoSaveKind DEF KeepsTrue

LEMMA KeepsProfile ==
    ASSUME NEW s \in Pending, flow'[s].kind = "profile",
           flow'[s].stage = "got" => TrueOf(flow[s].got, DOMAIN flow[s].got)'
    PROVE  KeepsTrue(flow[s])' /\ flow'[s] # NoSave
  BY NoSaveKind DEF KeepsTrue

LEMMA KeepsMass ==
    ASSUME NEW s \in Pending, flow'[s].kind = "mass", flow'[s].ok,
           flow'[s].stage = "got" => flow'[s].todo = {} /\ TrueOf(flow[s].got, DOMAIN flow[s].got)'
    PROVE  KeepsTrue(flow[s])' /\ flow'[s] # NoSave
  BY NoSaveKind DEF KeepsTrue

\* A save that goes on is the only one, and nothing odd has happened.
GoesOnAlone(s) ==
    /\ EditorSound /\ EditorSound' /\ odd = {} /\ odd' = {} /\ KeepsTrue(flow[s])
    /\ \A t \in Pending : t # s => flow'[t] = NoSave

LEMMA KeptWritesField ==
    ASSUME NEW s \in Pending, GoesOnAlone(s), WritesField(s)
    PROVE  ListKept'
<1> DEFINE f == flow[s]
           k == First(f.todo)
           x == [f EXCEPT !.todo = @ \ {k}]
<1>1. EditorSound /\ EditorSound' /\ \A t \in Pending : t # s => flow'[t] = NoSave
  BY DEF GoesOnAlone
<1>2. f.kind = "edit" /\ f.todo # {}
  BY DEF WritesField
<1>3. f.ok /\ TrueOf(users, DOMAIN users \ {f.of}) /\ ButForDay(f)
  BY <1>2, KeepsIs DEF GoesOnAlone
<1>4. f \in EditFlow /\ f.of \in Employees /\ f.date \in Dates /\ f.todo \in SUBSET Fields
  BY <1>1, <1>2, FlowOf, FlowParts, SoundParts DEF EditFlow
<1>5. /\ f.form[k] # NA /\ row' = [row EXCEPT ![<<f.of, f.date>>] = With(@, k, f.form[k])] /\ Goes(s, x)
      /\ UNCHANGED <<profile, users>>
  BY DEF WritesField, GoesOnAlone, IsOdd
<1>6. x.kind = "edit" /\ x.of = f.of /\ x.date = f.date /\ x.ok = f.ok
  <2> HIDE DEF f, k
  <2> QED BY <1>4, EditMade
<1>7. k \in f.todo /\ k \in Fields
  <2> HIDE DEF f
  <2> QED BY <1>2, <1>4, FirstIs
<1>8. f.form[k] \in Times
  BY <1>1, <1>2, <1>5, <1>7, SoundParts DEF Sendable
<1> HIDE DEF x, k
<1>9. flow'[s] = x
  BY <1>1, <1>5, FlowGoes, SoundParts DEF Goes
<1>10. \A e \in Employees, d \in Dates : e # f.of \/ d # f.date => row'[<<e, d>>] = row[<<e, d>>]
  <2> HIDE DEF f
  <2> QED BY <1>1, <1>4, <1>5, <1>7, <1>8, RowWritten, SoundParts
<1> HIDE DEF f
<1>11. DOMAIN users \subseteq Employees
  BY <1>1, SoundParts, ListParts DEF EditorRest
<1>12. \A e \in DOMAIN users \ {f.of} : Recorded(e)' = Recorded(e)
  BY <1>1, <1>5, <1>10, <1>11, RecordedStays
<1>13. TrueOf(users, DOMAIN users \ {flow[s].of})'
  BY <1>3, <1>5, <1>6, <1>9, <1>12 DEF TrueOf
<1>14. ButForDay(flow[s])'
  BY <1>3, <1>4, <1>5, <1>6, <1>9, <1>10 DEF ButForDay
<1>15. flow'[s].kind = "edit" /\ flow'[s].ok
  BY <1>3, <1>6, <1>9
<1> QED BY <1>1, <1>13, <1>14, <1>15, KeepsEdit, KeptBy

\* A list that is true of all but one employee, and gets what is recorded of that one.
LEMMA ListMended ==
    ASSUME EditorSound, NEW e \in Employees, TrueOf(users, DOMAIN users \ {e}),
           NEW v \in View, v = Recorded(e),
           users' = IF e \in DOMAIN users THEN [users EXCEPT ![e] = v] ELSE users,
           UNCHANGED <<row, profile>>
    PROVE  TrueOf(users, DOMAIN users)'
<1>1. users \in List
  BY SoundParts DEF EditorRest
<1>2. \A x \in Employees : Recorded(x)' = Recorded(x)
  BY DEF Recorded
<1>3. DOMAIN users \subseteq Employees
  BY <1>1, ListParts
<1>4. CASE e \in DOMAIN users
  <2>1. /\ DOMAIN users' = DOMAIN users /\ users'[e] = v
        /\ \A x \in DOMAIN users \ {e} : users'[x] = users[x]
    BY <1>1, <1>4, ListPut
  <2> QED BY <1>2, <1>3, <2>1 DEF TrueOf
<1>5. CASE e \notin DOMAIN users
  BY <1>2, <1>3, <1>5 DEF TrueOf
<1> QED BY <1>4, <1>5

LEMMA KeptEndsEdit ==
    ASSUME NEW s \in Pending, GoesOnAlone(s), EditTold, EndsEdit(s)
    PROVE  ListKept'
<1> DEFINE f == flow[s]
<1>1. EditorSound /\ \A t \in Pending : t # s => flow'[t] = NoSave
  BY DEF GoesOnAlone
<1>2. f.kind = "edit" /\ f.todo = {}
  BY DEF EndsEdit
<1>3. f.ok /\ TrueOf(users, DOMAIN users \ {f.of}) /\ ButForDay(f)
  BY <1>2, KeepsIs DEF GoesOnAlone
<1>4. f \in EditFlow /\ f.of \in Employees /\ f.date \in Dates /\ f.form \in Form
  BY <1>1, <1>2, FlowOf, FlowParts, SoundParts DEF EditFlow
<1>5. /\ users' = IF f.of \in DOMAIN users THEN [users EXCEPT ![f.of].days[f.date] = f.form] ELSE users
      /\ Goes(s, NoSave) /\ UNCHANGED <<row, profile>>
  BY <1>3 DEF EndsEdit
<1>6. /\ row[<<f.of, f.date>>] # NoDay /\ row[<<f.of, f.date>>] \in Day \cup {NoDay}
      /\ \A k \in Fields : row[<<f.of, f.date>>][k] = f.form[k]
  BY <1>1, <1>2, <1>3, <1>4, SoundParts DEF EditTold, Written, EditorRest
<1>7. row[<<f.of, f.date>>] = f.form
  <2> DEFINE day == row[<<f.of, f.date>>]
  <2>1. day \in Day /\ \A k \in Fields : day[k] = f.form[k]
    BY <1>6
  <2> HIDE DEF day
  <2>2. day = f.form
    BY <1>4, <2>1, DaysAgree
  <2> QED BY <2>2 DEF day
<1>8. flow'[s] = NoSave
  BY <1>1, <1>5, FlowGoes, SoundParts DEF Goes
<1> HIDE DEF f
<1>9. CASE f.of \in DOMAIN users
  <2> DEFINE v == [users[f.of] EXCEPT !.days[f.date] = f.form]
  <2>1. users[f.of] \in View
    BY <1>1, <1>9, SoundParts, ListParts DEF EditorRest
  <2>2. /\ v \in View /\ v.profile = users[f.of].profile /\ v.days[f.date] = f.form
        /\ \A d \in Dates \ {f.date} : v.days[d] = users[f.of].days[d]
    BY <1>4, <2>1, ViewSet
  <2>3. users' = [users EXCEPT ![f.of] = v]
    BY <1>5, <1>9
  <2> HIDE DEF v
  <2>4. /\ Recorded(f.of) \in View /\ Recorded(f.of).profile = profile[f.of]
        /\ \A d \in Dates : Recorded(f.of).days[d] = row[<<f.of, d>>]
    BY <1>1, <1>4, RecordedType, SoundParts
  <2>5. v.profile = Recorded(f.of).profile /\ \A d \in Dates : v.days[d] = Recorded(f.of).days[d]
    BY <1>3, <1>7, <1>9, <2>2, <2>4 DEF ButForDay
  <2>6. v = Recorded(f.of)
    BY <2>2, <2>4, <2>5, ViewsAgree
  <2>7. TrueOf(users, DOMAIN users)'
    BY <1>1, <1>3, <1>4, <1>5, <1>9, <2>2, <2>3, <2>6, ListMended
  <2> QED BY <1>1, <1>8, <2>7, KeptBy
<1>10. CASE f.of \notin DOMAIN users
  <2>1. Recorded(f.of) \in View
    BY <1>1, <1>4, RecordedType, SoundParts
  <2>2. TrueOf(users, DOMAIN users)'
    BY <1>1, <1>3, <1>4, <1>5, <1>10, <2>1, ListMended
  <2> QED BY <1>1, <1>8, <2>2, KeptBy
<1> QED BY <1>9, <1>10

LEMMA KeptDeletesDay ==
    ASSUME NEW s \in Pending, GoesOnAlone(s), DeletesDay(s)
    PROVE  ListKept'
<1> DEFINE f == flow[s]
           x == [f EXCEPT !.done = TRUE]
<1>1. EditorSound /\ EditorSound' /\ \A t \in Pending : t # s => flow'[t] = NoSave
  BY DEF GoesOnAlone
<1>2. f.kind = "delete" /\ ~f.done
  BY DEF DeletesDay
<1>3. TrueOf(users, DOMAIN users \ {f.of}) /\ Recorded(f.of) = f.was
  BY <1>2, KeepsIs DEF GoesOnAlone
<1>4. f \in DeleteFlow /\ f.of \in Employees /\ f.date \in Dates
  BY <1>1, <1>2, FlowOf, FlowParts, SoundParts DEF DeleteFlow
<1>5. row' = [row EXCEPT ![<<f.of, f.date>>] = NoDay] /\ Goes(s, x) /\ UNCHANGED <<profile, users>>
  BY DEF DeletesDay, GoesOnAlone, IsOdd
<1>6. x.kind = "delete" /\ x.of = f.of /\ x.date = f.date /\ x.was = f.was /\ x.done
  BY <1>4 DEF DeleteFlow
<1> HIDE DEF x
<1>7. flow'[s] = x
  BY <1>1, <1>5, FlowGoes, SoundParts DEF Goes
<1> HIDE DEF f
<1>8. /\ row'[<<f.of, f.date>>] = NoDay
      /\ \A e \in Employees, d \in Dates : e # f.of \/ d # f.date => row'[<<e, d>>] = row[<<e, d>>]
  BY <1>1, <1>4, <1>5, RowCleared, SoundParts
<1>9. DOMAIN users \subseteq Employees
  BY <1>1, SoundParts, ListParts DEF EditorRest
<1>10. \A e \in DOMAIN users \ {f.of} : Recorded(e)' = Recorded(e)
  BY <1>1, <1>5, <1>8, <1>9, RecordedStays
<1>11. TrueOf(users, DOMAIN users \ {flow[s].of})'
  BY <1>3, <1>5, <1>6, <1>7, <1>10 DEF TrueOf
<1>12. PICK e \in Employees, d \in Dates : e = f.of /\ d = f.date
  BY <1>4
<1>13. Recorded(e)' = Without(Recorded(e), d)
  <2>1. Recorded(e) = [profile |-> profile[e], days |-> [y \in Dates |-> row[<<e, y>>]]]
    BY DEF Recorded
  <2>2. Recorded(e)' = [profile |-> profile[e], days |-> [y \in Dates |-> row'[<<e, y>>]]]
    BY <1>5 DEF Recorded
  <2>3. Without(Recorded(e), d)
           = [profile |-> profile[e], days |-> [[y \in Dates |-> row[<<e, y>>]] EXCEPT ![d] = NoDay]]
    BY <2>1 DEF Without
  <2>4. [y \in Dates |-> row'[<<e, y>>]] = [[y \in Dates |-> row[<<e, y>>]] EXCEPT ![d] = NoDay]
    BY <1>8, <1>12
  <2> QED BY <2>2, <2>3, <2>4
<1>14. (Recorded(flow[s].of) = IF flow[s].done THEN Without(flow[s].was, flow[s].date) ELSE flow[s].was)'
  <2>1. flow'[s].of = e /\ flow'[s].done /\ flow'[s].was = f.was /\ flow'[s].date = d
    BY <1>6, <1>7, <1>12
  <2>2. Recorded(flow[s].of)' = Recorded(e)'
    BY <2>1 DEF Recorded
  <2>3. Without(flow[s].was, flow[s].date)' = Without(f.was, d)
    BY <2>1 DEF Without
  <2>4. Recorded(e) = f.was
    BY <1>3, <1>12
  <2> QED BY <1>13, <2>1, <2>2, <2>3, <2>4
<1> QED BY <1>1, <1>6, <1>7, <1>11, <1>14, KeepsDelete, KeptBy

LEMMA KeptEndsDelete ==
    ASSUME NEW s \in Pending, GoesOnAlone(s), EndsDelete(s)
    PROVE  ListKept'
<1> DEFINE f == flow[s]
           left == Without(f.was, f.date)
<1>1. EditorSound /\ \A t \in Pending : t # s => flow'[t] = NoSave
  BY DEF GoesOnAlone
<1>2. f.kind = "delete" /\ f.done
  BY DEF EndsDelete
<1>3. TrueOf(users, DOMAIN users \ {f.of}) /\ Recorded(f.of) = left
  BY <1>2, KeepsIs DEF GoesOnAlone
<1>4. f \in DeleteFlow /\ f.of \in Employees
  BY <1>1, <1>2, FlowOf, FlowParts, SoundParts DEF DeleteFlow
<1>5. /\ users' = IF f.of \in DOMAIN users THEN [users EXCEPT ![f.of] = left] ELSE users
      /\ Goes(s, NoSave) /\ UNCHANGED <<row, profile>>
  BY DEF EndsDelete, Without
<1> HIDE DEF left
<1>6. flow'[s] = NoSave
  BY <1>1, <1>5, FlowGoes, SoundParts DEF Goes
<1> HIDE DEF f
<1>7. left \in View
  BY <1>1, <1>3, <1>4, RecordedType, SoundParts
<1>8. TrueOf(users, DOMAIN users)'
  BY <1>1, <1>3, <1>4, <1>5, <1>7, ListMended
<1> QED BY <1>1, <1>6, <1>8, KeptBy

\* A list just read is true, and stays so while nothing is written.
LEMMA ReadIsTrue ==
    ASSUME EditorSound, NEW list \in Listings, UNCHANGED <<row, profile>>
    PROVE  \A e \in DOMAIN list : list[e] = Recorded(e)'
<1>1. TrueOf(list, DOMAIN list) /\ DOMAIN list \subseteq Employees
  BY ListingType, SoundParts
<1>2. \A e \in Employees : Recorded(e)' = Recorded(e)
  BY DEF Recorded
<1> QED BY <1>1, <1>2 DEF TrueOf

LEMMA TrueStays ==
    ASSUME EditorSound, NEW list \in List, NEW who \in SUBSET DOMAIN list, TrueOf(list, who),
           UNCHANGED <<row, profile>>
    PROVE  \A e \in who : list[e] = Recorded(e)'
<1>1. \A e \in Employees : Recorded(e)' = Recorded(e)
  BY DEF Recorded
<1> QED BY <1>1, ListParts DEF TrueOf

LEMMA KeptProfile ==
    ASSUME NEW s \in Pending, GoesOnAlone(s), UpdatesProfile(s) \/ GetsList(s) \/ EndsProfile(s)
    PROVE  ListKept'
<1> DEFINE f == flow[s]
<1>1. EditorSound /\ \A t \in Pending : t # s => flow'[t] = NoSave
  BY DEF GoesOnAlone
<1>2. f.kind = "profile"
  BY DEF UpdatesProfile, GetsList, EndsProfile
<1>3. f.stage = "got" => TrueOf(f.got, DOMAIN f.got)
  BY <1>2, KeepsIs DEF GoesOnAlone
<1>4. f \in ProfileFlow /\ f.got \in List
  BY <1>1, <1>2, FlowOf, FlowParts, SoundParts DEF ProfileFlow
<1>5. CASE UpdatesProfile(s)
  <2> DEFINE x == [f EXCEPT !.stage = "updated"]
  <2>1. Goes(s, x)
    BY <1>5 DEF UpdatesProfile, GoesOnAlone, IsOdd
  <2>2. x.kind = "profile" /\ x.stage = "updated"
    BY <1>4 DEF ProfileFlow
  <2> HIDE DEF x
  <2>3. flow'[s] = x
    BY <1>1, <2>1, FlowGoes, SoundParts DEF Goes
  <2> QED BY <1>1, <2>2, <2>3, KeepsProfile, KeptBy
<1>6. CASE GetsList(s)
  <2>1. PICK list \in Listings : Goes(s, [f EXCEPT !.stage = "got", !.got = list])
    BY <1>6 DEF GetsList
  <2> DEFINE x == [f EXCEPT !.stage = "got", !.got = list]
  <2>2. x.kind = "profile" /\ x.got = list
    BY <1>4 DEF ProfileFlow
  <2>3. UNCHANGED <<row, profile>> /\ Goes(s, x)
    BY <1>6, <2>1 DEF GetsList
  <2> HIDE DEF x
  <2>4. flow'[s] = x
    BY <1>1, <2>3, FlowGoes, SoundParts DEF Goes
  <2>5. \A e \in DOMAIN list : list[e] = Recorded(e)'
    BY <1>1, <2>3, ReadIsTrue
  <2>6. TrueOf(flow[s].got, DOMAIN flow[s].got)'
    BY <2>2, <2>4, <2>5 DEF TrueOf
  <2> QED BY <1>1, <2>2, <2>4, <2>6, KeepsProfile, KeptBy
<1>7. CASE EndsProfile(s)
  <2>1. users' = f.got /\ Goes(s, NoSave) /\ UNCHANGED <<row, profile>> /\ f.stage = "got"
    BY <1>7 DEF EndsProfile
  <2>2. flow'[s] = NoSave
    BY <1>1, <2>1, FlowGoes, SoundParts DEF Goes
  <2>3. \A e \in DOMAIN f.got : f.got[e] = Recorded(e)'
    <3> HIDE DEF f
    <3> QED BY <1>1, <1>3, <1>4, <2>1, TrueStays
  <2>4. TrueOf(users, DOMAIN users)'
    BY <2>1, <2>3 DEF TrueOf
  <2> QED BY <1>1, <2>2, <2>4, KeptBy
<1> QED BY <1>5, <1>6, <1>7

LEMMA KeptMany ==
    ASSUME NEW s \in Pending, GoesOnAlone(s), WritesOne(s) \/ EndsMany(s)
    PROVE  ListKept'
<1> DEFINE f == flow[s]
<1>1. EditorSound /\ \A t \in Pending : t # s => flow'[t] = NoSave
  BY DEF GoesOnAlone
<1>2. f.kind = "mass"
  BY DEF WritesOne, EndsMany
<1>3. f.ok /\ (f.stage = "got" => f.todo = {} /\ TrueOf(f.got, DOMAIN f.got))
  BY <1>2, KeepsIs DEF GoesOnAlone
<1>4. f \in MassFlow /\ f.got \in List
  BY <1>1, <1>2, FlowOf, FlowParts, SoundParts DEF MassFlow
<1>5. CASE WritesOne(s)
  <2>1. PICK c \in f.todo : Goes(s, [f EXCEPT !.todo = @ \ {c}])
    BY <1>5 DEF WritesOne, GoesOnAlone, IsOdd
  <2> DEFINE x == [f EXCEPT !.todo = @ \ {c}]
  <2>2. x.kind = "mass" /\ x.ok = f.ok /\ x.stage = f.stage
    BY <1>2, <1>4 DEF MassFlow
  <2>3. Goes(s, x)
    BY <2>1
  <2> HIDE DEF x
  <2>4. flow'[s] = x
    BY <1>1, <2>3, FlowGoes, SoundParts DEF Goes
  <2>5. flow'[s].stage # "got" /\ flow'[s].ok /\ flow'[s].kind = "mass"
    BY <1>3, <2>1, <2>2, <2>4
  <2> QED BY <1>1, <2>5, KeepsMass, KeptBy
<1>6. CASE EndsMany(s)
  <2>1. \/ /\ f.todo = {} /\ \E list \in Listings : Goes(s, [f EXCEPT !.stage = "got", !.got = list])
        \/ f.stage = "got" /\ users' = f.got /\ Goes(s, NoSave)
    BY <1>3, <1>6 DEF EndsMany
  <2>2. UNCHANGED <<row, profile>>
    BY <1>6 DEF EndsMany
  <2>3. CASE f.todo = {} /\ \E list \in Listings : Goes(s, [f EXCEPT !.stage = "got", !.got = list])
    <3>1. PICK list \in Listings : Goes(s, [f EXCEPT !.stage = "got", !.got = list])
      BY <2>3
    <3> DEFINE x == [f EXCEPT !.stage = "got", !.got = list]
    <3>2. x.kind = "mass" /\ x.got = list /\ x.ok = f.ok /\ x.todo = f.todo
      BY <1>2, <1>4 DEF MassFlow
    <3>3. Goes(s, x)
      BY <3>1
    <3> HIDE DEF x
    <3>4. flow'[s] = x
      BY <1>1, <3>3, FlowGoes, SoundParts DEF Goes
    <3>5. \A e \in DOMAIN list : list[e] = Recorded(e)'
      BY <1>1, <2>2, ReadIsTrue
    <3>6. TrueOf(flow[s].got, DOMAIN flow[s].got)' /\ flow'[s].todo = {} /\ flow'[s].ok
      BY <1>3, <2>3, <3>2, <3>4, <3>5 DEF TrueOf
    <3> QED BY <1>1, <3>2, <3>4, <3>6, KeepsMass, KeptBy
  <2>4. CASE f.stage = "got" /\ users' = f.got /\ Goes(s, NoSave)
    <3>1. flow'[s] = NoSave
      BY <1>1, <2>4, FlowGoes, SoundParts DEF Goes
    <3>2. \A e \in DOMAIN f.got : f.got[e] = Recorded(e)'
      <4> HIDE DEF f
      <4> QED BY <1>1, <1>3, <1>4, <2>2, <2>4, TrueStays
    <3>3. TrueOf(users, DOMAIN users)'
      BY <2>4, <3>2 DEF TrueOf
    <3> QED BY <1>1, <3>1, <3>3, KeptBy
  <2> QED BY <2>1, <2>3, <2>4
<1> QED BY <1>5, <1>6

LEMMA KeptProceeds ==
    ASSUME NEW s \in Pending, EditorSound, EditorSound', OneUnderWay, EditTold, ListKept, odd = {}, odd' = {},
           Proceeds(s)
    PROVE  ListKept'
<1>1. /\ flow[s] # NoSave /\ \A t \in Pending \ {s} : flow'[t] = flow[t]
  BY GoesOnFrame
<1>2. \A t \in Pending : t # s => flow'[t] = NoSave
  BY <1>1 DEF OneUnderWay
<1>3. GoesOnAlone(s)
  BY <1>2 DEF GoesOnAlone, ListKept
<1> QED BY <1>3, KeptWritesField, KeptEndsEdit, KeptDeletesDay, KeptEndsDelete, KeptProfile, KeptMany DEF Proceeds

LEMMA KeptClicks ==
    ASSUME NEW s \in Pending, EditorSound, EditorSound', ListKept, odd' = {}, Clicks(s)
    PROVE  ListKept'
<1>1. /\ Settled /\ \A t \in Pending \ {s} : flow'[t] = flow[t]
      /\ UNCHANGED <<row, profile, users>>
  BY BeginsFrame
<1>2. \A t \in Pending : t # s => flow'[t] = NoSave
  BY <1>1 DEF Settled
<1>3. TrueOf(users, DOMAIN users) /\ users \in List /\ DOMAIN users \subseteq Employees
  BY <1>1, SoundParts, ListParts DEF ListKept, EditorRest
<1>4. \A e \in Employees : Recorded(e)' = Recorded(e)
  BY <1>1 DEF Recorded
<1>5. \A who \in SUBSET DOMAIN users : TrueOf(users, who)'
  BY <1>1, <1>3, <1>4 DEF TrueOf
<1>6. TrueOf(users, DOMAIN users \ {flow[s].of})'
  BY <1>1, <1>3, <1>4 DEF TrueOf
<1>7. Saves(s) \/ Deletes(s) => sel.was = Recorded(sel.of) /\ sel \in Selection
  <2>1. Saves(s) \/ Deletes(s) => ~\E c \in SUBSET Employees, f \in Fields, t \in Times : ChangesMany(s, c, f, t)
    BY DEF Saves, Deletes, ChangesMany, InFront
  <2> QED BY <2>1, BeginsFrame
<1>8. CASE Saves(s)
  <2>1. flow'[s].kind = "edit" /\ flow'[s].ok /\ flow'[s].of = sel.of /\ flow'[s].date = date
    BY <1>8, SavesParts
  <2>2. sel.of \in Employees
    BY <1>7, <1>8 DEF Selection
  <2>3. ButForDay(flow[s])'
    <3>1. ASSUME sel.of \in DOMAIN users
          PROVE  /\ users[sel.of].profile = profile[sel.of]
                 /\ \A d \in Dates : users[sel.of].days[d] = row[<<sel.of, d>>]
      BY <1>3, <2>2, <3>1, RecordedType, SoundParts DEF TrueOf
    <3> QED BY <1>1, <2>1, <3>1 DEF ButForDay
  <2> QED BY <1>2, <1>6, <2>1, <2>3, KeepsEdit, KeptBy
<1>9. CASE Deletes(s)
  <2> DEFINE x == [kind |-> "delete", of |-> sel.of, was |-> sel.was, date |-> date, done |-> FALSE]
  <2>1. Starts(s, x)
    BY <1>9 DEF Deletes
  <2>2. x.kind = "delete" /\ x.of = sel.of /\ x.was = sel.was /\ ~x.done
    OBVIOUS
  <2> HIDE DEF x
  <2>3. flow'[s] = x
    BY <2>1, FlowGoes, SoundParts DEF Starts
  <2>4. PICK e \in Employees : e = sel.of
    BY <1>7, <1>9 DEF Selection
  <2>5. Recorded(flow[s].of)' = Recorded(e)'
    BY <2>2, <2>3, <2>4 DEF Recorded
  <2>6. Recorded(e)' = sel.was
    BY <1>4, <1>7, <1>9, <2>4
  <2>7. (Recorded(flow[s].of) = IF flow[s].done THEN Without(flow[s].was, flow[s].date) ELSE flow[s].was)'
    BY <2>2, <2>3, <2>5, <2>6
  <2> QED BY <1>2, <1>6, <2>2, <2>3, <2>7, KeepsDelete, KeptBy
<1>10. CASE SavesProfile(s)
  <2> DEFINE x == [kind |-> "profile", of |-> sel.of, base |-> modal.base, form |-> modal.form,
                   list |-> users, stage |-> "asked", got |-> users]
  <2>1. Starts(s, x)
    BY <1>10 DEF SavesProfile
  <2>2. x.kind = "profile" /\ x.stage = "asked"
    OBVIOUS
  <2> HIDE DEF x
  <2>3. flow'[s] = x
    BY <2>1, FlowGoes, SoundParts DEF Starts
  <2> QED BY <1>2, <2>2, <2>3, KeepsProfile, KeptBy
<1>11. ASSUME NEW chosen \in SUBSET Employees, NEW f \in Fields, NEW t \in Times, ChangesMany(s, chosen, f, t)
       PROVE  ListKept'
  <2> DEFINE x == [kind |-> "mass", todo |-> chosen \X {f}, time |-> t, ok |-> TRUE,
                   stage |-> "asked", got |-> users]
  <2>1. Starts(s, x)
    BY <1>11 DEF ChangesMany
  <2>2. x.kind = "mass" /\ x.stage = "asked" /\ x.ok
    OBVIOUS
  <2> HIDE DEF x
  <2>3. flow'[s] = x
    BY <2>1, FlowGoes, SoundParts DEF Starts
  <2> QED BY <1>2, <2>2, <2>3, KeepsMass, KeptBy
<1> QED BY <1>8, <1>9, <1>10, <1>11 DEF Clicks

LEMMA ListKeptStays ==
    ASSUME ListKept, UNCHANGED <<row, profile, users, flow>>
    PROVE  ListKept'
<1>1. \A e : Recorded(e)' = Recorded(e)
  BY DEF Recorded
<1>2. \A list, who : TrueOf(list, who) => TrueOf(list, who)'
  BY <1>1 DEF TrueOf
<1>3. \A f : ButForDay(f) => ButForDay(f)'
  BY DEF ButForDay
<1>4. ASSUME NEW s \in Pending PROVE KeepsTrue(flow[s])'
  <2>1. PICK f, list : f = flow[s] /\ f = flow'[s] /\ list = users /\ list = users'
    OBVIOUS
  <2>2. KeepsTrue(f)
    BY <2>1 DEF ListKept
  <2>3. CASE f.kind = "edit"
    <3>1. f.ok /\ TrueOf(list, DOMAIN list \ {f.of}) /\ ButForDay(f)
      BY <2>1, <2>2, <2>3 DEF KeepsTrue
    <3>2. TrueOf(list, DOMAIN list \ {f.of})' /\ ButForDay(f)'
      BY <1>2, <1>3, <3>1
    <3>3. TrueOf(users, DOMAIN users \ {flow[s].of})' /\ ButForDay(flow[s])'
      BY <2>1, <3>2 DEF TrueOf, ButForDay
    <3> QED BY <2>1, <2>3, <3>1, <3>3, KeepsEdit
  <2>4. CASE f.kind = "delete"
    <3>1. /\ TrueOf(list, DOMAIN list \ {f.of})
          /\ Recorded(f.of) = IF f.done THEN Without(f.was, f.date) ELSE f.was
      BY <2>1, <2>2, <2>4 DEF KeepsTrue
    <3>2. TrueOf(list, DOMAIN list \ {f.of})'
      BY <1>2, <3>1
    <3>3. TrueOf(users, DOMAIN users \ {flow[s].of})'
      BY <2>1, <3>2 DEF TrueOf
    <3>4. Recorded(flow[s].of)' = Recorded(f.of)
      BY <2>1 DEF Recorded
    <3>5. (Recorded(flow[s].of) = IF flow[s].done THEN Without(flow[s].was, flow[s].date) ELSE flow[s].was)'
      BY <2>1, <3>1, <3>4 DEF Without
    <3> QED BY <2>1, <2>4, <3>3, <3>5, KeepsDelete
  <2>5. CASE f.kind = "profile"
    <3>1. f.stage = "got" => TrueOf(f.got, DOMAIN f.got)
      BY <2>2, <2>5 DEF KeepsTrue
    <3>2. f.stage = "got" => TrueOf(f.got, DOMAIN f.got)'
      BY <1>2, <3>1
    <3>3. flow'[s].stage = "got" => TrueOf(flow[s].got, DOMAIN flow[s].got)'
      BY <2>1, <3>2 DEF TrueOf
    <3> QED BY <2>1, <2>5, <3>3, KeepsProfile
  <2>6. CASE f.kind = "mass"
    <3>1. f.ok /\ (f.stage = "got" => f.todo = {} /\ TrueOf(f.got, DOMAIN f.got))
      BY <2>2, <2>6 DEF KeepsTrue
    <3>2. f.stage = "got" => TrueOf(f.got, DOMAIN f.got)'
      BY <1>2, <3>1
    <3>3. flow'[s].stage = "got" => flow'[s].todo = {} /\ TrueOf(flow[s].got, DOMAIN flow[s].got)'
      BY <2>1, <3>1, <3>2 DEF TrueOf
    <3> QED BY <2>1, <2>6, <3>1, <3>3, KeepsMass
  <2>7. CASE f.kind \notin {"edit", "delete", "profile", "mass"}
    BY <2>1, <2>7 DEF KeepsTrue
  <2> QED BY <2>3, <2>4, <2>5, <2>6, <2>7
<1>5. (Settled => TrueOf(users, DOMAIN users))'
  BY <1>1 DEF ListKept, Settled, TrueOf
<1> QED BY <1>4, <1>5 DEF ListKept

LEMMA KeptDialog ==
    ASSUME EditorSound, EditorSound', ListKept, DialogStep
    PROVE  ListKept'
<1>1. UNCHANGED <<row, profile, flow>> /\ (users' = users \/ (users' \in Listings /\ Settled))
  BY DialogFrame
<1>2. CASE users' = users
  BY <1>1, <1>2, ListKeptStays
<1>3. CASE users' \in Listings /\ Settled
  <2>1. PICK list \in Listings : list = users'
    BY <1>3
  <2>2. \A e \in DOMAIN list : list[e] = Recorded(e)'
    BY <1>1, ReadIsTrue
  <2>3. TrueOf(users, DOMAIN users)'
    BY <2>1, <2>2 DEF TrueOf
  <2>4. \A t \in Pending : flow'[t] = NoSave
    BY <1>1, <1>3 DEF Settled
  <2>5. \A t \in Pending : KeepsTrue(flow[t])'
    BY <2>4, NoSaveKind DEF KeepsTrue
  <2> QED BY <2>3, <2>5 DEF ListKept
<1> QED BY <1>1, <1>2, <1>3

LEMMA ListKeptStep ==
    ASSUME EditorSound, EditorSound', OneUnderWay, EditTold, ListKept, odd = {}, odd' = {}, [EditorNext]_editorVars
    PROVE  ListKept'
<1>1. ~OthersWrite
  BY OthersFrame
<1> QED BY <1>1, ListKeptStays, KeptProceeds, KeptClicks, KeptDialog, EditorSteps DEF editorVars

-----------------------------------------------------------------------------
(* The invariant, and what it gives.                                       *)

LEMMA EditorBegins == EditorInit => EditorInv
<1> SUFFICES ASSUME EditorInit PROVE EditorInv
  OBVIOUS
<1>1. EditorTypeOK
  BY EditorTypedInit
<1>2. \A s \in Pending : flow[s] = NoSave /\ flow[s].kind = "idle"
  BY NoSaveKind DEF EditorInit
<1>3. Sendable /\ Stacked
  BY <1>2 DEF Sendable, Stacked, EditorInit
<1>4. OneUnderWay
  BY <1>2 DEF OneUnderWay
<1>5. FormFresh
  BY <1>2 DEF FormFresh, Unwritten, EditorInit
<1>6. EditTold
  BY <1>2 DEF EditTold
<1>7. TrueOf(users, DOMAIN users)
  BY <1>1, ListingType DEF EditorInit
<1>8. \A s \in Pending : KeepsTrue(flow[s])
  BY <1>2 DEF KeepsTrue
<1> QED BY <1>1, <1>3, <1>4, <1>5, <1>6, <1>7, <1>8 DEF EditorInv, ListKept

LEMMA EditorGoesOn == EditorInv /\ [EditorNext]_editorVars => EditorInv'
<1> SUFFICES ASSUME EditorInv, [EditorNext]_editorVars PROVE EditorInv'
  OBVIOUS
<1>1. EditorSound
  BY DEF EditorInv, EditorSound
<1>2. EditorSound'
  BY <1>1, SoundStep
<1>3. odd \subseteq odd'
  BY <1>1, EditorOddStays
<1>4. "overlap" \notin odd' => OneUnderWay /\ OneUnderWay'
  <2>1. "overlap" \notin odd' => OneUnderWay
    BY <1>3 DEF EditorInv, Calm
  <2> QED BY <1>1, <2>1, OneUnderWayStep
<1>5. "overlap" \notin odd' /\ "stale" \notin odd' => FormFresh'
  <2>1. "overlap" \notin odd' /\ "stale" \notin odd' => FormFresh
    BY <1>3 DEF EditorInv, Calm
  <2> QED BY <1>1, <1>4, <2>1, FormFreshStep
<1>6. "overlap" \notin odd' /\ "stale" \notin odd' /\ "others" \notin odd' => EditTold /\ EditTold'
  <2>1. "overlap" \notin odd' /\ "stale" \notin odd' /\ "others" \notin odd' => EditTold
    BY <1>3 DEF EditorInv, Calm
  <2> QED BY <1>1, <1>4, <2>1, EditToldStep
<1>7. odd' = {} => ListKept'
  <2>1. odd' = {} => odd = {} /\ ListKept
    BY <1>3 DEF EditorInv
  <2> QED BY <1>1, <1>2, <1>4, <1>6, <2>1, ListKeptStep
<1> QED BY <1>2, <1>4, <1>5, <1>6, <1>7 DEF EditorInv, EditorSound, Calm

\* The invariant of the administrator's pages (employees.tsx, Admin.tsx).
THEOREM EditorInvHolds == EditorSpec => []EditorInv
  BY EditorBegins, EditorGoesOn, PTL DEF EditorSpec

\* The state of the pages and of the mirror is always of its type, and what a
\* save sends is a time or the "N/A" that update_cache_hour_data refuses.
THEOREM EditorTypeCorrect == EditorSpec => []EditorTypeOK
<1>1. EditorInv => EditorTypeOK
  BY DEF EditorInv
<1> QED BY <1>1, EditorInvHolds, PTL

\* With nothing under way, and without one of the oddities, the list "users" says
\* of every employee in it what the mirror records, whatever was saved, deleted or
\* changed before.
THEOREM ListStaysTrue == EditorSpec => []ListTrue
<1>1. EditorInv => ListTrue
  BY DEF EditorInv, ListTrue, ListKept, TrueOf
<1> QED BY <1>1, EditorInvHolds, PTL

\* An edit that is about to be told as done has stored the day its form shows, in
\* every field, also in those HandleEdit did not send.
THEOREM SavedIsAlwaysStored == EditorSpec => []SavedIsStored
<1>1. EditorInv => SavedIsStored
  <2> SUFFICES ASSUME EditorInv, Calm({"overlap", "stale", "others"}), NEW s \in Pending,
                      flow[s].kind = "edit", flow[s].todo = {}, flow[s].ok
               PROVE  row[<<flow[s].of, flow[s].date>>] = flow[s].form
    BY DEF SavedIsStored
  <2> DEFINE day == row[<<flow[s].of, flow[s].date>>]
             said == flow[s].form
  <2>1. day # NoDay /\ \A k \in Fields : day[k] = said[k]
    BY DEF EditorInv, EditTold, Written
  <2>2. EditorSound
    BY DEF EditorInv, EditorSound
  <2>3. flow[s] \in EditFlow
    BY <2>2, FlowOf, FlowParts, SoundParts
  <2>4. said \in Form /\ day \in Day \cup {NoDay}
    BY <2>2, <2>3, SoundParts DEF EditFlow, EditorRest
  <2> HIDE DEF day, said
  <2>5. day \in Day
    BY <2>1, <2>4
  <2>6. day = said
    BY <2>1, <2>4, <2>5, DaysAgree
  <2> QED BY <2>6 DEF day, said
<1> QED BY <1>1, EditorInvHolds, PTL

\* Saving a profile changes what was changed in its form and nothing else, although
\* update_employee writes every field: the form is as recorded until then.
THEOREM ProfileIsKept == EditorSpec => ProfileKept
<1> DEFINE Kept ==
       Calm({"overlap", "stale"})' =>
          \A s \in Pending : flow[s].kind = "profile" /\ flow[s].stage = "asked" =>
              \A k \in {"name", "phone"} : flow[s].form[k] = flow[s].base[k] =>
                  profile'[flow[s].of][k] = profile[flow[s].of][k]
<1>1. EditorInv /\ [EditorNext]_editorVars => [Kept]_editorVars
  <2> SUFFICES ASSUME EditorInv, EditorNext, "overlap" \notin odd', "stale" \notin odd',
                      NEW s \in Pending, flow[s].kind = "profile", flow[s].stage = "asked",
                      NEW k \in {"name", "phone"}, flow[s].form[k] = flow[s].base[k]
               PROVE  profile'[flow[s].of][k] = profile[flow[s].of][k]
    BY DEF Calm
  <2>1. EditorSound
    BY DEF EditorInv, EditorSound
  <2>2. odd \subseteq odd'
    BY <2>1, EditorOddStays
  <2>3. OneUnderWay /\ FormFresh
    BY <2>2 DEF EditorInv, Calm
  <2>4. flow[s].base = profile[flow[s].of] /\ flow[s] # NoSave
    BY <2>3, NoSaveKind DEF FormFresh, Unwritten
  <2>5. CASE profile' = profile
    BY <2>5
  <2>6. ASSUME NEW t \in Pending, Proceeds(t), profile' # profile
        PROVE  profile'[flow[s].of][k] = profile[flow[s].of][k]
    <3>1. flow[t] # NoSave /\ flow[t].kind = "profile"
      BY <2>1, <2>6, GoesOnFrame
    <3>2. t = s
      BY <2>3, <2>4, <3>1 DEF OneUnderWay
    <3>3. profile' = [profile EXCEPT ![flow[s].of] = flow[s].form]
      BY <2>6, <3>2 DEF Proceeds, WritesField, EndsEdit, DeletesDay, EndsDelete, UpdatesProfile, GetsList,
                        EndsProfile, WritesOne, EndsMany
    <3>4. flow[s] \in ProfileFlow
      BY <2>1, FlowOf, FlowParts, SoundParts
    <3>5. profile'[flow[s].of] = flow[s].form
      BY <2>1, <3>3, <3>4, SoundParts DEF EditorRest, ProfileFlow
    <3> QED BY <2>4, <3>5
  <2> QED BY <2>1, <2>5, <2>6, EditorSteps, BeginsFrame, DialogFrame, OthersFrame
<1>2. EditorInv /\ EditorInv' /\ [EditorNext]_editorVars => [Kept]_editorVars
  BY <1>1
<1>3. ProfileKept <=> [][Kept]_editorVars
  BY PTL DEF ProfileKept
<1> QED BY <1>2, <1>3, EditorInvHolds, PTL DEF EditorSpec
=============================================================================
