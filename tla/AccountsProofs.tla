--------------------------- MODULE AccountsProofs ----------------------------
(***************************************************************************)
(* Proofs about employees and their login accounts, for any number of      *)
(* employees, logins, e-mails, terminals and commands, of which as many as *)
(* there are slots are under way together.                                 *)
(***************************************************************************)
EXTENDS Accounts, TLAPS

-----------------------------------------------------------------------------
(* What a command holds.                                                   *)

Boot == [pc : {"sign-up"}, t : Terminals, mail : Emails, wizard : {FALSE}]
Entry == [pc : {"promote", "enter"}, t : Terminals, mail : Emails, l : Logins, wizard : {FALSE}]
Creation == [pc : {"make", "link", "mail"}, t : Terminals, e : Employees, row : Row, mail : Emails,
             role : Roles, wizard : BOOLEAN]
Registration == [pc : {"insert"}, t : Terminals, mail : Emails, role : Roles, smtp : BOOLEAN,
                 wizard : {TRUE}]
Change == [pc : {"save", "role"}, t : Terminals, e : Employees, row : Row, role : Roles,
           wizard : {FALSE}]
Leaving == [pc : {"block", "remove", "mark"}, t : Terminals, e : Employees, row : Row,
            wizard : {FALSE}]
Removal == [pc : {"drop"}, t : Terminals, l : Logins, wizard : {FALSE}]

Made == Boot \cup Entry \cup Creation \cup Registration \cup Change \cup Leaving \cup Removal

Account == [state : {"none", "live", "gone"}, mail : Mail, role : Roles, banned : BOOLEAN]
Wizard == [open : BOOLEAN, step : {"identification", "access", "card"},
           who : Employees \cup {None}, busy : BOOLEAN]

Rows ==
    /\ DOMAIN emp = Employees
    /\ \A e \in Employees : emp[e] = None \/ (emp[e] \in Row /\ Unique(e, emp[e]))
Logged ==
    /\ acct \in [Logins -> Account]
    /\ \A k, l \in Live : acct[k].mail = acct[l].mail => k = l
Commands == cmd \in [Slots -> Made \cup {Idle}]
Wizards == wizard \in [Terminals -> Wizard]
Others ==
    /\ card \in [Employees -> BOOLEAN]
    /\ session \in [Terminals -> Logins \cup {None}]
    /\ odd \subseteq Oddities

Typed == Rows /\ Logged /\ Commands /\ Wizards /\ Others


LEMMA TypedIsTypeOK == Typed => TypeOK
BY DEF Typed, TypeOK, Rows, Logged, Wizards, Others, Account, Wizard

LEMMA IdleNotMade == Idle \notin Made
<1>1. DOMAIN Idle = {}
  BY DEF Idle
<1>2. \A c \in Made : "pc" \in DOMAIN c
  BY DEF Made, Boot, Entry, Creation, Registration, Change, Leaving, Removal
<1> QED BY <1>1, <1>2

(* Every command belongs to the family that its pc tells.                  *)
LEMMA Families ==
    ASSUME NEW c \in Made
    PROVE  /\ c.t \in Terminals
           /\ c.pc = "sign-up" => c \in Boot
           /\ c.pc \in {"promote", "enter"} => c \in Entry
           /\ c.pc \in {"make", "link", "mail"} => c \in Creation
           /\ c.pc = "insert" => c \in Registration
           /\ c.pc \in {"save", "role"} => c \in Change
           /\ c.pc \in {"block", "remove", "mark"} => c \in Leaving
           /\ c.pc = "drop" => c \in Removal
BY DEF Made, Boot, Entry, Creation, Registration, Change, Leaving, Removal

(* What becomes of a command that goes on.                                 *)
LEMMA EntryMoves ==
    ASSUME NEW c \in Entry, NEW pc \in {"promote", "enter"}
    PROVE  LET d == [c EXCEPT !.pc = pc] IN
           /\ d \in Entry /\ d.pc = pc
           /\ d.t = c.t /\ d.mail = c.mail /\ d.l = c.l /\ d.wizard = c.wizard
BY DEF Entry

LEMMA CreationMoves ==
    ASSUME NEW c \in Creation, NEW pc \in {"make", "link", "mail"}
    PROVE  LET d == [c EXCEPT !.pc = pc] IN
           /\ d \in Creation /\ d.pc = pc
           /\ d.t = c.t /\ d.e = c.e /\ d.row = c.row /\ d.mail = c.mail
           /\ d.role = c.role /\ d.wizard = c.wizard
BY DEF Creation

LEMMA ChangeMoves ==
    ASSUME NEW c \in Change, NEW pc \in {"save", "role"}
    PROVE  LET d == [c EXCEPT !.pc = pc] IN
           /\ d \in Change /\ d.pc = pc
           /\ d.t = c.t /\ d.e = c.e /\ d.row = c.row /\ d.role = c.role /\ d.wizard = c.wizard
BY DEF Change

LEMMA LeavingMoves ==
    ASSUME NEW c \in Leaving, NEW pc \in {"block", "remove", "mark"}
    PROVE  LET d == [c EXCEPT !.pc = pc] IN
           /\ d \in Leaving /\ d.pc = pc
           /\ d.t = c.t /\ d.e = c.e /\ d.row = c.row /\ d.wizard = c.wizard
BY DEF Leaving

(* The row that goes back to an employee who gets a login.                 *)
LEMMA RowLinks ==
    ASSUME NEW row \in Row, NEW l \in Logins, NEW m \in Emails
    PROVE  LET new == [row EXCEPT !.login = l, !.mail = m] IN
           new \in Row /\ new.login = l /\ new.mail = m /\ new.status = row.status
BY DEF Row, Mail

LEMMA RowMails ==
    ASSUME NEW row \in Row, NEW m \in Mail
    PROVE  LET new == [row EXCEPT !.mail = m] IN
           new \in Row /\ new.login = row.login /\ new.mail = m /\ new.status = row.status
BY DEF Row

LEMMA RowUnlinks ==
    ASSUME NEW row \in Row
    PROVE  LET new == [row EXCEPT !.login = None] IN
           new \in Row /\ new.login = None /\ new.mail = row.mail /\ new.status = row.status
BY DEF Row

LEMMA RowLeaves ==
    ASSUME NEW row \in Row
    PROVE  /\ Terminated(row) \in Row /\ Terminated(row).login = None
           /\ Terminated(row).mail = row.mail /\ Terminated(row).status = "terminated"
BY DEF Row, Terminated

LEMMA LinkMade ==
    ASSUME NEW c \in Creation, NEW l \in Logins
    PROVE  LET d == [c EXCEPT !.pc = "link", !.row = [@ EXCEPT !.login = l, !.mail = c.mail]] IN
           /\ d \in Creation /\ d.pc = "link" /\ d.t = c.t /\ d.e = c.e
           /\ d.row.login = l /\ d.row.status = c.row.status
<1> DEFINE new == [c.row EXCEPT !.login = l, !.mail = c.mail]
<1>1. c.row \in Row /\ c.mail \in Emails
  BY DEF Creation
<1>2. new \in Row /\ new.login = l /\ new.status = c.row.status
  BY <1>1 DEF Row, Mail
<1> HIDE DEF new
<1>3. LET d == [c EXCEPT !.pc = "link", !.row = new] IN
      d \in Creation /\ d.pc = "link" /\ d.t = c.t /\ d.e = c.e /\ d.row = new
  BY <1>2 DEF Creation
<1> QED BY <1>2, <1>3 DEF new

-----------------------------------------------------------------------------
(* The tables, one write at a time.                                        *)

LEMMA RowsUpserted ==
    ASSUME Rows, NEW e \in Employees, NEW row \in Row, Unique(e, row), Upsert(e, row)
    PROVE  Rows' /\ emp'[e] = row /\ \A x \in Employees \ {e} : emp'[x] = emp[x]
<1>1. emp'[e] = row /\ \A x \in Employees \ {e} : emp'[x] = emp[x]
  BY DEF Rows, Upsert
<1>2. DOMAIN emp' = Employees
  BY DEF Rows, Upsert
<1>3. \A x \in Employees : x # e /\ emp[x] # None =>
          /\ emp[x].mail = None \/ row.mail # emp[x].mail
          /\ emp[x].login = None \/ row.login # emp[x].login
  BY DEF Unique, Registered
<1>4. \A x \in Employees : emp'[x] = None \/ (emp'[x] \in Row /\ Unique(x, emp[x])')
  <2> SUFFICES ASSUME NEW x \in Employees, emp'[x] # None
               PROVE  emp'[x] \in Row /\ Unique(x, emp[x])'
    OBVIOUS
  <2>1. CASE x = e
    BY <2>1, <1>1 DEF Unique, Registered
  <2>2. CASE x # e
    <3>1. emp'[x] = emp[x] /\ emp[x] \in Row /\ Unique(x, emp[x])
      BY <2>2, <1>1 DEF Rows
    <3>2. \A y \in Registered' \ {x} :
              /\ emp[x].mail = None \/ emp'[y].mail # emp[x].mail
              /\ emp[x].login = None \/ emp'[y].login # emp[x].login
      BY <3>1, <2>2, <1>1, <1>3 DEF Unique, Registered
    <3> QED BY <3>1, <3>2 DEF Unique
  <2> QED BY <2>1, <2>2
<1> QED BY <1>1, <1>2, <1>4 DEF Rows

LEMMA RowsUnlinked ==
    ASSUME Rows, NEW l \in Logins,
           emp' = [e \in Employees |-> IF e \in LinkedTo(l) THEN [emp[e] EXCEPT !.login = None]
                                                            ELSE emp[e]]
    PROVE  /\ Rows' /\ Registered' = Registered
           /\ \A e \in Registered : /\ emp'[e].status = emp[e].status
                                    /\ emp'[e].login = IF emp[e].login = l THEN None ELSE emp[e].login
<1>1. \A e \in Employees \ Registered : emp'[e] = None
  BY DEF LinkedTo, Registered
<1>2. \A e \in Registered :
          /\ emp'[e] \in Row /\ emp'[e].status = emp[e].status /\ emp'[e].mail = emp[e].mail
          /\ emp'[e].login = IF emp[e].login = l THEN None ELSE emp[e].login
  <2> SUFFICES ASSUME NEW e \in Registered
               PROVE  /\ emp'[e] \in Row /\ emp'[e].status = emp[e].status
                      /\ emp'[e].mail = emp[e].mail
                      /\ emp'[e].login = IF emp[e].login = l THEN None ELSE emp[e].login
    OBVIOUS
  <2>1. e \in Employees /\ emp[e] \in Row
    BY DEF Rows, Registered
  <2>2. CASE emp[e].login = l
    <3>1. emp'[e] = [emp[e] EXCEPT !.login = None]
      BY <2>1, <2>2 DEF LinkedTo
    <3> QED BY <2>1, <2>2, <3>1 DEF Row
  <2>3. CASE emp[e].login # l
    BY <2>1, <2>3 DEF LinkedTo
  <2> QED BY <2>2, <2>3
<1>3. Registered' = Registered
  BY <1>1, <1>2, ConstantsAssumption DEF Registered
<1>4. \A x \in Registered : Unique(x, emp[x])'
  BY <1>2, <1>3 DEF Unique, Rows, Registered
<1>5. DOMAIN emp' = Employees
  OBVIOUS
<1>6. \A x \in Employees : emp'[x] = None \/ (emp'[x] \in Row /\ Unique(x, emp[x])')
  BY <1>1, <1>2, <1>4 DEF Registered
<1> QED BY <1>2, <1>3, <1>5, <1>6 DEF Rows

LEMMA RowsStay == Rows /\ UNCHANGED emp => Rows' /\ Registered' = Registered
BY DEF Rows, Unique, Registered

LEMMA LoggedStays == Logged /\ UNCHANGED acct => Logged' /\ Live' = Live
BY DEF Logged, Live

LEMMA BlankIs ==
    /\ Blank \in Account /\ Blank.state = "none" /\ Blank.role = "employee" /\ Blank.banned = FALSE
BY DEF Blank, Account, Mail, Roles

LEMMA AccountMade ==
    ASSUME Logged, NEW l \in Logins, NEW m \in Emails, NEW role \in Roles,
           MailFree(m), NewAccount(l, m, role)
    PROVE  /\ Logged' /\ Live' = Live \cup {l} /\ l \notin Live
           /\ acct'[l].role = role /\ acct'[l].banned = FALSE
           /\ \A k \in Logins \ {l} : acct'[k] = acct[k]
<1> DEFINE new == [Blank EXCEPT !.state = "live", !.mail = m, !.role = role]
<1>1. /\ new \in Account /\ new.state = "live" /\ new.mail = m /\ new.role = role
      /\ new.banned = FALSE
  BY DEF Blank, Account, Mail
<1>2. acct[l].state = "none" /\ acct' = [acct EXCEPT ![l] = new]
  BY DEF NewAccount
<1> HIDE DEF new
<1>3. acct' \in [Logins -> Account] /\ acct'[l] = new /\ \A k \in Logins \ {l} : acct'[k] = acct[k]
  BY <1>1, <1>2 DEF Logged
<1>4. Live' = Live \cup {l} /\ l \notin Live
  BY <1>1, <1>2, <1>3 DEF Live
<1>5. \A k \in Live : acct'[k] = acct[k] /\ acct[k].mail # m
  BY <1>3, <1>4 DEF MailFree, Live
<1>6. \A j, k \in Live' : acct'[j].mail = acct'[k].mail => j = k
  BY <1>1, <1>3, <1>4, <1>5 DEF Logged
<1> QED BY <1>1, <1>3, <1>4, <1>6 DEF Logged

LEMMA AccountGone ==
    ASSUME Logged, NEW l, acct' = [acct EXCEPT ![l] = [Blank EXCEPT !.state = "gone"]]
    PROVE  /\ Logged' /\ Live' = Live \ {l}
           /\ \A k \in Logins \ {l} : acct'[k] = acct[k]
<1> DEFINE new == [Blank EXCEPT !.state = "gone"]
<1>1. new \in Account /\ new.state = "gone"
  BY DEF Blank, Account, Mail, Roles
<1>2. acct' = [acct EXCEPT ![l] = new]
  OBVIOUS
<1> HIDE DEF new
<1>3. /\ acct' \in [Logins -> Account]
      /\ l \in Logins => acct'[l] = new
      /\ \A k \in Logins \ {l} : acct'[k] = acct[k]
  BY <1>1, <1>2 DEF Logged
<1>4. Live' = Live \ {l}
  BY <1>1, <1>3 DEF Live
<1> QED BY <1>3, <1>4 DEF Logged, Live

(* A role or a suspension that is written.                                 *)
LEMMA AccountSet ==
    ASSUME Logged, NEW l \in Logins, NEW row \in Account, acct' = [acct EXCEPT ![l] = row],
           row.state = acct[l].state, row.mail = acct[l].mail
    PROVE  /\ Logged' /\ Live' = Live /\ acct'[l] = row
           /\ \A k \in Logins \ {l} : acct'[k] = acct[k]
<1>1. /\ acct' \in [Logins -> Account] /\ acct'[l] = row
      /\ \A k \in Logins \ {l} : acct'[k] = acct[k]
  BY DEF Logged
<1>2. Live' = Live /\ \A k \in Logins : acct'[k].mail = acct[k].mail
  BY <1>1 DEF Live
<1> QED BY <1>1, <1>2 DEF Logged, Live

LEMMA RoleSet ==
    ASSUME NEW a \in Account, NEW role \in Roles
    PROVE  LET new == [a EXCEPT !.role = role] IN
           /\ new \in Account /\ new.role = role /\ new.state = a.state /\ new.mail = a.mail
           /\ new.banned = a.banned
BY DEF Account

LEMMA BanSet ==
    ASSUME NEW a \in Account, NEW b \in BOOLEAN
    PROVE  LET new == [a EXCEPT !.banned = b] IN
           /\ new \in Account /\ new.role = a.role /\ new.state = a.state /\ new.mail = a.mail
           /\ (new.banned <=> b)
BY DEF Account

LEMMA CommandStored ==
    ASSUME Commands, NEW s \in Slots, NEW c \in Made \cup {Idle}, Stores(s, c)
    PROVE  Commands' /\ cmd'[s] = c /\ \A r \in Slots \ {s} : cmd'[r] = cmd[r]
BY DEF Commands, Stores

LEMMA WizardsStay == Wizards /\ UNCHANGED wizard => Wizards'
BY DEF Wizards

LEMMA WizardSet ==
    ASSUME Wizards, NEW t \in Terminals, NEW w \in Wizard, wizard' = [wizard EXCEPT ![t] = w]
    PROVE  Wizards'
BY DEF Wizards

LEMMA WizardFreed ==
    ASSUME Wizards, NEW s \in Slots,
           cmd[s].t \in Terminals,
           wizard' = IF cmd[s].wizard THEN [wizard EXCEPT ![cmd[s].t].busy = FALSE] ELSE wizard
    PROVE  Wizards'
<1> DEFINE w == [wizard[cmd[s].t] EXCEPT !.busy = FALSE]
<1>1. wizard[cmd[s].t] \in Wizard
  BY DEF Wizards
<1>2. w \in Wizard
  BY <1>1 DEF Wizard
<1>3. wizard' = wizard \/ wizard' = [wizard EXCEPT ![cmd[s].t] = w]
  OBVIOUS
<1> HIDE DEF w
<1> QED BY <1>2, <1>3, WizardSet, WizardsStay

LEMMA CardShown ==
    ASSUME Wizards, NEW t \in Terminals, NEW e \in Employees, ShowsCard(t, e)
    PROVE  Wizards'
<1> DEFINE w == [[[wizard[t] EXCEPT !.step = "card"] EXCEPT !.who = e] EXCEPT !.busy = FALSE]
<1>1. w \in Wizard
  BY DEF Wizards, Wizard
<1>2. wizard' = [wizard EXCEPT ![t] = w]
  BY DEF ShowsCard, Wizards
<1> HIDE DEF w
<1> QED BY <1>1, <1>2, WizardSet

LEMMA SessionsRevoked ==
    ASSUME Others, NEW l, Revokes(l)
    PROVE  session' \in [Terminals -> Logins \cup {None}]
BY DEF Others, Revokes

LEMMA CommandAt ==
    ASSUME Commands, NEW s \in Slots, cmd[s] # Idle
    PROVE  cmd[s] \in Made
BY DEF Commands

LEMMA CommandEnds ==
    ASSUME Commands, Wizards, NEW s \in Slots, cmd[s] # Idle, Ends(s)
    PROVE  Commands' /\ Wizards' /\ cmd'[s] = Idle /\ \A r \in Slots \ {s} : cmd'[r] = cmd[r]
<1>1. cmd[s].t \in Terminals
  BY CommandAt, Families
<1>2. Stores(s, Idle)
  BY DEF Ends
<1>3. wizard' = IF cmd[s].wizard THEN [wizard EXCEPT ![cmd[s].t].busy = FALSE] ELSE wizard
  BY DEF Ends
<1>4. Wizards'
  BY <1>1, <1>3, WizardFreed
<1> QED BY <1>2, <1>4, CommandStored

LEMMA CommandStarts ==
    ASSUME Commands, odd \subseteq Oddities, NEW s \in Slots, NEW c \in Made,
           NEW oddities \in SUBSET Oddities, Starts(s, c, oddities)
    PROVE  /\ Commands' /\ cmd[s] = Idle /\ cmd'[s] = c
           /\ \A r \in Slots \ {s} : cmd'[r] = cmd[r]
           /\ odd' \subseteq Oddities /\ odd \cup oddities \cup Unlinked(c.t) \subseteq odd'
           /\ Busy => "overlap" \in odd'
<1>1. cmd[s] = Idle /\ Stores(s, c)
  BY DEF Starts, Stores
<1>2. Unlinked(c.t) \subseteq Oddities /\ Overlap \subseteq Oddities
  BY DEF Unlinked, Overlap, Oddities
<1>3. odd' = odd \cup oddities \cup Unlinked(c.t) \cup Overlap
  BY DEF Starts
<1>4. Busy => "overlap" \in Overlap
  BY DEF Overlap
<1> QED BY <1>1, <1>2, <1>3, <1>4, CommandStored

LEMMA SelfOdd == \A t, l : Self(t, l) \in SUBSET Oddities
BY DEF Self, Oddities

-----------------------------------------------------------------------------
(* Types.                                                                  *)

LEMMA TypedInit == Init => Typed
<1> SUFFICES ASSUME Init
             PROVE  Typed
  OBVIOUS
<1> USE DEF Init
<1>1. Rows
  BY DEF Rows
<1>2. Logged
  <2>1. acct \in [Logins -> Account] /\ \A l \in Logins : acct[l] = Blank
    BY BlankIs
  <2>2. Live = {}
    BY <2>1, BlankIs DEF Live
  <2> QED BY <2>1, <2>2 DEF Logged
<1>3. Commands
  BY DEF Commands
<1>4. Wizards
  BY DEF Wizards, Wizard, ClosedWizard
<1>5. Others
  BY DEF Others, Oddities
<1> QED BY <1>1, <1>2, <1>3, <1>4, <1>5 DEF Typed

LEMMA TypedStep == Typed /\ [Next]_vars => Typed'
<1> SUFFICES ASSUME Typed, [Next]_vars
             PROVE  Typed'
  OBVIOUS
<1>a. Rows /\ Logged /\ Commands /\ Wizards /\ Others
  BY DEF Typed
<1>b. Overlap \subseteq Oddities
  BY DEF Overlap, Oddities
<1>c. \A t \in Terminals : Unlinked(t) \subseteq Oddities
  BY DEF Unlinked, Oddities
<1>s. UNCHANGED <<card, session, odd>> => Others'
  BY <1>a DEF Others
<1>u. UNCHANGED cmd => Commands'
  BY <1>a DEF Commands
<1>w. \A t \in Terminals : wizard[t] \in Wizard
  BY <1>a DEF Wizards
<1>1. ASSUME NEW t \in Terminals, CacheExpires(t)
      PROVE  Typed'
  BY <1>1, <1>a, <1>s, <1>u, RowsStay, LoggedStays, WizardsStay DEF CacheExpires, Typed
<1>2. ASSUME NEW t \in Terminals, SignsOut(t)
      PROVE  Typed'
  <2>1. Others'
    BY <1>2, <1>a, <1>b DEF SignsOut, Others
  <2> QED BY <1>2, <2>1, <1>a, <1>u, RowsStay, LoggedStays, WizardsStay DEF SignsOut, Typed
<1>3. ASSUME NEW t \in Terminals, OpensWizard(t) \/ Identifies(t) \/ GoesBack(t) \/ ClosesWizard(t)
      PROVE  Typed'
  <2>1. UNCHANGED <<emp, acct, card, session, cmd, odd>>
    BY <1>3 DEF OpensWizard, Identifies, GoesBack, ClosesWizard
  <2>2. \E w \in Wizard : wizard' = [wizard EXCEPT ![t] = w]
    <3>1. CASE OpensWizard(t)
      <4>1. [wizard[t] EXCEPT !.open = TRUE] \in Wizard
        BY <1>w DEF Wizard
      <4> QED BY <3>1, <4>1 DEF OpensWizard
    <3>2. CASE Identifies(t)
      <4>1. [wizard[t] EXCEPT !.step = "access"] \in Wizard
        BY <1>w DEF Wizard
      <4> QED BY <3>2, <4>1 DEF Identifies
    <3>3. CASE GoesBack(t)
      <4>1. [wizard[t] EXCEPT !.step = "identification"] \in Wizard
        BY <1>w DEF Wizard
      <4> QED BY <3>3, <4>1 DEF GoesBack
    <3>4. CASE ClosesWizard(t)
      <4>1. [Reset(wizard[t]) EXCEPT !.open = FALSE] \in Wizard
        BY <1>w DEF Wizard, Reset
      <4> QED BY <3>4, <4>1 DEF ClosesWizard
    <3> QED BY <1>3, <3>1, <3>2, <3>3, <3>4
  <2>3. Wizards'
    BY <2>2, <1>a, WizardSet
  <2> QED BY <2>1, <2>3, <1>a, <1>s, <1>u, RowsStay, LoggedStays DEF Typed
<1>4. ASSUME NEW t \in Terminals, Provisions(t)
      PROVE  Typed'
  <2>1. [Reset(wizard[t]) EXCEPT !.open = FALSE] \in Wizard
    BY <1>w DEF Wizard, Reset
  <2>2. Wizards'
    BY <1>4, <2>1, <1>a, WizardSet DEF Provisions
  <2>3. Others'
    BY <1>4, <1>a, <1>b DEF Provisions, Others
  <2> QED BY <1>4, <2>2, <2>3, <1>a, <1>u, RowsStay, LoggedStays DEF Provisions, Typed
<1>5. ASSUME NEW t \in Terminals, NEW l \in Logins, SignsIn(t, l)
      PROVE  Typed'
  <2>1. Others'
    BY <1>5, <1>a DEF SignsIn, Others
  <2> QED BY <1>5, <2>1, <1>a, <1>u, RowsStay, LoggedStays, WizardsStay DEF SignsIn, Typed
<1>6. ASSUME NEW t \in Terminals, NEW l \in Logins,
             Bans(t, l) \/ Unbans(t, l) \/ \E r \in Roles : SetsRole(t, l, r)
      PROVE  Typed'
  <2>1. acct[l] \in Account
    BY <1>a DEF Logged
  <2>2. PICK row \in Account : /\ acct' = [acct EXCEPT ![l] = row]
                               /\ row.state = acct[l].state /\ row.mail = acct[l].mail
    <3>1. CASE Bans(t, l)
      BY <3>1, <2>1, BanSet DEF Bans, ChangesAccount
    <3>2. CASE Unbans(t, l)
      BY <3>2, <2>1, BanSet DEF Unbans, ChangesAccount
    <3>3. CASE \E r \in Roles : SetsRole(t, l, r)
      <4>1. PICK r \in Roles : acct' = [acct EXCEPT ![l] = [acct[l] EXCEPT !.role = r]]
        BY <3>3 DEF SetsRole, ChangesAccount
      <4> DEFINE new == [acct[l] EXCEPT !.role = r]
      <4>2. new \in Account /\ new.state = acct[l].state /\ new.mail = acct[l].mail
        BY <2>1, RoleSet
      <4>3. acct' = [acct EXCEPT ![l] = new]
        BY <4>1
      <4> HIDE DEF new
      <4> QED BY <4>2, <4>3
    <3> QED BY <1>6, <3>1, <3>2, <3>3
  <2>3. Logged'
    BY <2>2, <1>a, AccountSet
  <2>4. session' \in [Terminals -> Logins \cup {None}]
    BY <1>6, <1>a, SessionsRevoked DEF Bans, Unbans, SetsRole, Others
  <2>5. UNCHANGED <<emp, card, cmd, wizard>> /\ odd' \subseteq odd \cup {"self"} \cup Unlinked(t) \cup Overlap
    BY <1>6 DEF Bans, Unbans, SetsRole, ChangesAccount, Self
  <2>6. Others'
    BY <2>4, <2>5, <1>a, <1>b, <1>c DEF Others, Oddities
  <2> QED BY <2>3, <2>5, <2>6, <1>a, <1>u, RowsStay, WizardsStay DEF Typed
<1>7. ASSUME NEW t \in Terminals, NEW e \in Employees, Reprovisions(t, e)
      PROVE  Typed'
  <2>1. Others'
    BY <1>7, <1>a, <1>b DEF Reprovisions, Others
  <2> QED BY <1>7, <2>1, <1>a, <1>u, RowsStay, LoggedStays, WizardsStay DEF Reprovisions, Typed
<1>8. ASSUME NEW s \in Slots, NEW t \in Terminals, NEW m \in Emails, Boots(s, t, m)
      PROVE  Typed'
  <2> DEFINE c == [pc |-> "sign-up", t |-> t, mail |-> m, wizard |-> FALSE]
  <2>1. c \in Made
    BY DEF Made, Boot
  <2>2. Starts(s, c, {})
    BY <1>8 DEF Boots
  <2>3. Commands' /\ odd' \subseteq Oddities
    <3> HIDE DEF c
    <3> QED BY <2>1, <2>2, <1>a, CommandStarts DEF Others
  <2> QED BY <1>8, <2>3, <1>a, RowsStay, LoggedStays, WizardsStay DEF Boots, Typed, Others
<1>9. ASSUME NEW s \in Slots, NEW t \in Terminals, NEW m \in Emails, NEW r \in Roles,
             NEW smtp \in BOOLEAN, Registers(s, t, m, r, smtp)
      PROVE  Typed'
  <2> DEFINE c == [pc |-> "insert", t |-> t, mail |-> m, role |-> r, smtp |-> smtp, wizard |-> TRUE]
  <2>1. c \in Made
    BY DEF Made, Registration
  <2>2. Starts(s, c, {})
    BY <1>9 DEF Registers
  <2>3. Commands' /\ odd' \subseteq Oddities
    <3> HIDE DEF c
    <3> QED BY <2>1, <2>2, <1>a, CommandStarts DEF Others
  <2>4. [wizard[t] EXCEPT !.busy = TRUE] \in Wizard
    BY <1>w DEF Wizard
  <2>5. Wizards'
    BY <1>9, <2>4, <1>a, WizardSet DEF Registers
  <2> QED BY <1>9, <2>3, <2>5, <1>a, RowsStay, LoggedStays DEF Registers, Typed, Others
<1>10. ASSUME NEW s \in Slots, NEW t \in Terminals, NEW e \in Employees, AsksTermination(s, t, e)
       PROVE  Typed'
  <2> DEFINE c == [pc |-> "block", t |-> t, e |-> e, row |-> emp[e], wizard |-> FALSE]
  <2>1. emp[e] \in Row
    BY <1>10, <1>a DEF AsksTermination, MayLeave, Registered, Rows
  <2>2. c \in Made
    BY <2>1 DEF Made, Leaving
  <2>3. Starts(s, c, Self(t, LoginOf(e)))
    BY <1>10 DEF AsksTermination
  <2>4. Commands' /\ odd' \subseteq Oddities
    <3> HIDE DEF c
    <3> QED BY <2>2, <2>3, <1>a, SelfOdd, CommandStarts DEF Others
  <2> QED BY <1>10, <2>4, <1>a, RowsStay, LoggedStays, WizardsStay DEF AsksTermination, Typed, Others
<1>11. ASSUME NEW s \in Slots, NEW t \in Terminals, NEW e \in Employees, NEW m \in Emails,
              NEW r \in Roles, AsksAccount(s, t, e, m, r)
       PROVE  Typed'
  <2> DEFINE c == [pc |-> "make", t |-> t, e |-> e, row |-> emp[e], mail |-> m, role |-> r,
                   wizard |-> FALSE]
             o == IF \E x \in Registered \ {e} : emp[x].mail = m THEN {"mail"} ELSE {}
  <2>1. emp[e] \in Row
    BY <1>11, <1>a DEF AsksAccount, EmployeesWithoutAccount, Registered, Rows
  <2>2. c \in Made
    BY <2>1 DEF Made, Creation
  <2>3. Starts(s, c, o)
    BY <1>11 DEF AsksAccount
  <2>4. o \in SUBSET Oddities
    BY DEF Oddities
  <2>5. Commands' /\ odd' \subseteq Oddities
    <3> HIDE DEF c, o
    <3> QED BY <2>2, <2>3, <2>4, <1>a, CommandStarts DEF Others
  <2> QED BY <1>11, <2>5, <1>a, RowsStay, LoggedStays, WizardsStay DEF AsksAccount, Typed, Others
<1>12. ASSUME NEW s \in Slots, NEW t \in Terminals, NEW e \in Employees, NEW m \in Emails \cup {None},
              NEW r \in Roles, AsksProfile(s, t, e, m, r)
       PROVE  Typed'
  <2> DEFINE new == [emp[e] EXCEPT !.mail = m]
             c == [pc |-> "save", t |-> t, e |-> e, row |-> new, role |-> r, wizard |-> FALSE]
             o == IF r # "administrator" THEN Self(t, LoginOf(e)) ELSE {}
  <2>1. emp[e] \in Row
    BY <1>12, <1>a DEF AsksProfile, Registered, Rows
  <2>2. new \in Row
    BY <2>1, RowMails DEF Mail
  <2>3. c \in Made
    <3> HIDE DEF new
    <3> QED BY <2>2 DEF Made, Change
  <2>4. Starts(s, c, o)
    BY <1>12 DEF AsksProfile
  <2>5. o \in SUBSET Oddities
    BY SelfOdd
  <2>6. Commands' /\ odd' \subseteq Oddities
    <3> HIDE DEF c, o
    <3> QED BY <2>3, <2>4, <2>5, <1>a, CommandStarts DEF Others
  <2> QED BY <1>12, <2>6, <1>a, RowsStay, LoggedStays, WizardsStay DEF AsksProfile, Typed, Others
<1>13. ASSUME NEW s \in Slots, NEW t \in Terminals, NEW l \in Logins, AsksRemoval(s, t, l)
       PROVE  Typed'
  <2> DEFINE c == [pc |-> "drop", t |-> t, l |-> l, wizard |-> FALSE]
  <2>1. c \in Made
    BY DEF Made, Removal
  <2>2. Starts(s, c, Self(t, l))
    BY <1>13 DEF AsksRemoval
  <2>3. Commands' /\ odd' \subseteq Oddities
    <3> HIDE DEF c
    <3> QED BY <2>1, <2>2, <1>a, SelfOdd, CommandStarts DEF Others
  <2>4. Rows'
    BY <1>13, <1>a, RowsUnlinked DEF AsksRemoval
  <2> QED BY <1>13, <2>3, <2>4, <1>a, LoggedStays, WizardsStay DEF AsksRemoval, Typed, Others
<1>14. ASSUME NEW s \in Slots, SignsUp(s)
       PROVE  Typed'
  <2>1. cmd[s] \in Boot
    BY <1>14, <1>a, CommandAt, Families DEF SignsUp, At
  <2>2. CASE Ends(s) /\ UNCHANGED acct
    BY <1>14, <2>2, <1>a, <1>s, RowsStay, LoggedStays, CommandEnds DEF SignsUp, At, Typed
  <2>3. ASSUME NEW l \in Logins, MailFree(cmd[s].mail), NewAccount(l, cmd[s].mail, "employee"),
               Stores(s, [pc |-> "promote", t |-> cmd[s].t, mail |-> cmd[s].mail,
                          l |-> l, wizard |-> FALSE]), UNCHANGED wizard
        PROVE  Typed'
    <3>1. cmd[s].t \in Terminals /\ cmd[s].mail \in Emails
      BY <2>1 DEF Boot
    <3>2. [pc |-> "promote", t |-> cmd[s].t, mail |-> cmd[s].mail, l |-> l, wizard |-> FALSE] \in Made
      BY <3>1 DEF Made, Entry
    <3>3. Commands'
      BY <2>3, <3>2, <1>a, CommandStored
    <3>4. Logged'
      BY <2>3, <3>1, <1>a, AccountMade DEF Roles
    <3> QED BY <1>14, <2>3, <3>3, <3>4, <1>a, <1>s, RowsStay, WizardsStay DEF SignsUp, Typed
  <2> QED BY <1>14, <2>2, <2>3 DEF SignsUp
<1>15. ASSUME NEW s \in Slots, Promotes(s)
       PROVE  Typed'
  <2>1. cmd[s] \in Entry
    BY <1>15, <1>a, CommandAt, Families DEF Promotes, At
  <2>2. CASE Ends(s) /\ UNCHANGED acct
    BY <1>15, <2>2, <1>a, <1>s, RowsStay, LoggedStays, CommandEnds DEF Promotes, At, Typed
  <2>3. CASE /\ cmd[s].l \in Live
             /\ acct' = [acct EXCEPT ![cmd[s].l].role = "administrator"]
             /\ To(s, "enter")
             /\ UNCHANGED wizard
    <3>1. [cmd[s] EXCEPT !.pc = "enter"] \in Made
      BY <2>1, EntryMoves DEF Made
    <3>2. Commands'
      BY <2>3, <3>1, <1>a, CommandStored DEF To
    <3>3. cmd[s].l \in Logins /\ acct[cmd[s].l] \in Account
      BY <2>3, <1>a DEF Live, Logged
    <3>4. acct' = [acct EXCEPT ![cmd[s].l] = [acct[cmd[s].l] EXCEPT !.role = "administrator"]]
      BY <2>3
    <3>5. Logged'
      BY <3>3, <3>4, <1>a, RoleSet, AccountSet DEF Roles
    <3> QED BY <1>15, <2>3, <3>2, <3>5, <1>a, <1>s, RowsStay, WizardsStay DEF Promotes, Typed
  <2> QED BY <1>15, <2>2, <2>3 DEF Promotes
<1>16. ASSUME NEW s \in Slots, NEW e \in Employees, Enters(s, e)
       PROVE  Typed'
  <2> DEFINE row == [status |-> "active", mail |-> cmd[s].mail, login |-> cmd[s].l]
  <2>1. cmd[s] \in Entry
    BY <1>16, <1>a, CommandAt, Families DEF Enters, At
  <2>2. row \in Row
    BY <2>1 DEF Entry, Row, Mail
  <2>3. Commands' /\ Wizards'
    BY <1>16, <1>a, CommandEnds DEF Enters, At
  <2>4. Rows'
    <3>1. CASE Unique(e, row)
      <4>1. Upsert(e, row)
        BY <1>16, <3>1 DEF Enters
      <4> HIDE DEF row
      <4> QED BY <2>2, <3>1, <4>1, <1>a, RowsUpserted
    <3>2. CASE ~Unique(e, row)
      BY <1>16, <3>2, <1>a, RowsStay DEF Enters
    <3> QED BY <3>1, <3>2
  <2>5. Others'
    BY <1>16, <2>1, <1>a DEF Enters, Others, Oddities, Entry
  <2> QED BY <1>16, <2>3, <2>4, <2>5, <1>a, LoggedStays DEF Enters, Typed
<1>17. ASSUME NEW s \in Slots, MakesAccount(s)
       PROVE  Typed'
  <2>1. cmd[s] \in Creation
    BY <1>17, <1>a, CommandAt, Families DEF MakesAccount, At
  <2>2. CASE Ends(s) /\ UNCHANGED acct
    BY <1>17, <2>2, <1>a, <1>s, RowsStay, LoggedStays, CommandEnds DEF MakesAccount, At, Typed
  <2>3. ASSUME NEW l \in Logins, MailFree(cmd[s].mail), NewAccount(l, cmd[s].mail, cmd[s].role),
               Stores(s, [cmd[s] EXCEPT !.pc = "link",
                          !.row = [@ EXCEPT !.login = l, !.mail = cmd[s].mail]]),
               UNCHANGED wizard
        PROVE  Typed'
    <3> DEFINE c == [cmd[s] EXCEPT !.pc = "link",
                     !.row = [@ EXCEPT !.login = l, !.mail = cmd[s].mail]]
    <3>1. c \in Made
      BY <2>1, LinkMade DEF Made
    <3>2. Commands'
      <4>1. Stores(s, c)
        BY <2>3
      <4> HIDE DEF c
      <4> QED BY <3>1, <4>1, <1>a, CommandStored
    <3>3. cmd[s].mail \in Emails /\ cmd[s].role \in Roles
      BY <2>1 DEF Creation
    <3>4. Logged'
      BY <2>3, <3>3, <1>a, AccountMade
    <3> QED BY <1>17, <2>3, <3>2, <3>4, <1>a, <1>s, RowsStay, WizardsStay DEF MakesAccount, Typed
  <2> QED BY <1>17, <2>2, <2>3 DEF MakesAccount
<1>18. ASSUME NEW s \in Slots, LinksAccount(s)
       PROVE  Typed'
  <2>1. cmd[s] \in Creation
    BY <1>18, <1>a, CommandAt, Families DEF LinksAccount, At
  <2>2. cmd[s].e \in Employees /\ cmd[s].row \in Row
    BY <2>1 DEF Creation
  <2>3. Others'
    BY <1>18, <1>a DEF LinksAccount, Others, Oddities
  <2>4. CASE Unique(cmd[s].e, cmd[s].row)
    <3>1. Upsert(cmd[s].e, cmd[s].row) /\ To(s, "mail") /\ UNCHANGED <<wizard, acct>>
      BY <1>18, <2>4 DEF LinksAccount
    <3>2. Rows'
      BY <2>2, <2>4, <3>1, <1>a, RowsUpserted
    <3>3. [cmd[s] EXCEPT !.pc = "mail"] \in Made
      BY <2>1, CreationMoves DEF Made
    <3>4. Commands'
      BY <3>1, <3>3, <1>a, CommandStored DEF To
    <3> QED BY <2>3, <3>1, <3>2, <3>4, <1>a, LoggedStays, WizardsStay DEF Typed
  <2>5. CASE ~Unique(cmd[s].e, cmd[s].row)
    <3>1. Ends(s) /\ UNCHANGED <<emp, acct>> /\ cmd[s] # Idle
      BY <1>18, <2>5 DEF LinksAccount, At
    <3> QED BY <3>1, <2>3, <1>a, RowsStay, LoggedStays, CommandEnds DEF Typed
  <2> QED BY <2>4, <2>5
<1>19. ASSUME NEW s \in Slots, MailsLink(s)
       PROVE  Typed'
  <2>1. cmd[s] \in Creation
    BY <1>19, <1>a, CommandAt, Families DEF MailsLink, At
  <2>2. cmd[s].e \in Employees /\ cmd[s].t \in Terminals
    BY <2>1 DEF Creation
  <2>3. Wizards'
    BY <1>19, <2>2, <1>a, CardShown, WizardsStay DEF MailsLink
  <2>4. Commands'
    BY <1>19, <1>a, CommandStored DEF MailsLink
  <2> QED BY <1>19, <2>3, <2>4, <1>a, <1>s, RowsStay, LoggedStays DEF MailsLink, Typed
<1>20. ASSUME NEW s \in Slots, NEW e \in Employees, Inserts(s, e)
       PROVE  Typed'
  <2> DEFINE row == [status |-> "active", mail |-> cmd[s].mail, login |-> None]
             c == [pc |-> "make", t |-> cmd[s].t, e |-> e, row |-> row, mail |-> cmd[s].mail,
                   role |-> cmd[s].role, wizard |-> TRUE]
  <2>1. cmd[s] \in Registration /\ cmd[s] # Idle
    BY <1>20, <1>a, CommandAt, Families DEF Inserts, At
  <2>2. row \in Row
    BY <2>1 DEF Registration, Row, Mail
  <2>3. c \in Made
    <3> HIDE DEF row
    <3> QED BY <2>1, <2>2 DEF Made, Creation, Registration
  <2>4. Rows'
    <3>1. CASE Unique(e, row)
      <4>1. Upsert(e, row)
        BY <1>20, <3>1 DEF Inserts
      <4> HIDE DEF row
      <4> QED BY <2>2, <3>1, <4>1, <1>a, RowsUpserted
    <3>2. CASE ~Unique(e, row)
      BY <1>20, <3>2, <1>a, RowsStay DEF Inserts
    <3> QED BY <3>1, <3>2
  <2>5. \/ Stores(s, c) /\ UNCHANGED wizard
        \/ Ends(s)
        \/ Stores(s, Idle) /\ ShowsCard(cmd[s].t, e)
    BY <1>20 DEF Inserts
  <2>6. Commands' /\ Wizards'
    <3>1. cmd[s].t \in Terminals
      BY <2>1 DEF Registration
    <3> HIDE DEF c
    <3>2. CASE Stores(s, c) /\ UNCHANGED wizard
      BY <3>2, <2>3, <1>a, CommandStored, WizardsStay
    <3>3. CASE Ends(s)
      BY <3>3, <2>1, <1>a, CommandEnds
    <3>4. CASE Stores(s, Idle) /\ ShowsCard(cmd[s].t, e)
      BY <3>1, <3>4, <1>a, CommandStored, CardShown
    <3> QED BY <2>5, <3>2, <3>3, <3>4
  <2> QED BY <1>20, <2>4, <2>6, <1>a, <1>s, LoggedStays DEF Inserts, Typed
<1>21. ASSUME NEW s \in Slots, SavesProfile(s)
       PROVE  Typed'
  <2>1. cmd[s] \in Change
    BY <1>21, <1>a, CommandAt, Families DEF SavesProfile, At
  <2>2. cmd[s].e \in Employees /\ cmd[s].row \in Row
    BY <2>1 DEF Change
  <2>3. [cmd[s] EXCEPT !.pc = "role"] \in Made
    BY <2>1, ChangeMoves DEF Made
  <2>4. Commands'
    BY <1>21, <2>3, <1>a, CommandStored DEF SavesProfile, To
  <2>5. Rows'
    BY <1>21, <2>2, <1>a, RowsUpserted, RowsStay DEF SavesProfile
  <2> QED BY <1>21, <2>4, <2>5, <1>a, <1>s, LoggedStays, WizardsStay DEF SavesProfile, Typed
<1>22. ASSUME NEW s \in Slots, SetsRoleOf(s)
       PROVE  Typed'
  <2> DEFINE l == cmd[s].row.login
  <2>1. cmd[s] \in Change
    BY <1>22, <1>a, CommandAt, Families DEF SetsRoleOf, At
  <2>2. Logged'
    <3>1. CASE l \in Live
      <4>1. l \in Logins /\ acct[l] \in Account /\ cmd[s].role \in Roles
        BY <2>1, <3>1, <1>a DEF Live, Logged, Change
      <4>2. acct' = [acct EXCEPT ![l] = [acct[l] EXCEPT !.role = cmd[s].role]]
        BY <1>22, <3>1 DEF SetsRoleOf
      <4> DEFINE new == [acct[l] EXCEPT !.role = cmd[s].role]
      <4>3. new \in Account /\ new.state = acct[l].state /\ new.mail = acct[l].mail
        BY <4>1, RoleSet
      <4> HIDE DEF l
      <4>4. acct' = [acct EXCEPT ![l] = new]
        BY <4>2
      <4> HIDE DEF new
      <4> QED BY <4>1, <4>3, <4>4, <1>a, AccountSet
    <3>2. CASE l \notin Live
      BY <1>22, <3>2, <1>a, LoggedStays DEF SetsRoleOf
    <3> QED BY <3>1, <3>2
  <2>3. Commands'
    BY <1>22, <1>a, CommandStored DEF SetsRoleOf
  <2> QED BY <1>22, <2>2, <2>3, <1>a, <1>s, RowsStay, WizardsStay DEF SetsRoleOf, Typed
<1>23. ASSUME NEW s \in Slots, BlocksCards(s)
       PROVE  Typed'
  <2>1. cmd[s] \in Leaving
    BY <1>23, <1>a, CommandAt, Families DEF BlocksCards, At
  <2>2. [cmd[s] EXCEPT !.pc = "mark"] \in Made /\ [cmd[s] EXCEPT !.pc = "remove"] \in Made
    BY <2>1, LeavingMoves DEF Made
  <2>3. Commands'
    BY <1>23, <2>2, <1>a, CommandStored DEF BlocksCards, To
  <2>4. Others'
    BY <1>23, <1>a DEF BlocksCards, Others
  <2> QED BY <1>23, <2>3, <2>4, <1>a, RowsStay, LoggedStays, WizardsStay DEF BlocksCards, Typed
<1>24. ASSUME NEW s \in Slots, RemovesLogin(s)
       PROVE  Typed'
  <2>1. cmd[s] \in Leaving
    BY <1>24, <1>a, CommandAt, Families DEF RemovesLogin, At
  <2>2. [cmd[s] EXCEPT !.pc = "mark"] \in Made
    BY <2>1, LeavingMoves DEF Made
  <2>3. Commands'
    BY <1>24, <2>2, <1>a, CommandStored DEF RemovesLogin, To
  <2>4. Logged'
    BY <1>24, <1>a, AccountGone, LoggedStays DEF RemovesLogin, RemovesUser
  <2>5. Others'
    BY <1>24, <1>a, SessionsRevoked DEF RemovesLogin, RemovesUser, Others
  <2> QED BY <1>24, <2>3, <2>4, <2>5, <1>a, RowsStay, WizardsStay DEF RemovesLogin, Typed
<1>25. ASSUME NEW s \in Slots, MarksTerminated(s)
       PROVE  Typed'
  <2>1. cmd[s] \in Leaving
    BY <1>25, <1>a, CommandAt, Families DEF MarksTerminated, At
  <2>2. cmd[s].e \in Employees /\ Terminated(cmd[s].row) \in Row
    BY <2>1, RowLeaves DEF Leaving
  <2>3. Commands'
    BY <1>25, <1>a, CommandStored DEF MarksTerminated
  <2>4. Rows'
    BY <1>25, <2>2, <1>a, RowsUpserted, RowsStay DEF MarksTerminated
  <2> QED BY <1>25, <2>3, <2>4, <1>a, <1>s, LoggedStays, WizardsStay DEF MarksTerminated, Typed
<1>26. ASSUME NEW s \in Slots, DropsUser(s)
       PROVE  Typed'
  <2>1. Commands'
    BY <1>26, <1>a, CommandStored DEF DropsUser
  <2>2. Logged'
    BY <1>26, <1>a, AccountGone, LoggedStays DEF DropsUser, RemovesUser
  <2>3. Others'
    BY <1>26, <1>a, SessionsRevoked DEF DropsUser, RemovesUser, Others
  <2> QED BY <1>26, <2>1, <2>2, <2>3, <1>a, RowsStay, WizardsStay DEF DropsUser, Typed
<1>27. ASSUME NEW s \in Slots, Fails(s)
       PROVE  Typed'
  <2>1. Commands' /\ Wizards'
    BY <1>27, <1>a, CommandEnds DEF Fails
  <2>2. Others'
    BY <1>27, <1>a DEF Fails, Others, Oddities
  <2> QED BY <1>27, <2>1, <2>2, <1>a, RowsStay, LoggedStays DEF Fails, Typed
<1>28. CASE UNCHANGED vars
  BY <1>28, <1>a, <1>s, <1>u, RowsStay, LoggedStays, WizardsStay DEF vars, Typed
<1> QED BY <1>1, <1>2, <1>3, <1>4, <1>5, <1>6, <1>7, <1>8, <1>9, <1>10, <1>11, <1>12, <1>13, <1>14,
           <1>15, <1>16, <1>17, <1>18, <1>19, <1>20, <1>21, <1>22, <1>23, <1>24, <1>25, <1>26, <1>27,
           <1>28 DEF Next

(* Rows and accounts are well formed in every reachable state; employees do *)
(* not share an e-mail or a login (UNIQUE of the table), nor do accounts.   *)
THEOREM TypeCorrect == Spec => []TypeOK
<1>1. Init => Typed
  BY TypedInit
<1>2. Typed /\ [Next]_vars => Typed'
  BY TypedStep
<1>3. Typed => TypeOK
  BY TypedIsTypeOK
<1> QED BY <1>1, <1>2, <1>3, PTL DEF Spec

-----------------------------------------------------------------------------
(* Without overlap there is one command, and the row it holds is the one   *)
(* that is stored.                                                         *)

Alive(l) == l \in Logins /\ acct[l].state = "live"
Has(e, l) == emp[e] # None /\ emp[e].login = l
Linked(l) == \E e \in Employees : Has(e, l)

Alone == "overlap" \notin odd => \A s, r \in Slots : cmd[s] # Idle /\ cmd[r] # Idle => s = r

FreshRow(c) ==
    /\ c.pc \in {"make", "link"} => Has(c.e, None) /\ c.row.status = emp[c.e].status
    /\ c.pc \in {"save", "role"} => Has(c.e, c.row.login) /\ c.row.status = emp[c.e].status
    /\ c.pc \in {"block", "remove", "mark"} => emp[c.e] = c.row
    /\ c.pc \in {"remove", "mark"} => ~card[c.e]
    /\ c.pc = "mark" => ~Alive(c.row.login)

Fresh == "overlap" \notin odd => \A s \in Slots : cmd[s] # Idle => FreshRow(cmd[s])

-----------------------------------------------------------------------------
(* Whoever changes accounts is an administrator who keeps its own.         *)

Calm == "overlap" \notin odd /\ "self" \notin odd /\ "unlinked" \notin odd

Keeps(l) == Alive(l) /\ acct[l].role = "administrator" /\ ~acct[l].banned
Keeper(l) == Keeps(l) /\ Linked(l)

Spares(c) ==
    /\ c.pc = "promote" => Alive(c.l) /\ ~acct[c.l].banned
    /\ c.pc = "enter" => Keeps(c.l)
    /\ c.pc \in {"save", "role", "block", "remove", "mark", "drop"} => Keeper(session[c.t])
    /\ c.pc \in {"save", "role"} /\ c.role # "administrator" => c.row.login # session[c.t]
    /\ c.pc \in {"block", "remove", "mark"} => c.row.login # session[c.t]
    /\ c.pc = "drop" => c.l # session[c.t]

Sparing == Calm => \A s \in Slots : cmd[s] # Idle => Spares(cmd[s])

Remains == booted /\ Calm => \E l \in Logins : Keeper(l)

-----------------------------------------------------------------------------
(* What a command still has to link or to forget, when nothing odd came.   *)

Finishes(c, l) ==
    \/ c.pc \in {"promote", "enter", "drop"} /\ c.l = l
    \/ c.pc = "link" /\ c.row.login = l

Marks(c, e) == c.pc = "mark" /\ c.e = e

Promised(c) ==
    /\ c.pc = "sign-up" => \A l \in Logins : ~Alive(l)
    /\ c.pc = "promote" => \A l \in Logins : Alive(l) <=> l = c.l
    /\ c.pc = "enter" => Alive(c.l)
    /\ c.pc = "link" => Alive(c.row.login)
    /\ c.pc = "drop" => ~Linked(c.l)

AccountsLinked ==
    odd = {} => \A l \in Logins :
        Alive(l) => Linked(l) \/ \E s \in Slots : cmd[s] # Idle /\ Finishes(cmd[s], l)

RowsLinked ==
    odd = {} => \A e \in Employees : emp[e] # None =>
        \/ emp[e].login = None \/ Alive(emp[e].login)
        \/ \E s \in Slots : cmd[s] # Idle /\ Marks(cmd[s], e)

Promises == odd = {} => \A s \in Slots : cmd[s] # Idle => Promised(cmd[s])

Deep == Alone /\ Fresh /\ Sparing /\ Remains /\ AccountsLinked /\ RowsLinked /\ Promises
AccountsInv == Typed /\ Deep
-----------------------------------------------------------------------------
(* What holds of every step of a command, and of what acts beside them.    *)

LEMMA OneActs ==
    ASSUME Alone, odd \subseteq odd', NEW s \in Slots,
           \A r \in Slots \ {s} : cmd'[r] = cmd[r],
           cmd[s] # Idle \/ (Busy => "overlap" \in odd')
    PROVE  /\ Alone'
           /\ "overlap" \notin odd' =>
                 /\ "overlap" \notin odd
                 /\ \A r \in Slots : cmd[r] # Idle \/ cmd'[r] # Idle => r = s
BY DEF Alone, Busy

(* Nothing is under way when something starts, unless it overlaps.         *)
LEMMA NothingElse ==
    ASSUME odd \subseteq odd', Busy => "overlap" \in odd', cmd' = cmd
    PROVE  /\ "overlap" \notin odd' => \A r \in Slots : cmd[r] = Idle
           /\ Alone' /\ Fresh' /\ Sparing' /\ Promises'
<1>1. "overlap" \notin odd' => \A r \in Slots : cmd[r] = Idle /\ cmd'[r] = Idle
  BY DEF Busy
<1> QED BY <1>1 DEF Alone, Fresh, Sparing, Calm, Promises

(* The gate lets an administrator through, who has a row or had it.        *)
LEMMA GateKeeps ==
    ASSUME Others, NEW t \in Terminals, Gate(t), Unlinked(t) \subseteq odd', "unlinked" \notin odd'
    PROVE  Keeper(session[t]) /\ session[t] # None
<1>1. Alive(session[t]) /\ Keeps(session[t])
  BY DEF Gate, Permitted, Live, Alive, Keeps
<1>2. session[t] # None
  BY <1>1, ConstantsAssumption DEF Alive
<1>3. LinkedTo(session[t]) # {}
  BY <1>2 DEF Unlinked
<1>4. Linked(session[t])
  BY <1>3 DEF LinkedTo, Linked, Has, Registered
<1> QED BY <1>1, <1>2, <1>4 DEF Keeper

LEMMA RowIsNotNone == \A row \in Row : row # None
BY ConstantsAssumption

(* An upsert of a row with the login that it has, or where it has none.    *)
LEMMA LinksKept ==
    ASSUME NEW e \in Employees, NEW row \in Row, emp'[e] = row,
           \A x \in Employees \ {e} : emp'[x] = emp[x],
           emp[e] = None \/ emp[e].login \in {row.login, None}
    PROVE  /\ Has(e, row.login)' /\ (Linked(row.login))'
           /\ \A l \in Logins : Linked(l) => Linked(l)'
<1>1. row # None
  BY RowIsNotNone
<1> QED BY <1>1, ConstantsAssumption DEF Linked, Has

LEMMA LinksStay == UNCHANGED emp => \A l : Linked(l)' <=> Linked(l)
BY DEF Linked, Has

LEMMA DeepInit == Init => Deep
<1> SUFFICES ASSUME Init
             PROVE  Deep
  OBVIOUS
<1>1. \A s \in Slots : cmd[s] = Idle
  BY DEF Init
<1>2. \A l \in Logins : ~Alive(l)
  BY BlankIs DEF Init, Alive
<1>3. \A e \in Employees : emp[e] = None
  BY DEF Init
<1>4. ~booted
  BY DEF Init
<1> QED BY <1>1, <1>2, <1>3, <1>4
      DEF Deep, Alone, Fresh, Sparing, Remains, AccountsLinked, RowsLinked, Promises

LEMMA DeepStep == Typed /\ Typed' /\ Deep /\ [Next]_vars => Deep'
<1> SUFFICES ASSUME Typed, Typed', Deep, [Next]_vars
             PROVE  Deep'
  OBVIOUS
<1>a. Rows /\ Logged /\ Commands /\ Wizards /\ Others
  BY DEF Typed
<1>b. Alone /\ Fresh /\ Sparing /\ Remains /\ AccountsLinked /\ RowsLinked /\ Promises
  BY DEF Deep
<1>c. odd \subseteq odd' /\ UNCHANGED <<emp, acct, cmd, booted>> =>
          Remains' /\ AccountsLinked' /\ RowsLinked'
  <2> SUFFICES ASSUME odd \subseteq odd', UNCHANGED <<emp, acct, cmd, booted>>
               PROVE  Remains' /\ AccountsLinked' /\ RowsLinked'
    OBVIOUS
  <2>1. Remains'
    BY <1>b DEF Remains, Calm, Keeper, Keeps, Alive, Linked, Has
  <2>2. AccountsLinked'
    BY <1>b DEF AccountsLinked, Alive, Linked, Has, Finishes
  <2>3. RowsLinked'
    BY <1>b DEF RowsLinked, Alive, Marks
  <2> QED BY <2>1, <2>2, <2>3
<1>1. ASSUME UNCHANGED <<emp, acct, card, cmd, booted, odd>>,
             \A t \in Terminals : session[t] # None => session'[t] = session[t]
      PROVE  Deep'
  <2>1. Alone' /\ Fresh' /\ Promises'
    BY <1>1, <1>b DEF Alone, Fresh, FreshRow, Promises, Promised, Alive, Has, Linked
  <2>2. Sparing'
    <3> SUFFICES ASSUME Calm', NEW s \in Slots, cmd'[s] # Idle
                 PROVE  Spares(cmd[s])'
      BY DEF Sparing
    <3>1. Spares(cmd[s]) /\ cmd'[s] = cmd[s]
      BY <1>1, <1>b DEF Sparing, Calm
    <3>2. cmd[s].t \in Terminals
      BY <1>1, <1>a, CommandAt, Families
    <3>3. Keeper(session[cmd[s].t]) => session'[cmd[s].t] = session[cmd[s].t]
      BY <1>1, <3>2, ConstantsAssumption DEF Keeper, Keeps, Alive
    <3> QED BY <1>1, <3>1, <3>3 DEF Spares, Keeper, Keeps, Alive, Linked, Has
  <2> QED BY <1>1, <2>1, <2>2, <1>c DEF Deep
<1>2. ASSUME NEW t \in Terminals,
             CacheExpires(t) \/ OpensWizard(t) \/ Identifies(t) \/ GoesBack(t) \/ ClosesWizard(t)
             \/ \E l \in Logins : SignsIn(t, l)
      PROVE  Deep'
  <2>1. UNCHANGED <<emp, acct, card, cmd, booted, odd>>
    BY <1>2 DEF CacheExpires, OpensWizard, Identifies, GoesBack, ClosesWizard, SignsIn
  <2>2. \A u \in Terminals : session[u] # None => session'[u] = session[u]
    BY <1>2, <1>a DEF CacheExpires, OpensWizard, Identifies, GoesBack, ClosesWizard, SignsIn, Others
  <2> QED BY <2>1, <2>2, <1>1
<1>3. ASSUME NEW t \in Terminals,
             SignsOut(t) \/ Provisions(t) \/ \E e \in Employees : Reprovisions(t, e)
      PROVE  Deep'
  <2>1. UNCHANGED <<emp, acct, cmd, booted>> /\ odd' = odd \cup Overlap
    BY <1>3 DEF SignsOut, Provisions, Reprovisions
  <2>2. Alone' /\ Fresh' /\ Sparing' /\ Promises'
    BY <2>1, NothingElse DEF Overlap
  <2> QED BY <2>1, <2>2, <1>c DEF Deep
<1>4. ASSUME NEW t \in Terminals, NEW l \in Logins,
             Bans(t, l) \/ Unbans(t, l) \/ \E r \in Roles : SetsRole(t, l, r)
      PROVE  Deep'
  <2>1. PICK o, row : ChangesAccount(t, l, row, o) /\ row.state = acct[l].state
                      /\ (session[t] # l \/ Unbans(t, l) \/ o = Self(t, l))
    <3>1. acct[l] \in Account
      BY <1>a DEF Logged
    <3>2. CASE Bans(t, l)
      BY <3>1, <3>2, BanSet DEF Bans
    <3>3. CASE Unbans(t, l)
      BY <3>1, <3>3, BanSet DEF Unbans
    <3>4. CASE \E r \in Roles : SetsRole(t, l, r)
      <4>1. PICK r \in Roles : SetsRole(t, l, r)
        BY <3>4
      <4> QED BY <3>1, <4>1, RoleSet DEF SetsRole
    <3> QED BY <1>4, <3>2, <3>3, <3>4
  <2>2. /\ UNCHANGED <<emp, cmd, booted>> /\ Gate(t) /\ acct' = [acct EXCEPT ![l] = row]
        /\ odd' = odd \cup o \cup Unlinked(t) \cup Overlap
    BY <2>1 DEF ChangesAccount
  <2>3. Alone' /\ Fresh' /\ Sparing' /\ Promises'
    BY <2>2, NothingElse DEF Overlap
  <2>4. acct'[l] = row /\ \A k \in Logins \ {l} : acct'[k] = acct[k]
    BY <2>2, <1>a DEF Logged
  <2>5. \A k : Alive(k)' <=> Alive(k)
    BY <2>1, <2>4 DEF Alive
  <2>6. Remains'
    <3> SUFFICES ASSUME Calm'
                 PROVE  \E k \in Logins : Keeper(k)'
      BY DEF Remains
    <3>1. Keeper(session[t]) /\ session[t] # None
      BY <2>2, <1>a, GateKeeps DEF Calm
    <3>2. session[t] \in Logins
      BY <3>1 DEF Keeper, Keeps, Alive
    <3>3. CASE session[t] # l
      <4> DEFINE me == session[t]
      <4>1. Keeper(me) /\ me \in Logins /\ me # l
        BY <3>1, <3>2, <3>3
      <4> HIDE DEF me
      <4>2. PICK k \in Logins : k = me
        BY <4>1
      <4> QED BY <4>1, <4>2, <2>2, <2>4 DEF Keeper, Keeps, Alive, Linked, Has
    <3>4. CASE session[t] = l
      <4>1. Unbans(t, l)
        BY <2>1, <2>2, <3>1, <3>4 DEF Calm, Self
      <4> QED BY <3>1, <3>4, <4>1 DEF Unbans, Keeper, Keeps
    <3> QED BY <3>3, <3>4
  <2>7. AccountsLinked'
    BY <2>2, <2>5, <1>b, LinksStay DEF AccountsLinked, Finishes
  <2>8. RowsLinked'
    BY <2>2, <2>5, <1>b DEF RowsLinked, Marks
  <2> QED BY <2>3, <2>6, <2>7, <2>8 DEF Deep
<1>5. ASSUME NEW s \in Slots, NEW c \in Made, NEW o \in SUBSET Oddities, Starts(s, c, o),
             UNCHANGED <<emp, acct, card, session, booted>>,
             "overlap" \notin odd' => FreshRow(c),
             Calm' => Spares(c),
             odd' = {} => Promised(c)
      PROVE  Deep'
  <2>1. /\ cmd[s] = Idle /\ cmd'[s] = c /\ odd \subseteq odd'
        /\ Busy => "overlap" \in odd'
        /\ \A r \in Slots \ {s} : cmd'[r] = cmd[r]
    BY <1>5, <1>a, CommandStarts DEF Others
  <2>2. Alone' /\ ("overlap" \notin odd' => \A r \in Slots : cmd[r] = Idle /\ (cmd'[r] # Idle => r = s))
    BY <1>b, <2>1, OneActs
  <2>3. Fresh'
    BY <1>5, <2>1, <2>2 DEF Fresh, FreshRow, Has, Alive
  <2>4. Sparing'
    BY <1>5, <2>1, <2>2 DEF Sparing, Calm, Spares, Keeper, Keeps, Alive, Linked, Has
  <2>5. Promises'
    BY <1>5, <2>1, <2>2 DEF Promises, Promised, Alive, Linked, Has
  <2>6. Remains'
    BY <1>5, <1>b, <2>1 DEF Remains, Calm, Keeper, Keeps, Alive, Linked, Has
  <2>7. AccountsLinked' /\ RowsLinked'
    BY <1>5, <1>b, <2>1, <2>2 DEF AccountsLinked, RowsLinked, Alive, Linked, Has
  <2> QED BY <2>2, <2>3, <2>4, <2>5, <2>6, <2>7 DEF Deep
<1>6. ASSUME NEW s \in Slots, NEW t \in Terminals, NEW m \in Emails, Boots(s, t, m)
      PROVE  Deep'
  <2> DEFINE c == [pc |-> "sign-up", t |-> t, mail |-> m, wizard |-> FALSE]
  <2>1. c \in Made /\ c.pc = "sign-up"
    BY DEF Made, Boot
  <2>2. Starts(s, c, {}) /\ UNCHANGED <<emp, acct, card, session, booted>> /\ ~HasLoginAccount
    BY <1>6 DEF Boots
  <2> HIDE DEF c
  <2>3. odd' = {} => Promised(c)
    <3> SUFFICES ASSUME odd' = {}
                 PROVE  \A l \in Logins : ~Alive(l)
      BY <2>1 DEF Promised
    <3>1. odd = {} /\ ~Busy
      BY <2>1, <2>2, <1>a, CommandStarts DEF Others
    <3>2. \A l \in Logins : ~Linked(l)
      BY <2>2, ConstantsAssumption DEF HasLoginAccount, Linked, Has, Registered
    <3> QED BY <3>1, <3>2, <1>b DEF AccountsLinked, Busy
  <2>4. FreshRow(c) /\ Spares(c)
    BY <2>1 DEF FreshRow, Spares
  <2> QED BY <2>1, <2>2, <2>3, <2>4, <1>5
<1>7. ASSUME NEW s \in Slots, NEW t \in Terminals, NEW m \in Emails, NEW r \in Roles,
             NEW smtp \in BOOLEAN, Registers(s, t, m, r, smtp)
      PROVE  Deep'
  <2> DEFINE c == [pc |-> "insert", t |-> t, mail |-> m, role |-> r, smtp |-> smtp, wizard |-> TRUE]
  <2>1. c \in Made /\ c.pc = "insert"
    BY DEF Made, Registration
  <2>2. Starts(s, c, {}) /\ UNCHANGED <<emp, acct, card, session, booted>>
    BY <1>7 DEF Registers
  <2> HIDE DEF c
  <2>3. FreshRow(c) /\ Spares(c) /\ Promised(c)
    BY <2>1 DEF FreshRow, Spares, Promised
  <2> QED BY <2>1, <2>2, <2>3, <1>5
<1>8. ASSUME NEW s \in Slots, NEW t \in Terminals, NEW e \in Employees, AsksTermination(s, t, e)
      PROVE  Deep'
  <2> DEFINE c == [pc |-> "block", t |-> t, e |-> e, row |-> emp[e], wizard |-> FALSE]
  <2>1. Gate(t) /\ emp[e] # None /\ emp[e] \in Row
    BY <1>8, <1>a DEF AsksTermination, MayLeave, Registered, Rows
  <2>2. c \in Made /\ c.pc = "block" /\ c.t = t /\ c.e = e /\ c.row = emp[e]
    BY <2>1 DEF Made, Leaving
  <2>3. Starts(s, c, Self(t, LoginOf(e))) /\ UNCHANGED <<emp, acct, card, session, booted>>
    BY <1>8 DEF AsksTermination
  <2> HIDE DEF c
  <2>4. FreshRow(c) /\ Promised(c)
    BY <2>2 DEF FreshRow, Promised
  <2>5. Calm' => Spares(c)
    <3> SUFFICES ASSUME Calm'
                 PROVE  Spares(c)
      OBVIOUS
    <3>1. Self(t, LoginOf(e)) \subseteq odd' /\ Unlinked(t) \subseteq odd'
      BY <2>2, <2>3, <1>a, SelfOdd, CommandStarts DEF Others
    <3>2. Keeper(session[t]) /\ session[t] # None
      BY <2>1, <3>1, <1>a, GateKeeps DEF Calm
    <3>3. emp[e].login # session[t]
      BY <3>1, <3>2 DEF Calm, Self, LoginOf
    <3> QED BY <2>2, <3>2, <3>3 DEF Spares
  <2> QED BY <2>2, <2>3, <2>4, <2>5, <1>5, SelfOdd
<1>9. ASSUME NEW s \in Slots, NEW t \in Terminals, NEW e \in Employees, NEW m \in Emails,
             NEW r \in Roles, AsksAccount(s, t, e, m, r)
      PROVE  Deep'
  <2> DEFINE c == [pc |-> "make", t |-> t, e |-> e, row |-> emp[e], mail |-> m, role |-> r,
                   wizard |-> FALSE]
             o == IF \E x \in Registered \ {e} : emp[x].mail = m THEN {"mail"} ELSE {}
  <2>1. Has(e, None) /\ emp[e] \in Row
    BY <1>9, <1>a DEF AsksAccount, EmployeesWithoutAccount, Registered, Rows, Has, LoginOf
  <2>2. c \in Made /\ c.pc = "make" /\ c.e = e /\ c.row = emp[e]
    BY <2>1 DEF Made, Creation
  <2>3. Starts(s, c, o) /\ UNCHANGED <<emp, acct, card, session, booted>>
    BY <1>9 DEF AsksAccount
  <2>4. o \in SUBSET Oddities
    BY DEF Oddities
  <2> HIDE DEF c, o
  <2>5. FreshRow(c) /\ Spares(c) /\ Promised(c)
    BY <2>1, <2>2 DEF FreshRow, Spares, Promised
  <2> QED BY <2>2, <2>3, <2>4, <2>5, <1>5
<1>10. ASSUME NEW s \in Slots, NEW t \in Terminals, NEW e \in Employees, NEW m \in Emails \cup {None},
              NEW r \in Roles, AsksProfile(s, t, e, m, r)
       PROVE  Deep'
  <2> DEFINE new == [emp[e] EXCEPT !.mail = m]
             c == [pc |-> "save", t |-> t, e |-> e, row |-> new, role |-> r, wizard |-> FALSE]
             o == IF r # "administrator" THEN Self(t, LoginOf(e)) ELSE {}
  <2>1. Gate(t) /\ emp[e] # None /\ emp[e] \in Row
    BY <1>10, <1>a DEF AsksProfile, Registered, Rows
  <2>2. new \in Row /\ new.login = emp[e].login /\ new.status = emp[e].status
    BY <2>1, RowMails DEF Mail
  <2>3. Starts(s, c, o) /\ UNCHANGED <<emp, acct, card, session, booted>>
    BY <1>10 DEF AsksProfile
  <2>4. o \in SUBSET Oddities
    BY SelfOdd
  <2> HIDE DEF new
  <2>5. c \in Made /\ c.pc = "save" /\ c.t = t /\ c.e = e /\ c.row = new /\ c.role = r
    BY <2>2 DEF Made, Change
  <2> HIDE DEF c
  <2>6. FreshRow(c) /\ Promised(c)
    BY <2>1, <2>2, <2>5 DEF FreshRow, Promised, Has
  <2>7. Calm' => Spares(c)
    <3> SUFFICES ASSUME Calm'
                 PROVE  Spares(c)
      OBVIOUS
    <3> HIDE DEF o
    <3>1. o \subseteq odd' /\ Unlinked(t) \subseteq odd'
      BY <2>3, <2>4, <2>5, <1>a, CommandStarts DEF Others
    <3>2. Keeper(session[t]) /\ session[t] # None
      BY <2>1, <3>1, <1>a, GateKeeps DEF Calm
    <3>3. r # "administrator" => emp[e].login # session[t]
      BY <3>1, <3>2 DEF o, Calm, Self, LoginOf
    <3> QED BY <2>2, <2>5, <3>2, <3>3 DEF Spares
  <2> HIDE DEF o
  <2> QED BY <2>3, <2>4, <2>5, <2>6, <2>7, <1>5
<1>11. ASSUME NEW s \in Slots, NEW t \in Terminals, NEW l \in Logins, AsksRemoval(s, t, l)
       PROVE  Deep'
  <2> DEFINE c == [pc |-> "drop", t |-> t, l |-> l, wizard |-> FALSE]
  <2>1. c \in Made /\ c.pc = "drop" /\ c.t = t /\ c.l = l
    BY DEF Made, Removal
  <2>2. Starts(s, c, Self(t, l)) /\ UNCHANGED <<acct, card, session, booted>> /\ Gate(t)
    BY <1>11 DEF AsksRemoval
  <2> HIDE DEF c
  <2>3. /\ cmd[s] = Idle /\ cmd'[s] = c /\ odd \subseteq odd'
        /\ Busy => "overlap" \in odd'
        /\ \A r \in Slots \ {s} : cmd'[r] = cmd[r]
        /\ Self(t, l) \subseteq odd' /\ Unlinked(t) \subseteq odd'
    BY <2>1, <2>2, <1>a, SelfOdd, CommandStarts DEF Others
  <2>4. Alone' /\ ("overlap" \notin odd' => \A r \in Slots : cmd[r] = Idle /\ (cmd'[r] # Idle => r = s))
    BY <1>b, <2>3, OneActs
  <2>5. \A e \in Employees :
            /\ emp'[e] # None <=> emp[e] # None
            /\ emp[e] # None => emp'[e].login = IF emp[e].login = l THEN None ELSE emp[e].login
    BY <1>11, <1>a, RowsUnlinked DEF AsksRemoval, Registered
  <2>6. \A k \in Logins : Linked(k)' <=> Linked(k) /\ k # l
    BY <2>5, ConstantsAssumption DEF Linked, Has
  <2>7. Fresh'
    BY <2>1, <2>3, <2>4 DEF Fresh, FreshRow
  <2>8. Calm' => Keeper(session[t]) /\ session[t] # l /\ session[t] \in Logins
    <3>1. Calm' => Keeper(session[t]) /\ session[t] # None
      BY <2>2, <2>3, <1>a, GateKeeps DEF Calm
    <3> QED BY <2>3, <3>1 DEF Calm, Self, Keeper, Keeps, Alive
  <2>9. Calm' => Keeper(session[t])'
    BY <2>2, <2>6, <2>8 DEF Keeper, Keeps, Alive
  <2>10. Sparing'
    BY <2>1, <2>2, <2>3, <2>4, <2>8, <2>9 DEF Sparing, Calm, Spares
  <2>11. Remains'
    BY <2>2, <2>8, <2>9 DEF Remains, Keeper, Keeps, Alive
  <2>12. Promises'
    BY <2>1, <2>3, <2>4, <2>6 DEF Promises, Promised
  <2>13. AccountsLinked'
    <3> SUFFICES ASSUME odd' = {}, NEW k \in Logins, Alive(k)', k # l
                 PROVE  (Linked(k))'
      BY <2>1, <2>3, IdleNotMade DEF AccountsLinked, Finishes
    <3>1. odd = {} /\ Alive(k) /\ \A r \in Slots : cmd[r] = Idle
      BY <2>2, <2>3, <2>4 DEF Alive
    <3>2. Linked(k)
      BY <3>1, <1>b DEF AccountsLinked
    <3> QED BY <2>6, <3>2
  <2>14. RowsLinked'
    BY <2>2, <2>3, <2>4, <2>5, <1>b DEF RowsLinked, Alive
  <2> QED BY <2>4, <2>7, <2>10, <2>11, <2>12, <2>13, <2>14 DEF Deep
<1>12. ASSUME NEW s \in Slots, NEW d \in Made \cup {Idle}, cmd[s] # Idle, Stores(s, d), odd \subseteq odd'
       PROVE  /\ Alone' /\ cmd[s] \in Made /\ cmd'[s] = d /\ \A r \in Slots \ {s} : cmd'[r] = cmd[r]
              /\ "overlap" \notin odd' =>
                    /\ "overlap" \notin odd
                    /\ \A r \in Slots : cmd[r] # Idle \/ cmd'[r] # Idle => r = s
  <2>1. cmd[s] \in Made /\ cmd'[s] = d /\ \A r \in Slots \ {s} : cmd'[r] = cmd[r]
    BY <1>12, <1>a, CommandAt, CommandStored
  <2> QED BY <1>12, <1>b, <2>1, OneActs
<1>13. ASSUME NEW s \in Slots, cmd[s] # Idle, Stores(s, Idle), odd \subseteq odd'
       PROVE  Alone' /\ Fresh' /\ Sparing' /\ Promises'
  BY <1>12, <1>13 DEF Fresh, Sparing, Calm, Promises
<1>14. ASSUME NEW s \in Slots, cmd[s] # Idle, Stores(s, Idle), odd \subseteq odd',
              UNCHANGED <<emp, acct, booted>>,
              odd' = {} => /\ \A l \in Logins : ~Finishes(cmd[s], l)
                           /\ \A e \in Employees : ~Marks(cmd[s], e)
       PROVE  Deep'
  <2>1. Remains'
    BY <1>14, <1>b DEF Remains, Calm, Keeper, Keeps, Alive, Linked, Has
  <2>2. odd' = {} => odd = {} /\ \A r \in Slots : cmd[r] # Idle => r = s
    BY <1>12, <1>14
  <2>3. AccountsLinked'
    BY <1>14, <1>b, <2>2 DEF AccountsLinked, Alive, Linked, Has
  <2>4. RowsLinked'
    BY <1>14, <1>b, <2>2 DEF RowsLinked, Alive
  <2> QED BY <1>13, <1>14, <2>1, <2>3, <2>4 DEF Deep
<1>15. ASSUME NEW s \in Slots, Fails(s) \/ MailsLink(s)
       PROVE  Deep'
  <2>1. /\ cmd[s] # Idle /\ Stores(s, Idle) /\ odd \subseteq odd' /\ UNCHANGED <<emp, acct, booted>>
        /\ cmd[s].pc = "mail" \/ odd' # {}
    BY <1>15 DEF Fails, Ends, MailsLink, At
  <2> QED BY <2>1, <1>14 DEF Finishes, Marks
<1>16. ASSUME NEW s \in Slots, SignsUp(s)
       PROVE  Deep'
  <2>1. cmd[s] # Idle /\ cmd[s].pc = "sign-up" /\ UNCHANGED <<emp, booted, odd>>
    BY <1>16 DEF SignsUp, At
  <2>2. cmd[s] \in Boot
    BY <2>1, <1>a, CommandAt, Families
  <2>3. CASE Ends(s) /\ UNCHANGED acct
    BY <2>1, <2>3, <1>14 DEF Ends, Finishes, Marks
  <2>4. ASSUME NEW l \in Logins, MailFree(cmd[s].mail), NewAccount(l, cmd[s].mail, "employee"),
               Stores(s, [pc |-> "promote", t |-> cmd[s].t, mail |-> cmd[s].mail,
                          l |-> l, wizard |-> FALSE])
        PROVE  Deep'
    <3> DEFINE d == [pc |-> "promote", t |-> cmd[s].t, mail |-> cmd[s].mail, l |-> l, wizard |-> FALSE]
    <3>1. d \in Made /\ d.pc = "promote" /\ d.l = l
      BY <2>2 DEF Boot, Made, Entry
    <3> HIDE DEF d
    <3>2. /\ Alone' /\ cmd'[s] = d /\ \A r \in Slots \ {s} : cmd'[r] = cmd[r]
          /\ "overlap" \notin odd' => \A r \in Slots : cmd[r] # Idle \/ cmd'[r] # Idle => r = s
      BY <2>1, <2>4, <3>1, <1>12 DEF d
    <3>3. /\ \A k \in Logins : Alive(k)' <=> Alive(k) \/ k = l
          /\ ~Alive(l) /\ ~acct'[l].banned /\ \A k \in Logins \ {l} : acct'[k] = acct[k]
      <4>1. cmd[s].mail \in Emails /\ "employee" \in Roles
        BY <2>2 DEF Boot, Roles
      <4>2. /\ Live' = Live \cup {l} /\ l \notin Live /\ acct'[l].banned = FALSE
            /\ \A k \in Logins \ {l} : acct'[k] = acct[k]
        BY <2>4, <4>1, <1>a, AccountMade
      <4> QED BY <4>2 DEF Live, Alive
    <3>4. Fresh'
      BY <3>1, <3>2 DEF Fresh, FreshRow
    <3>5. Sparing'
      BY <3>1, <3>2, <3>3 DEF Sparing, Calm, Spares, Alive
    <3>6. Remains'
      BY <2>1, <3>3, <1>b DEF Remains, Calm, Keeper, Keeps, Alive, Linked, Has
    <3>7. odd' = {} => \A k \in Logins : ~Alive(k)
      BY <2>1, <1>b DEF Promises, Promised
    <3>8. Promises'
      BY <3>1, <3>2, <3>3, <3>7 DEF Promises, Promised
    <3>9. AccountsLinked'
      BY <3>1, <3>2, <3>3, <3>7, IdleNotMade DEF AccountsLinked, Finishes
    <3>10. RowsLinked'
      <4> SUFFICES ASSUME odd' = {}, NEW e \in Employees, emp[e] # None, emp[e].login # None
                   PROVE  (Alive(emp[e].login))'
        BY <2>1 DEF RowsLinked
      <4>1. Alive(emp[e].login)
        BY <2>1, <3>2, <1>b DEF RowsLinked, Marks
      <4> QED BY <2>1, <3>3, <4>1 DEF Alive
    <3> QED BY <3>2, <3>4, <3>5, <3>6, <3>8, <3>9, <3>10 DEF Deep
  <2> QED BY <1>16, <2>3, <2>4 DEF SignsUp
<1>17. ASSUME NEW s \in Slots, Promotes(s)
       PROVE  Deep'
  <2>1. cmd[s] # Idle /\ cmd[s].pc = "promote" /\ UNCHANGED <<emp, booted, odd>>
    BY <1>17 DEF Promotes, At
  <2>2. cmd[s] \in Entry
    BY <2>1, <1>a, CommandAt, Families
  <2>3. CASE ~(Administrators \subseteq {cmd[s].l})
    <3>1. odd' # {}
      <4> SUFFICES ASSUME odd' = {}
                   PROVE  FALSE
        OBVIOUS
      <4>1. \A l \in Logins : Alive(l) => l = cmd[s].l
        BY <2>1, <1>b DEF Promises, Promised
      <4> QED BY <2>3, <4>1 DEF Administrators, Live, Alive
    <3>2. Stores(s, Idle) /\ UNCHANGED acct
      BY <1>17, <2>3 DEF Promotes, Ends
    <3> QED BY <2>1, <3>1, <3>2, <1>14
  <2>4. ASSUME NEW l \in Logins, l = cmd[s].l, Alive(l), To(s, "enter"),
               acct' = [acct EXCEPT ![l].role = "administrator"]
        PROVE  Deep'
    <3> DEFINE d == [cmd[s] EXCEPT !.pc = "enter"]
    <3>1. d \in Made /\ d.pc = "enter" /\ d.l = l
      BY <2>2, <2>4, EntryMoves DEF Made
    <3> HIDE DEF d
    <3>2. /\ Alone' /\ cmd'[s] = d /\ \A r \in Slots \ {s} : cmd'[r] = cmd[r]
          /\ "overlap" \notin odd' => \A r \in Slots : cmd[r] # Idle \/ cmd'[r] # Idle => r = s
      BY <2>1, <2>4, <3>1, <1>12 DEF d, To
    <3>3. /\ \A k \in Logins : Alive(k)' <=> Alive(k)
          /\ acct'[l].role = "administrator" /\ acct'[l].banned = acct[l].banned
          /\ \A k \in Logins \ {l} : acct'[k] = acct[k]
      <4>1. acct[l] \in Account /\ "administrator" \in Roles
        BY <1>a DEF Logged, Roles
      <4>2. /\ acct' = [acct EXCEPT ![l] = [acct[l] EXCEPT !.role = "administrator"]]
        BY <2>4
      <4>3. acct'[l] = [acct[l] EXCEPT !.role = "administrator"] /\ \A k \in Logins \ {l} : acct'[k] = acct[k]
        BY <4>2, <1>a DEF Logged
      <4>4. /\ acct'[l].role = "administrator" /\ acct'[l].state = acct[l].state
            /\ acct'[l].banned = acct[l].banned
        BY <4>1, <4>3, RoleSet
      <4> QED BY <4>3, <4>4 DEF Alive
    <3>4. Fresh'
      BY <3>1, <3>2 DEF Fresh, FreshRow
    <3>5. Sparing'
      <4>1. Calm' => ~acct[l].banned
        BY <2>1, <2>4, <1>b DEF Sparing, Calm, Spares
      <4> QED BY <2>4, <4>1, <3>1, <3>2, <3>3 DEF Sparing, Calm, Spares, Keeps, Alive
    <3>6. Remains'
      BY <2>1, <3>3, <1>b DEF Remains, Calm, Keeper, Keeps, Alive, Linked, Has
    <3>7. Promises'
      BY <2>4, <3>1, <3>2, <3>3 DEF Promises, Promised
    <3>8. odd' = {} => \A k \in Logins : Alive(k) => k = l
      BY <2>1, <2>4, <1>b DEF Promises, Promised
    <3>9. AccountsLinked'
      BY <3>1, <3>2, <3>3, <3>8, IdleNotMade DEF AccountsLinked, Finishes
    <3>10. RowsLinked'
      <4> SUFFICES ASSUME odd' = {}, NEW e \in Employees, emp[e] # None, emp[e].login # None
                   PROVE  (Alive(emp[e].login))'
        BY <2>1 DEF RowsLinked
      <4>1. Alive(emp[e].login)
        BY <2>1, <3>2, <1>b DEF RowsLinked, Marks
      <4> QED BY <2>1, <3>3, <4>1 DEF Alive
    <3> QED BY <3>2, <3>4, <3>5, <3>6, <3>7, <3>9, <3>10 DEF Deep
  <2>5. CASE Administrators \subseteq {cmd[s].l}
    <3>1. PICK l \in Logins : l = cmd[s].l
      BY <2>2 DEF Entry
    <3>2. Alive(l) /\ To(s, "enter") /\ acct' = [acct EXCEPT ![l].role = "administrator"]
      BY <1>17, <2>5, <3>1 DEF Promotes, Live, Alive
    <3> QED BY <3>1, <3>2, <2>4
  <2> QED BY <2>3, <2>5
<1>18. ASSUME NEW s \in Slots, NEW e \in Employees, Enters(s, e)
       PROVE  Deep'
  <2> DEFINE row == [status |-> "active", mail |-> cmd[s].mail, login |-> cmd[s].l]
  <2>1. cmd[s] # Idle /\ cmd[s].pc = "enter" /\ Stores(s, Idle) /\ odd \subseteq odd' /\ UNCHANGED acct
    BY <1>18 DEF Enters, At, Ends
  <2>2. cmd[s] \in Entry
    BY <2>1, <1>a, CommandAt, Families
  <2>3. CASE ~Unique(e, row)
    <3>1. UNCHANGED <<emp, booted>> /\ odd' # {}
      BY <1>18, <2>3 DEF Enters
    <3> QED BY <2>1, <3>1, <1>14
  <2>4. ASSUME Unique(e, row), NEW l \in Logins, l = cmd[s].l
        PROVE  Deep'
    <3>1. emp' = [emp EXCEPT ![e] = row] /\ emp[e] = None /\ odd' = odd
      BY <1>18, <2>4 DEF Enters, Upsert, Registered
    <3>2. row \in Row /\ row.login = l
      BY <2>2, <2>4 DEF Entry, Row, Mail
    <3> HIDE DEF row
    <3>3. emp'[e] = row /\ \A x \in Employees \ {e} : emp'[x] = emp[x]
      BY <3>1, <1>a DEF Rows
    <3>4. (Linked(l))' /\ \A k \in Logins : Linked(k) => Linked(k)'
      BY <3>1, <3>2, <3>3, LinksKept DEF Linked, Has
    <3>5. Remains'
      <4> SUFFICES ASSUME Calm'
                   PROVE  Keeper(l)'
        BY DEF Remains
      <4>1. Keeps(l)
        BY <2>1, <2>4, <3>1, <1>b DEF Sparing, Calm, Spares
      <4> QED BY <2>1, <3>4, <4>1 DEF Keeper, Keeps, Alive
    <3>6. odd' = {} => Alive(l) /\ \A r \in Slots : cmd[r] # Idle => r = s
      BY <2>1, <2>4, <3>1, <1>b, <1>12 DEF Promises, Promised
    <3>7. AccountsLinked'
      <4> SUFFICES ASSUME odd' = {}, NEW k \in Logins, Alive(k)'
                   PROVE  (Linked(k))'
        BY DEF AccountsLinked
      <4>1. Linked(k) \/ k = l
        BY <2>1, <2>4, <3>1, <3>6, <1>b DEF AccountsLinked, Alive, Finishes
      <4> QED BY <3>4, <4>1
    <3>8. RowsLinked'
      <4> SUFFICES ASSUME odd' = {}, NEW x \in Employees, emp'[x] # None, emp'[x].login # None
                   PROVE  Alive(emp[x].login)'
        BY DEF RowsLinked
      <4>1. CASE x = e
        BY <2>1, <3>2, <3>3, <3>6, <4>1 DEF Alive
      <4>2. CASE x # e
        <5>1. emp'[x] = emp[x]
          BY <3>3, <4>2
        <5> QED BY <2>1, <3>1, <3>6, <5>1, <1>b DEF RowsLinked, Marks, Alive
      <4> QED BY <4>1, <4>2
    <3> QED BY <2>1, <3>5, <3>7, <3>8, <1>13 DEF Deep
  <2>5. PICK l \in Logins : l = cmd[s].l
    BY <2>2 DEF Entry
  <2> QED BY <2>3, <2>4, <2>5
<1>19. ASSUME NEW s \in Slots, MakesAccount(s)
       PROVE  Deep'
  <2>1. cmd[s] # Idle /\ cmd[s].pc = "make" /\ UNCHANGED <<emp, booted, odd>>
    BY <1>19 DEF MakesAccount, At
  <2>2. cmd[s] \in Creation
    BY <2>1, <1>a, CommandAt, Families
  <2>3. CASE Ends(s) /\ UNCHANGED acct
    BY <2>1, <2>3, <1>14 DEF Ends, Finishes, Marks
  <2>4. ASSUME NEW l \in Logins, MailFree(cmd[s].mail), NewAccount(l, cmd[s].mail, cmd[s].role),
               Stores(s, [cmd[s] EXCEPT !.pc = "link",
                          !.row = [@ EXCEPT !.login = l, !.mail = cmd[s].mail]])
        PROVE  Deep'
    <3> DEFINE d == [cmd[s] EXCEPT !.pc = "link",
                     !.row = [@ EXCEPT !.login = l, !.mail = cmd[s].mail]]
    <3>1. /\ d \in Made /\ d.pc = "link" /\ d.e = cmd[s].e /\ d.row.login = l
          /\ d.row.status = cmd[s].row.status
      BY <2>2, LinkMade DEF Made
    <3>2. Stores(s, d)
      BY <2>4
    <3> HIDE DEF d
    <3>3. /\ Alone' /\ cmd'[s] = d /\ \A r \in Slots \ {s} : cmd'[r] = cmd[r]
          /\ "overlap" \notin odd' => \A r \in Slots : cmd[r] # Idle \/ cmd'[r] # Idle => r = s
      BY <2>1, <3>1, <3>2, <1>12
    <3>4. /\ \A k \in Logins : Alive(k)' <=> Alive(k) \/ k = l
          /\ ~Alive(l) /\ \A k \in Logins \ {l} : acct'[k] = acct[k]
      <4>1. cmd[s].mail \in Emails /\ cmd[s].role \in Roles
        BY <2>2 DEF Creation
      <4>2. /\ Live' = Live \cup {l} /\ l \notin Live
            /\ \A k \in Logins \ {l} : acct'[k] = acct[k]
        BY <2>4, <4>1, <1>a, AccountMade
      <4> QED BY <4>2 DEF Live, Alive
    <3>5. Fresh'
      BY <2>1, <3>1, <3>3, <1>b DEF Fresh, FreshRow, Has
    <3>6. Sparing'
      BY <3>1, <3>3 DEF Sparing, Calm, Spares
    <3>7. Remains'
      BY <2>1, <3>4, <1>b DEF Remains, Calm, Keeper, Keeps, Alive, Linked, Has
    <3>8. Promises'
      BY <3>1, <3>3, <3>4 DEF Promises, Promised, Alive
    <3>9. AccountsLinked'
      <4> SUFFICES ASSUME odd' = {}, NEW k \in Logins, Alive(k)', k # l
                   PROVE  (Linked(k))'
        BY <3>1, <3>3, IdleNotMade DEF AccountsLinked, Finishes
      <4>1. Alive(k)
        BY <3>4
      <4>2. Linked(k)
        BY <2>1, <3>3, <4>1, <1>b DEF AccountsLinked, Finishes
      <4> QED BY <2>1, <4>2, LinksStay
    <3>10. RowsLinked'
      <4> SUFFICES ASSUME odd' = {}, NEW e \in Employees, emp[e] # None, emp[e].login # None
                   PROVE  (Alive(emp[e].login))'
        BY <2>1 DEF RowsLinked
      <4>1. Alive(emp[e].login)
        BY <2>1, <3>3, <1>b DEF RowsLinked, Marks
      <4> QED BY <2>1, <3>4, <4>1 DEF Alive
    <3> QED BY <3>3, <3>5, <3>6, <3>7, <3>8, <3>9, <3>10 DEF Deep
  <2> QED BY <1>19, <2>3, <2>4 DEF MakesAccount
<1>20. ASSUME NEW s \in Slots, LinksAccount(s)
       PROVE  Deep'
  <2>1. cmd[s] # Idle /\ cmd[s].pc = "link" /\ UNCHANGED <<acct, booted>>
    BY <1>20 DEF LinksAccount, At
  <2>2. cmd[s] \in Creation
    BY <2>1, <1>a, CommandAt, Families
  <2>3. CASE ~Unique(cmd[s].e, cmd[s].row)
    <3>1. Stores(s, Idle) /\ UNCHANGED emp /\ odd \subseteq odd' /\ odd' # {}
      BY <1>20, <2>3 DEF LinksAccount, Ends
    <3> QED BY <2>1, <3>1, <1>14
  <2>4. ASSUME Unique(cmd[s].e, cmd[s].row), NEW e \in Employees, e = cmd[s].e,
               NEW row \in Row, row = cmd[s].row, NEW l \in Logins \cup {None}, l = row.login
        PROVE  Deep'
    <3> DEFINE d == [cmd[s] EXCEPT !.pc = "mail"]
    <3>1. emp' = [emp EXCEPT ![e] = row] /\ Stores(s, d) /\ UNCHANGED odd
      BY <1>20, <2>4 DEF LinksAccount, Upsert, To
    <3>2. d \in Made /\ d.pc = "mail"
      BY <2>2, CreationMoves DEF Made
    <3> HIDE DEF d
    <3>3. /\ Alone' /\ cmd'[s] = d /\ \A r \in Slots \ {s} : cmd'[r] = cmd[r]
          /\ "overlap" \notin odd' => \A r \in Slots : cmd[r] # Idle \/ cmd'[r] # Idle => r = s
      BY <2>1, <3>1, <3>2, <1>12
    <3>4. emp'[e] = row /\ \A x \in Employees \ {e} : emp'[x] = emp[x]
      BY <3>1, <1>a DEF Rows
    <3>5. Fresh' /\ Sparing' /\ Promises'
      BY <3>2, <3>3 DEF Fresh, FreshRow, Sparing, Calm, Spares, Promises, Promised
    <3>6. "overlap" \notin odd' => (Linked(l))' /\ \A k \in Logins : Linked(k) => Linked(k)'
      <4>1. "overlap" \notin odd' => emp[e].login = None
        BY <2>1, <2>4, <3>1, <1>b DEF Fresh, FreshRow, Has
      <4> QED BY <2>4, <3>4, <4>1, LinksKept
    <3>7. Remains'
      BY <2>1, <3>1, <3>6, <1>b DEF Remains, Calm, Keeper, Keeps, Alive
    <3>8. odd' = {} => odd = {} /\ Alive(l) /\ \A r \in Slots : cmd[r] # Idle => r = s
      BY <2>1, <2>4, <3>1, <3>3, <1>b DEF Promises, Promised
    <3>9. AccountsLinked'
      <4> SUFFICES ASSUME odd' = {}, NEW k \in Logins, Alive(k)'
                   PROVE  (Linked(k))'
        BY DEF AccountsLinked
      <4>1. Linked(k) \/ k = l
        BY <2>1, <2>4, <3>8, <1>b DEF AccountsLinked, Alive, Finishes
      <4> QED BY <3>6, <4>1
    <3>10. RowsLinked'
      <4> SUFFICES ASSUME odd' = {}, NEW x \in Employees, emp'[x] # None, emp'[x].login # None
                   PROVE  Alive(emp[x].login)'
        BY DEF RowsLinked
      <4>1. CASE x = e
        BY <2>1, <2>4, <3>4, <3>8, <4>1 DEF Alive
      <4>2. CASE x # e
        <5>1. emp'[x] = emp[x]
          BY <3>4, <4>2
        <5> QED BY <2>1, <3>8, <5>1, <1>b DEF RowsLinked, Marks, Alive
      <4> QED BY <4>1, <4>2
    <3> QED BY <3>3, <3>5, <3>7, <3>9, <3>10 DEF Deep
  <2>5. cmd[s].e \in Employees /\ cmd[s].row \in Row /\ cmd[s].row.login \in Logins \cup {None}
    BY <2>2 DEF Creation, Row
  <2> QED BY <2>3, <2>4, <2>5
<1>21. ASSUME NEW s \in Slots, NEW e \in Employees, Inserts(s, e)
       PROVE  Deep'
  <2> DEFINE row == [status |-> "active", mail |-> cmd[s].mail, login |-> None]
             d == [pc |-> "make", t |-> cmd[s].t, e |-> e, row |-> row, mail |-> cmd[s].mail,
                   role |-> cmd[s].role, wizard |-> TRUE]
  <2>1. /\ cmd[s] # Idle /\ cmd[s].pc = "insert" /\ UNCHANGED <<acct, booted, odd>>
        /\ emp[e] = None
    BY <1>21 DEF Inserts, At, Registered
  <2>2. cmd[s] \in Registration
    BY <2>1, <1>a, CommandAt, Families
  <2>3. row \in Row /\ row.login = None
    BY <2>2 DEF Registration, Row, Mail
  <2>4. d \in Made /\ d.pc = "make" /\ d.e = e /\ d.row = row
    <3> HIDE DEF row
    <3> QED BY <2>2, <2>3 DEF Registration, Made, Creation
  <2>5. CASE ~Unique(e, row)
    <3>1. Stores(s, Idle) /\ UNCHANGED emp
      BY <1>21, <2>5 DEF Inserts, Ends
    <3> QED BY <2>1, <3>1, <1>14 DEF Finishes, Marks
  <2>6. CASE Unique(e, row)
    <3>1. emp' = [emp EXCEPT ![e] = row] /\ (Stores(s, d) \/ Stores(s, Idle))
      BY <1>21, <2>6 DEF Inserts, Upsert, Ends
    <3> HIDE DEF row, d
    <3>2. emp'[e] = row /\ \A x \in Employees \ {e} : emp'[x] = emp[x]
      BY <3>1, <1>a DEF Rows
    <3>3. \A k \in Logins : Linked(k) => Linked(k)'
      BY <2>1, <2>3, <3>2, LinksKept
    <3>4. Alone' /\ Fresh' /\ Sparing' /\ Promises'
      <4>1. CASE Stores(s, Idle)
        BY <2>1, <4>1, <1>13
      <4>2. CASE Stores(s, d)
        <5>1. /\ Alone' /\ cmd'[s] = d
              /\ "overlap" \notin odd' => \A r \in Slots : cmd[r] # Idle \/ cmd'[r] # Idle => r = s
          BY <2>1, <2>4, <4>2, <1>12
        <5>2. Fresh'
          BY <2>3, <2>4, <3>2, <5>1, RowIsNotNone DEF Fresh, FreshRow, Has
        <5> QED BY <2>4, <5>1, <5>2 DEF Sparing, Calm, Spares, Promises, Promised
      <4> QED BY <3>1, <4>1, <4>2
    <3>5. Remains'
      BY <2>1, <3>3, <1>b DEF Remains, Calm, Keeper, Keeps, Alive
    <3>6. odd' = {} => odd = {} /\ \A r \in Slots : cmd[r] # Idle => r = s
      BY <2>1, <1>b DEF Alone
    <3>7. AccountsLinked'
      <4> SUFFICES ASSUME odd' = {}, NEW k \in Logins, Alive(k)'
                   PROVE  (Linked(k))'
        BY DEF AccountsLinked
      <4>1. Linked(k)
        BY <2>1, <3>6, <1>b DEF AccountsLinked, Alive, Finishes
      <4> QED BY <3>3, <4>1
    <3>8. RowsLinked'
      <4> SUFFICES ASSUME odd' = {}, NEW x \in Employees, emp'[x] # None, emp'[x].login # None
                   PROVE  Alive(emp[x].login)'
        BY DEF RowsLinked
      <4>1. emp'[x] = emp[x]
        BY <2>3, <3>2
      <4> QED BY <2>1, <3>6, <4>1, <1>b DEF RowsLinked, Marks, Alive
    <3> QED BY <3>4, <3>5, <3>7, <3>8 DEF Deep
  <2> QED BY <2>5, <2>6
<1>22. ASSUME NEW s \in Slots, SavesProfile(s)
       PROVE  Deep'
  <2>1. /\ cmd[s] # Idle /\ cmd[s].pc = "save" /\ UNCHANGED <<acct, session, booted, odd>>
    BY <1>22 DEF SavesProfile, At
  <2>2. cmd[s] \in Change
    BY <2>1, <1>a, CommandAt, Families
  <2>3. CASE ~Unique(cmd[s].e, cmd[s].row)
    <3>1. Stores(s, Idle) /\ UNCHANGED emp
      BY <1>22, <2>3 DEF SavesProfile
    <3> QED BY <2>1, <3>1, <1>14 DEF Finishes, Marks
  <2>4. ASSUME Unique(cmd[s].e, cmd[s].row), NEW e \in Employees, e = cmd[s].e,
               NEW row \in Row, row = cmd[s].row
        PROVE  Deep'
    <3> DEFINE d == [cmd[s] EXCEPT !.pc = "role"]
    <3>1. emp' = [emp EXCEPT ![e] = row] /\ (Stores(s, d) \/ Stores(s, Idle))
      BY <1>22, <2>4 DEF SavesProfile, Upsert, To
    <3>2. /\ d \in Made /\ d.pc = "role" /\ d.t = cmd[s].t /\ d.e = e /\ d.row = row
          /\ d.role = cmd[s].role
      BY <2>2, <2>4, ChangeMoves DEF Made
    <3> HIDE DEF d
    <3>3. emp'[e] = row /\ \A x \in Employees \ {e} : emp'[x] = emp[x]
      BY <3>1, <1>a DEF Rows
    <3>4. "overlap" \notin odd => Has(e, row.login) /\ row.status = emp[e].status
      BY <2>1, <2>4, <1>b DEF Fresh, FreshRow
    <3>5. "overlap" \notin odd => /\ Has(e, row.login)'
                                  /\ \A k \in Logins : Linked(k) => Linked(k)'
      BY <3>3, <3>4, LinksKept DEF Has
    <3>6. \A k \in Logins : "overlap" \notin odd /\ Keeper(k) => Keeper(k)'
      BY <2>1, <3>5 DEF Keeper, Keeps, Alive
    <3>7. Alone' /\ Fresh' /\ Sparing' /\ Promises'
      <4>1. CASE Stores(s, Idle)
        BY <2>1, <4>1, <1>13
      <4>2. CASE Stores(s, d)
        <5>1. /\ Alone' /\ cmd'[s] = d
              /\ "overlap" \notin odd' => \A r \in Slots : cmd[r] # Idle \/ cmd'[r] # Idle => r = s
          BY <2>1, <3>2, <4>2, <1>12
        <5>2. Fresh'
          BY <2>1, <3>2, <3>3, <3>5, <5>1 DEF Fresh, FreshRow
        <5>3. Sparing'
          <6> SUFFICES ASSUME Calm'
                       PROVE  Spares(cmd[s])'
            BY <2>1, <5>1 DEF Sparing, Calm
          <6>1. Spares(cmd[s])
            BY <2>1, <1>b DEF Sparing, Calm
          <6>2. PICK me \in Logins : me = session[cmd[s].t]
            BY <2>1, <6>1 DEF Spares, Keeper, Keeps, Alive
          <6>3. Keeper(me)'
            BY <2>1, <3>6, <6>1, <6>2 DEF Spares, Calm
          <6>4. (cmd'[s].role # "administrator" => row.login # me) /\ session'[cmd'[s].t] = me
            BY <2>1, <2>4, <3>2, <5>1, <6>1, <6>2 DEF Spares
          <6> QED BY <3>2, <5>1, <6>3, <6>4 DEF Spares
        <5> QED BY <3>2, <5>1, <5>2, <5>3 DEF Promises, Promised
      <4> QED BY <3>1, <4>1, <4>2
    <3>8. Remains'
      BY <2>1, <3>6, <1>b DEF Remains, Calm
    <3>9. odd' = {} => odd = {} /\ \A r \in Slots : cmd[r] # Idle => r = s
      BY <2>1, <1>b DEF Alone
    <3>10. AccountsLinked'
      <4> SUFFICES ASSUME odd' = {}, NEW k \in Logins, Alive(k)'
                   PROVE  (Linked(k))'
        BY DEF AccountsLinked
      <4>1. Linked(k)
        BY <2>1, <3>9, <1>b DEF AccountsLinked, Alive, Finishes
      <4> QED BY <3>5, <3>9, <4>1
    <3>11. RowsLinked'
      <4> SUFFICES ASSUME odd' = {}, NEW x \in Employees, emp'[x] # None, emp'[x].login # None
                   PROVE  Alive(emp[x].login)'
        BY DEF RowsLinked
      <4>1. emp[x] # None /\ emp'[x].login = emp[x].login
        BY <3>3, <3>4, <3>9 DEF Has
      <4> QED BY <2>1, <3>9, <4>1, <1>b DEF RowsLinked, Marks, Alive
    <3> QED BY <3>7, <3>8, <3>10, <3>11 DEF Deep
  <2>5. cmd[s].e \in Employees /\ cmd[s].row \in Row
    BY <2>2 DEF Change
  <2> QED BY <2>3, <2>4, <2>5
<1>23. ASSUME NEW s \in Slots, SetsRoleOf(s)
       PROVE  Deep'
  <2>1. /\ cmd[s] # Idle /\ cmd[s].pc = "role" /\ UNCHANGED <<emp, session, booted, odd>>
        /\ Stores(s, Idle)
    BY <1>23 DEF SetsRoleOf, At
  <2>2. cmd[s].role \in Roles
    BY <2>1, <1>a, CommandAt, Families DEF Change
  <2>3. CASE ~Alive(cmd[s].row.login)
    <3>1. UNCHANGED acct
      BY <1>23, <2>3 DEF SetsRoleOf, Live, Alive
    <3> QED BY <2>1, <3>1, <1>14 DEF Finishes, Marks
  <2>4. ASSUME NEW l \in Logins, l = cmd[s].row.login, Alive(l)
        PROVE  Deep'
    <3>1. acct' = [acct EXCEPT ![l] = [acct[l] EXCEPT !.role = cmd[s].role]]
      BY <1>23, <2>4 DEF SetsRoleOf, Live, Alive
    <3>2. /\ acct'[l] = [acct[l] EXCEPT !.role = cmd[s].role] /\ acct[l] \in Account
          /\ \A k \in Logins \ {l} : acct'[k] = acct[k]
      BY <3>1, <1>a DEF Logged
    <3>3. /\ acct'[l].role = cmd[s].role /\ acct'[l].state = acct[l].state
          /\ acct'[l].banned = acct[l].banned
      BY <2>2, <3>2, RoleSet
    <3>4. \A k : Alive(k)' <=> Alive(k)
      BY <3>2, <3>3 DEF Alive
    <3>5. Remains'
      <4> SUFFICES ASSUME Calm'
                   PROVE  \E k \in Logins : Keeper(k)'
        BY DEF Remains
      <4>1. Spares(cmd[s])
        BY <2>1, <1>b DEF Sparing, Calm
      <4>2. PICK me \in Logins : me = session[cmd[s].t]
        BY <2>1, <4>1 DEF Spares, Keeper, Keeps, Alive
      <4>3. Keeper(me) /\ (cmd[s].role # "administrator" => l # me)
        BY <2>1, <2>4, <4>1, <4>2 DEF Spares
      <4>4. Keeper(me)'
        BY <2>1, <2>2, <3>2, <3>3, <4>3 DEF Keeper, Keeps, Alive, Linked, Has, Roles
      <4> QED BY <4>4
    <3>6. odd' = {} => odd = {} /\ \A r \in Slots : cmd[r] # Idle => r = s
      BY <2>1, <1>b DEF Alone
    <3>7. AccountsLinked'
      BY <2>1, <3>4, <3>6, <1>b, LinksStay DEF AccountsLinked, Finishes
    <3>8. RowsLinked'
      BY <2>1, <3>4, <3>6, <1>b DEF RowsLinked, Marks
    <3> QED BY <2>1, <3>5, <3>7, <3>8, <1>13 DEF Deep
  <2> QED BY <2>3, <2>4 DEF Alive
<1>24. ASSUME NEW s \in Slots, BlocksCards(s)
       PROVE  Deep'
  <2> DEFINE pc == IF cmd[s].row.login = None THEN "mark" ELSE "remove"
             d == [cmd[s] EXCEPT !.pc = pc]
  <2>1. /\ cmd[s] # Idle /\ cmd[s].pc = "block" /\ UNCHANGED <<emp, acct, session, booted, odd>>
        /\ Stores(s, d) /\ card' = [card EXCEPT ![cmd[s].e] = FALSE]
    BY <1>24 DEF BlocksCards, At, To
  <2>2. cmd[s] \in Leaving /\ cmd[s].e \in Employees /\ cmd[s].t \in Terminals
    BY <2>1, <1>a, CommandAt, Families DEF Leaving
  <2>3. pc \in {"mark", "remove"} /\ (pc = "mark" => cmd[s].row.login = None)
    OBVIOUS
  <2> HIDE DEF pc
  <2>4. d \in Made /\ d.pc = pc /\ d.t = cmd[s].t /\ d.e = cmd[s].e /\ d.row = cmd[s].row
    BY <2>2, <2>3 DEF Made, Leaving
  <2> HIDE DEF d
  <2>5. /\ Alone' /\ cmd'[s] = d /\ \A r \in Slots \ {s} : cmd'[r] = cmd[r]
        /\ "overlap" \notin odd' => \A r \in Slots : cmd[r] # Idle \/ cmd'[r] # Idle => r = s
    BY <2>1, <2>4, <1>12
  <2>6. Fresh'
    <3>1. "overlap" \notin odd => emp[cmd[s].e] = cmd[s].row
      BY <2>1, <1>b DEF Fresh, FreshRow
    <3>2. ~card'[cmd[s].e]
      BY <2>1, <2>2, <1>a DEF Others
    <3> QED BY <2>1, <2>3, <2>4, <2>5, <3>1, <3>2, ConstantsAssumption DEF Fresh, FreshRow, Alive
  <2>7. Sparing'
    <3> SUFFICES ASSUME Calm'
                 PROVE  Spares(cmd[s])'
      BY <2>1, <2>5 DEF Sparing, Calm
    <3>1. Spares(cmd[s])
      BY <2>1, <1>b DEF Sparing, Calm
    <3> QED BY <2>1, <2>3, <2>4, <2>5, <3>1 DEF Spares, Keeper, Keeps, Alive, Linked, Has
  <2>8. Remains'
    BY <2>1, <1>b DEF Remains, Calm, Keeper, Keeps, Alive, Linked, Has
  <2>9. Promises'
    BY <2>3, <2>4, <2>5 DEF Promises, Promised
  <2>10. AccountsLinked'
    <3> SUFFICES ASSUME odd' = {}, NEW k \in Logins, Alive(k)'
                 PROVE  (Linked(k))'
      BY DEF AccountsLinked
    <3>1. Linked(k)
      BY <2>1, <2>5, <1>b DEF AccountsLinked, Alive, Finishes
    <3> QED BY <2>1, <3>1, LinksStay
  <2>11. RowsLinked'
    BY <2>1, <2>5, <1>b DEF RowsLinked, Alive, Marks
  <2> QED BY <2>5, <2>6, <2>7, <2>8, <2>9, <2>10, <2>11 DEF Deep
<1>25. ASSUME NEW s \in Slots, RemovesLogin(s)
       PROVE  Deep'
  <2>1. cmd[s] # Idle /\ cmd[s].pc = "remove" /\ UNCHANGED <<emp, card, booted, odd>>
    BY <1>25 DEF RemovesLogin, At
  <2>2. /\ cmd[s] \in Leaving /\ cmd[s].e \in Employees /\ cmd[s].t \in Terminals
        /\ cmd[s].row \in Row
    BY <2>1, <1>a, CommandAt, Families DEF Leaving
  <2>3. CASE ~Permitted(cmd[s].t)
    <3>1. Stores(s, Idle) /\ UNCHANGED acct
      BY <1>25, <2>3 DEF RemovesLogin
    <3> QED BY <2>1, <3>1, <1>14 DEF Finishes, Marks
  <2>4. ASSUME NEW l, l = cmd[s].row.login, NEW e \in Employees, e = cmd[s].e,
               RemovesUser(l), To(s, "mark")
        PROVE  Deep'
    <3> DEFINE d == [cmd[s] EXCEPT !.pc = "mark"]
    <3>1. d \in Made /\ d.pc = "mark" /\ d.t = cmd[s].t /\ d.e = e /\ d.row = cmd[s].row
      BY <2>2, <2>4, LeavingMoves DEF Made
    <3>2. Stores(s, d)
      BY <2>4 DEF To
    <3> HIDE DEF d
    <3>3. /\ Alone' /\ cmd'[s] = d /\ \A r \in Slots \ {s} : cmd'[r] = cmd[r]
          /\ "overlap" \notin odd' => \A r \in Slots : cmd[r] # Idle \/ cmd'[r] # Idle => r = s
      BY <2>1, <3>1, <3>2, <1>12
    <3>4. /\ \A k \in Logins : Alive(k)' <=> Alive(k) /\ k # l
          /\ \A k \in Logins \ {l} : acct'[k] = acct[k]
      <4>1. Live' = Live \ {l} /\ \A k \in Logins \ {l} : acct'[k] = acct[k]
        BY <2>4, <1>a, AccountGone DEF RemovesUser
      <4> QED BY <4>1 DEF Live, Alive
    <3>5. \A t \in Terminals : session[t] # l => session'[t] = session[t]
      BY <2>4 DEF RemovesUser, Revokes
    <3>6. Fresh'
      <4>1. "overlap" \notin odd => emp[e] = cmd[s].row /\ ~card[e]
        BY <2>1, <2>4, <1>b DEF Fresh, FreshRow
      <4>2. ~Alive(l)'
        BY <3>4 DEF Alive
      <4> QED BY <2>1, <2>4, <3>1, <3>3, <4>1, <4>2 DEF Fresh, FreshRow, Alive
    <3>7. Calm' => \E me \in Logins : /\ me = session[cmd[s].t] /\ me # l
                                      /\ Keeper(me)' /\ session'[cmd[s].t] = me
      <4> SUFFICES ASSUME Calm'
                   PROVE  \E me \in Logins : /\ me = session[cmd[s].t] /\ me # l
                                             /\ Keeper(me)' /\ session'[cmd[s].t] = me
        OBVIOUS
      <4>1. Spares(cmd[s])
        BY <2>1, <1>b DEF Sparing, Calm
      <4>2. PICK me \in Logins : me = session[cmd[s].t]
        BY <2>1, <4>1 DEF Spares, Keeper, Keeps, Alive
      <4>3. Keeper(me) /\ me # l
        BY <2>1, <2>4, <4>1, <4>2 DEF Spares
      <4>4. Keeper(me)'
        BY <2>1, <3>4, <4>3 DEF Keeper, Keeps, Alive, Linked, Has
      <4> QED BY <2>2, <3>5, <4>2, <4>3, <4>4
    <3>8. Sparing'
      <4> SUFFICES ASSUME Calm'
                   PROVE  Spares(cmd[s])'
        BY <2>1, <3>3 DEF Sparing, Calm
      <4>1. PICK me \in Logins : me # l /\ Keeper(me)' /\ session'[cmd[s].t] = me
        BY <3>7
      <4> QED BY <2>4, <3>1, <3>3, <4>1 DEF Spares
    <3>9. Remains'
      BY <3>7 DEF Remains
    <3>10. Promises'
      BY <3>1, <3>3 DEF Promises, Promised
    <3>11. AccountsLinked'
      <4> SUFFICES ASSUME odd' = {}, NEW k \in Logins, Alive(k)'
                   PROVE  (Linked(k))'
        BY DEF AccountsLinked
      <4>1. Linked(k)
        BY <2>1, <3>3, <3>4, <1>b DEF AccountsLinked, Finishes
      <4> QED BY <2>1, <4>1, LinksStay
    <3>12. RowsLinked'
      <4> SUFFICES ASSUME odd' = {}, NEW x \in Employees, emp[x] # None, emp[x].login # None, x # e
                   PROVE  (Alive(emp[x].login))'
        BY <2>1, <3>1, <3>3, IdleNotMade DEF RowsLinked, Marks
      <4>1. Alive(emp[x].login)
        BY <2>1, <3>3, <1>b DEF RowsLinked, Marks
      <4>2. emp[x].login # l
        <5>1. emp[e] = cmd[s].row /\ emp[e] # None
          BY <2>1, <2>2, <2>4, <1>b, RowIsNotNone DEF Fresh, FreshRow
        <5>2. Unique(x, emp[x])
          BY <1>a DEF Rows
        <5> QED BY <2>4, <5>1, <5>2 DEF Unique, Registered
      <4>3. PICK k \in Logins : k = emp[x].login
        BY <4>1 DEF Alive
      <4> QED BY <2>1, <3>4, <4>1, <4>2, <4>3 DEF Alive
    <3> QED BY <3>3, <3>6, <3>8, <3>9, <3>10, <3>11, <3>12 DEF Deep
  <2>5. Permitted(cmd[s].t) => RemovesUser(cmd[s].row.login) /\ To(s, "mark")
    BY <1>25 DEF RemovesLogin
  <2> QED BY <2>2, <2>3, <2>4, <2>5
<1>26. ASSUME NEW s \in Slots, MarksTerminated(s)
       PROVE  Deep'
  <2>1. /\ cmd[s] # Idle /\ cmd[s].pc = "mark" /\ UNCHANGED <<acct, session, booted, odd>>
        /\ Stores(s, Idle)
    BY <1>26 DEF MarksTerminated, At
  <2>2. cmd[s].e \in Employees /\ cmd[s].row \in Row
    BY <2>1, <1>a, CommandAt, Families DEF Leaving
  <2>3. ASSUME NEW e \in Employees, e = cmd[s].e, NEW row \in Row, row = cmd[s].row
        PROVE  Deep'
    <3>1. "overlap" \notin odd => emp[e] = row /\ emp[e] # None /\ ~Alive(row.login)
      BY <2>1, <2>3, <1>b, RowIsNotNone DEF Fresh, FreshRow
    <3>2. CASE ~Unique(e, Terminated(row))
      <4>1. UNCHANGED emp
        BY <1>26, <2>3, <3>2 DEF MarksTerminated
      <4>2. odd # {}
        <5> SUFFICES ASSUME odd = {}
                     PROVE  FALSE
          OBVIOUS
        <5>1. Unique(e, row)
          BY <3>1, <1>a DEF Rows
        <5> QED BY <3>2, <5>1, RowLeaves DEF Unique
      <4> QED BY <2>1, <4>1, <4>2, <1>14
    <3>3. CASE Unique(e, Terminated(row))
      <4>1. emp' = [emp EXCEPT ![e] = Terminated(row)]
        BY <1>26, <2>3, <3>3 DEF MarksTerminated, Upsert
      <4>2. /\ emp'[e] = Terminated(row) /\ emp'[e] # None /\ emp'[e].login = None
            /\ \A x \in Employees \ {e} : emp'[x] = emp[x]
        BY <4>1, <1>a, RowLeaves, RowIsNotNone DEF Rows
      <4>3. \A k \in Logins : "overlap" \notin odd /\ Linked(k) /\ k # row.login => Linked(k)'
        BY <3>1, <4>2 DEF Linked, Has
      <4>4. Remains'
        <5> SUFFICES ASSUME Calm'
                     PROVE  \E k \in Logins : Keeper(k)'
          BY DEF Remains
        <5>1. Spares(cmd[s])
          BY <2>1, <1>b DEF Sparing, Calm
        <5>2. PICK me \in Logins : me = session[cmd[s].t]
          BY <2>1, <5>1 DEF Spares, Keeper, Keeps, Alive
        <5>3. Keeper(me) /\ me # row.login
          BY <2>1, <2>3, <5>1, <5>2 DEF Spares
        <5>4. Keeper(me)'
          BY <2>1, <4>3, <5>3 DEF Calm, Keeper, Keeps, Alive
        <5> QED BY <5>4
      <4>5. odd' = {} => odd = {} /\ \A r \in Slots : cmd[r] # Idle => r = s
        BY <2>1, <1>b DEF Alone
      <4>6. AccountsLinked'
        <5> SUFFICES ASSUME odd' = {}, NEW k \in Logins, Alive(k)'
                     PROVE  (Linked(k))'
          BY DEF AccountsLinked
        <5>1. Alive(k) /\ Linked(k)
          BY <2>1, <4>5, <1>b DEF AccountsLinked, Alive, Finishes
        <5> QED BY <3>1, <4>3, <4>5, <5>1
      <4>7. RowsLinked'
        <5> SUFFICES ASSUME odd' = {}, NEW x \in Employees, emp'[x] # None, emp'[x].login # None
                     PROVE  Alive(emp[x].login)'
          BY DEF RowsLinked
        <5>1. x # e /\ emp'[x] = emp[x]
          BY <4>2
        <5> QED BY <2>1, <2>3, <4>5, <5>1, <1>b DEF RowsLinked, Marks, Alive
      <4> QED BY <2>1, <4>4, <4>6, <4>7, <1>13 DEF Deep
    <3> QED BY <3>2, <3>3
  <2> QED BY <2>2, <2>3
<1>27. ASSUME NEW s \in Slots, DropsUser(s)
       PROVE  Deep'
  <2>1. /\ cmd[s] # Idle /\ cmd[s].pc = "drop" /\ UNCHANGED <<emp, booted, odd>> /\ Stores(s, Idle)
    BY <1>27 DEF DropsUser, At
  <2>2. cmd[s].l \in Logins
    BY <2>1, <1>a, CommandAt, Families DEF Removal
  <2>3. CASE ~Permitted(cmd[s].t)
    <3>1. odd # {}
      <4> SUFFICES ASSUME odd = {}
                   PROVE  FALSE
        OBVIOUS
      <4>1. Keeper(session[cmd[s].t])
        BY <2>1, <1>b DEF Sparing, Calm, Spares
      <4> QED BY <2>3, <4>1 DEF Permitted, Keeper, Keeps, Alive, Live
    <3>2. UNCHANGED acct
      BY <1>27, <2>3 DEF DropsUser
    <3> QED BY <2>1, <3>1, <3>2, <1>14
  <2>4. ASSUME NEW l \in Logins, l = cmd[s].l, RemovesUser(l)
        PROVE  Deep'
    <3>1. /\ \A k \in Logins : Alive(k)' <=> Alive(k) /\ k # l
          /\ \A k \in Logins \ {l} : acct'[k] = acct[k]
      <4>1. Live' = Live \ {l} /\ \A k \in Logins \ {l} : acct'[k] = acct[k]
        BY <2>4, <1>a, AccountGone DEF RemovesUser
      <4> QED BY <4>1 DEF Live, Alive
    <3>2. Remains'
      <4> SUFFICES ASSUME Calm'
                   PROVE  \E k \in Logins : Keeper(k)'
        BY DEF Remains
      <4>1. Spares(cmd[s])
        BY <2>1, <1>b DEF Sparing, Calm
      <4>2. PICK me \in Logins : me = session[cmd[s].t]
        BY <2>1, <4>1 DEF Spares, Keeper, Keeps, Alive
      <4>3. Keeper(me) /\ me # l
        BY <2>1, <2>4, <4>1, <4>2 DEF Spares
      <4>4. Keeper(me)'
        BY <2>1, <3>1, <4>3 DEF Keeper, Keeps, Alive, Linked, Has
      <4> QED BY <4>4
    <3>3. odd' = {} => odd = {} /\ ~Linked(l) /\ \A r \in Slots : cmd[r] # Idle => r = s
      BY <2>1, <2>4, <1>b, <1>12 DEF Promises, Promised
    <3>4. AccountsLinked'
      <4> SUFFICES ASSUME odd' = {}, NEW k \in Logins, Alive(k)'
                   PROVE  (Linked(k))'
        BY DEF AccountsLinked
      <4>1. Linked(k)
        BY <2>1, <2>4, <3>1, <3>3, <1>b DEF AccountsLinked, Finishes
      <4> QED BY <2>1, <4>1, LinksStay
    <3>5. RowsLinked'
      <4> SUFFICES ASSUME odd' = {}, NEW x \in Employees, emp[x] # None, emp[x].login # None
                   PROVE  (Alive(emp[x].login))'
        BY <2>1 DEF RowsLinked
      <4>1. Alive(emp[x].login) /\ emp[x].login # l
        BY <2>1, <3>3, <1>b DEF RowsLinked, Marks, Linked, Has
      <4>2. PICK k \in Logins : k = emp[x].login
        BY <4>1 DEF Alive
      <4> QED BY <2>1, <3>1, <4>1, <4>2 DEF Alive
    <3> QED BY <2>1, <3>2, <3>4, <3>5, <1>13 DEF Deep
  <2>5. Permitted(cmd[s].t) => RemovesUser(cmd[s].l)
    BY <1>27 DEF DropsUser
  <2> QED BY <2>2, <2>3, <2>4, <2>5
<1>28. CASE UNCHANGED vars
  BY <1>28, <1>1 DEF vars
<1> QED BY <1>2, <1>3, <1>4, <1>6, <1>7, <1>8, <1>9, <1>10, <1>11, <1>15, <1>16, <1>17, <1>18, <1>19,
           <1>20, <1>21, <1>22, <1>23, <1>24, <1>25, <1>26, <1>27, <1>28 DEF Next

LEMMA InvStep == AccountsInv /\ [Next]_vars => AccountsInv'
BY TypedStep, DeepStep DEF AccountsInv

LEMMA InvInit == Init => AccountsInv
BY TypedInit, DeepInit DEF AccountsInv

(* The inductive invariant holds in every reachable state.                 *)
LEMMA Invariant == Spec => []AccountsInv
BY InvInit, InvStep, PTL DEF Spec

-----------------------------------------------------------------------------
(* What follows.                                                           *)

(* Whatever fails half way, whoever is terminated, removed or suspended:   *)
(* once the first administrator is linked, one who can sign in remains, as *)
(* long as commands do not overlap and nobody acts on its own account      *)
(* (guard.rs, auth_bootstrap_admin).                                       *)
THEOREM AdministratorAlwaysRemains == Spec => []AdministratorRemains
<1>1. Remains => AdministratorRemains
  <2> SUFFICES ASSUME Remains, booted, odd \cap {"overlap", "self", "unlinked"} = {}
               PROVE  \E l \in Administrators : ~acct[l].banned /\ LinkedTo(l) # {}
    BY DEF AdministratorRemains
  <2>1. Calm
    BY DEF Calm
  <2>2. PICK l \in Logins : Keeper(l)
    BY <2>1 DEF Remains
  <2>3. l \in Administrators /\ ~acct[l].banned
    BY <2>2 DEF Keeper, Keeps, Alive, Administrators, Live
  <2>4. LinkedTo(l) # {}
    BY <2>2 DEF Keeper, Linked, Has, LinkedTo, Registered
  <2> QED BY <2>3, <2>4
<1>2. AccountsInv => Remains
  BY DEF AccountsInv, Deep
<1> QED BY <1>1, <1>2, Invariant, PTL

(* When no command is under way and nothing odd has happened, every        *)
(* account has its employee and every login of an employee its account     *)
(* (auth_create_account, auth_admin_remove_user, employee_terminate).      *)
THEOREM LoginsAlwaysLinked == Spec => []LoginsLinked
<1>1. AccountsLinked /\ RowsLinked => LoginsLinked
  <2> SUFFICES ASSUME AccountsLinked, RowsLinked, ~Busy, odd = {}
               PROVE  /\ \A l \in Live : LinkedTo(l) # {}
                      /\ \A e \in Registered : emp[e].login \in Live \cup {None}
    BY DEF LoginsLinked
  <2>1. \A s \in Slots : cmd[s] = Idle
    BY DEF Busy
  <2>2. ASSUME NEW l \in Live
        PROVE  LinkedTo(l) # {}
    <3>1. Linked(l)
      BY <2>1, <2>2 DEF AccountsLinked, Alive, Live
    <3> QED BY <3>1 DEF Linked, Has, LinkedTo, Registered
  <2>3. ASSUME NEW e \in Registered
        PROVE  emp[e].login \in Live \cup {None}
    BY <2>1, <2>3 DEF RowsLinked, Alive, Live, Registered
  <2> QED BY <2>2, <2>3
<1>2. AccountsInv => AccountsLinked /\ RowsLinked
  BY DEF AccountsInv, Deep
<1> QED BY <1>1, <1>2, Invariant, PTL

(* Only the last step of employee_terminate makes an employee terminated.   *)
LEMMA TerminatedStep ==
    ASSUME AccountsInv, [Next]_vars, "overlap" \notin odd, NEW e \in Employees,
           emp[e] # None, emp'[e] # None, emp[e].status # "terminated",
           emp'[e].status = "terminated"
    PROVE  ~card'[e] /\ emp[e].login \notin Live' /\ emp'[e].login = None
<1>a. Rows /\ Logged /\ Commands /\ Fresh
  BY DEF AccountsInv, Typed, Deep
<1>1. emp' # emp
  OBVIOUS
<1>2. ASSUME NEW s \in Slots, NEW t \in Terminals, NEW l \in Logins, AsksRemoval(s, t, l)
      PROVE  FALSE
  BY <1>2, <1>a, RowsUnlinked DEF AsksRemoval, Registered
<1>3. ASSUME NEW s \in Slots, NEW x \in Employees, Enters(s, x) \/ Inserts(s, x)
      PROVE  FALSE
  <2>1. emp[x] = None /\ \E row : row.status = "active" /\ (Upsert(x, row) \/ UNCHANGED emp)
    BY <1>3 DEF Enters, Inserts, Registered
  <2> QED BY <2>1, <1>a DEF Upsert, Rows
<1>4. ASSUME NEW s \in Slots, LinksAccount(s)
      PROVE  FALSE
  <2>1. cmd[s] # Idle /\ cmd[s].pc = "link" /\ Upsert(cmd[s].e, cmd[s].row)
    BY <1>1, <1>4 DEF LinksAccount, At
  <2>2. cmd[s].row.status = emp[cmd[s].e].status
    BY <2>1, <1>a DEF Fresh, FreshRow
  <2> QED BY <2>1, <2>2, <1>a DEF Upsert, Rows
<1>5. ASSUME NEW s \in Slots, SavesProfile(s)
      PROVE  FALSE
  <2>1. cmd[s] # Idle /\ cmd[s].pc = "save" /\ Upsert(cmd[s].e, cmd[s].row)
    BY <1>1, <1>5 DEF SavesProfile, At
  <2>2. cmd[s].row.status = emp[cmd[s].e].status
    BY <2>1, <1>a DEF Fresh, FreshRow
  <2> QED BY <2>1, <2>2, <1>a DEF Upsert, Rows
<1>6. ASSUME NEW s \in Slots, MarksTerminated(s)
      PROVE  ~card'[e] /\ emp[e].login \notin Live' /\ emp'[e].login = None
  <2>1. /\ cmd[s] # Idle /\ cmd[s].pc = "mark" /\ UNCHANGED <<acct, card>>
        /\ Upsert(cmd[s].e, Terminated(cmd[s].row))
    BY <1>1, <1>6 DEF MarksTerminated, At
  <2>2. emp[cmd[s].e] = cmd[s].row /\ ~card[cmd[s].e] /\ ~Alive(cmd[s].row.login)
    BY <2>1, <1>a DEF Fresh, FreshRow
  <2>3. e = cmd[s].e /\ emp'[e] = Terminated(emp[e]) /\ emp[e] \in Row
    BY <2>1, <2>2, <1>a DEF Upsert, Rows
  <2> QED BY <2>1, <2>2, <2>3, RowLeaves DEF Alive, Live
<1>7. UNCHANGED emp => FALSE
  BY <1>1
<1>8. CASE \E t \in Terminals :
              \/ CacheExpires(t) \/ SignsOut(t) \/ OpensWizard(t) \/ Identifies(t) \/ GoesBack(t)
              \/ ClosesWizard(t) \/ Provisions(t)
              \/ \E l \in Logins : SignsIn(t, l) \/ Bans(t, l) \/ Unbans(t, l)
              \/ \E l \in Logins, r \in Roles : SetsRole(t, l, r)
              \/ \E x \in Employees : Reprovisions(t, x)
  BY <1>7, <1>8 DEF CacheExpires, SignsOut, OpensWizard, Identifies, GoesBack, ClosesWizard, Provisions,
       SignsIn, Bans, Unbans, SetsRole, ChangesAccount, Reprovisions
<1>9. CASE \E s \in Slots, t \in Terminals :
              \/ \E m \in Emails : Boots(s, t, m)
              \/ \E m \in Emails, r \in Roles, smtp \in BOOLEAN : Registers(s, t, m, r, smtp)
              \/ \E x \in Employees : AsksTermination(s, t, x)
              \/ \E x \in Employees, m \in Emails, r \in Roles : AsksAccount(s, t, x, m, r)
              \/ \E x \in Employees, m \in Emails \cup {None}, r \in Roles : AsksProfile(s, t, x, m, r)
  <2>1. ASSUME NEW s \in Slots, NEW t \in Terminals, NEW m \in Emails, Boots(s, t, m)
        PROVE  FALSE
    BY <2>1, <1>7 DEF Boots
  <2>2. ASSUME NEW s \in Slots, NEW t \in Terminals, NEW m \in Emails, NEW r \in Roles,
               NEW smtp \in BOOLEAN, Registers(s, t, m, r, smtp)
        PROVE  FALSE
    BY <2>2, <1>7 DEF Registers
  <2>3. ASSUME NEW s \in Slots, NEW t \in Terminals, NEW x \in Employees, AsksTermination(s, t, x)
        PROVE  FALSE
    BY <2>3, <1>7 DEF AsksTermination
  <2>4. ASSUME NEW s \in Slots, NEW t \in Terminals, NEW x \in Employees, NEW m \in Emails,
               NEW r \in Roles, AsksAccount(s, t, x, m, r)
        PROVE  FALSE
    BY <2>4, <1>7 DEF AsksAccount
  <2>5. ASSUME NEW s \in Slots, NEW t \in Terminals, NEW x \in Employees,
               NEW m \in Emails \cup {None}, NEW r \in Roles, AsksProfile(s, t, x, m, r)
        PROVE  FALSE
    BY <2>5, <1>7 DEF AsksProfile
  <2> QED BY <1>9, <2>1, <2>2, <2>3, <2>4, <2>5
<1>10. CASE \E s \in Slots :
              \/ SignsUp(s) \/ Promotes(s) \/ MakesAccount(s) \/ MailsLink(s) \/ SetsRoleOf(s)
              \/ BlocksCards(s) \/ RemovesLogin(s) \/ DropsUser(s) \/ Fails(s)
  BY <1>7, <1>10 DEF SignsUp, Promotes, MakesAccount, MailsLink, SetsRoleOf, BlocksCards, RemovesLogin,
       DropsUser, Fails
<1> QED BY <1>2, <1>3, <1>4, <1>5, <1>6, <1>7, <1>8, <1>9, <1>10 DEF Next, vars

(* An employee becomes "terminated" as the last step of employee_terminate: *)
(* no card of the employee works any more and the login is gone.  No other  *)
(* command terminates an employee: the rows they write back have the        *)
(* status of the rows that they replace.                                    *)
THEOREM TerminatedAlwaysLast == Spec => TerminatedLast
<1>1. AccountsInv /\ [Next]_vars =>
        [\A e \in Employees :
            /\ emp[e] # None /\ emp'[e] # None /\ emp[e].status # "terminated"
            /\ emp'[e].status = "terminated"
            /\ "overlap" \notin odd
            => ~card'[e] /\ emp[e].login \notin Live' /\ emp'[e].login = None]_vars
  BY TerminatedStep
<1> QED BY <1>1, Invariant, PTL DEF Spec, TerminatedLast
=============================================================================
