---------------------------- MODULE SessionProofs ----------------------------
(* What holds of Session for any accounts, commands at once, bounds and Env. *)
EXTENDS Session, TLAPS

-----------------------------------------------------------------------------
(* The inductive invariant.                                                 *)

Whats == Roles \cup {"ban", "unban", "remove"}
Kinds == {"in", "restore", "out", "caps", "page", "list", "act"}
Pcs == {"auth", "resolve", "store", "hold", "may", "do", "clear", "end", "forget", "tell"}

\* A command: what it is about depends on what it is.
Args == Logins \cup {None} \cup [Logins -> Account] \cup (Logins \X Whats)
Call == [kind : Kinds, pc : Pcs, arg : Args, t : 0..MaxSessions,
         ui : BOOLEAN, dead : BOOLEAN, ok : BOOLEAN]

\* A command with n tokens drawn: which of its steps it may be at, and that it has a
\* token wherever it uses one.
CallGood(c, n) ==
    c # Idle =>
      /\ c \in Call
      /\ c.t <= n
      /\ c.kind = "in" => c.arg \in Logins /\ ~c.dead
      /\ c.kind = "act" => c.arg \in Logins \X Whats
      /\ c.pc \in {"auth", "hold"} => c.kind = "in"
      /\ c.pc \in {"end", "forget"} <=> c.kind = "out"
      /\ c.pc = "may" => c.kind \in {"caps", "page", "list", "act"}
      /\ c.pc = "do" => c.kind \in {"list", "act"}
      /\ c.pc = "clear" => c.kind = "act"
      /\ c.pc \notin {"auth", "tell"} => c.t # NoToken
      /\ c.kind \in {"in", "restore"} /\ c.pc = "tell" /\ c.ok => c.t # NoToken

SidecarTypes ==
    /\ acct \in [Logins -> Account] /\ holder \in [Tokens -> Logins \cup {None}]
    /\ linked \subseteq Logins
    /\ issued \in 0..MaxSessions /\ live \subseteq 1..issued
    /\ \A t \in 1..issued : holder[t] \in Logins
    /\ \A t \in live : acct[holder[t]].state = "ok"

ProgramTypes == current \in 0..issued /\ cache \subseteq 1..issued

WindowTypes ==
    /\ screen \in Logins \cup {"loading", "guest"} /\ menu \in BOOLEAN /\ loading \in BOOLEAN
    /\ page \in {"home", "wait", "asked", "open", "denied"}
    /\ odd \subseteq Oddities

CallTypes ==
    /\ calls \in [Slots -> Call \cup {Idle}]
    /\ \A s \in Slots : CallGood(calls[s], issued)

Typed == SidecarTypes /\ ProgramTypes /\ WindowTypes /\ CallTypes

\* A command whose token was dead has a dead token for ever, and gets no permission.
DeadGood(c, alive) == c # Idle /\ c.dead => c.t \notin alive /\ c.pc \notin {"do", "clear"}
DeadStay == \A s \in Slots : DeadGood(calls[s], live)

\* A sign-in or a restore: what the window and the program have meanwhile.
Entering(c) == c.kind \in {"in", "restore"}

EntersGood(c, shown, held, whose) ==
    /\ c.ui
    /\ shown = IF c.kind = "in" THEN "guest" ELSE "loading"
    /\ c.kind = "in" /\ c.pc # "auth" /\ (c.pc = "tell" => c.ok) => whose[c.t] = c.arg
    /\ c.kind = "in" /\ c.pc # "tell" => held = NoToken
    /\ c.kind = "restore" /\ c.pc # "tell" => held = c.t
    /\ c.pc = "tell" => held = IF c.ok THEN c.t ELSE NoToken

\* Unless they cross, one of them at most is under way; the window and the program
\* agree when none is.
Agree ==
    IF SignedIn THEN current # NoToken /\ holder[current] = screen
                ELSE screen = "guest" /\ current = NoToken

OneEnters ==
    /\ \A s, x \in Slots : Entering(calls[s]) /\ Entering(calls[x]) => s = x
    /\ \A s \in Slots : Entering(calls[s]) => EntersGood(calls[s], screen, current, holder)
    /\ (\A s \in Slots : ~Entering(calls[s])) => Agree

Entered == "crossed" \notin odd => OneEnters

\* Nothing odd has happened. An employee without an account had it removed.
Calm == odd \cap {"crossed", "lists", "left", "changed", "fail"} = {}
UnlinkedGone == \A l \in Logins \ linked : acct[l].state = "gone"

\* A session that is ended is nobody's any more.
OutsAway ==
    \A s \in Slots : calls[s].kind = "out" =>
        /\ calls[s].t # current
        /\ \A x \in Slots : calls[x].kind = "in" /\ calls[x].pc \notin {"auth", "tell"} =>
              calls[s].t # calls[x].t

\* The page is open to who is signed in with a session that administers.
PageHeld == page = "open" => SignedIn /\ Administers(current)

\* What the page still listens to.
Asked(c) == c.kind = "page" /\ c.ui
Awaited(c) == c.kind = "list" /\ c.ui

PageGood(c, route, held) ==
    Asked(c) =>
        /\ route = "asked" /\ SignedIn /\ c.t = held
        /\ c.pc = "tell" /\ c.ok => Administers(held)

ActGood(c, route, shown) == c.kind = "act" => route = "open" /\ c.ui /\ c.arg[1] # shown

ListGood(c, route, held) ==
    Awaited(c) =>
        /\ route = "open"
        /\ c.pc \in {"resolve", "store", "may"} => c.t = held
        /\ c.pc = "tell" => c.ok

AsksGood ==
    \A s \in Slots :
        /\ PageGood(calls[s], page, current)
        /\ ActGood(calls[s], page, screen)
        /\ ListGood(calls[s], page, current)

\* One question of the page and one list at most are awaited. An action that is done will have the accounts listed
\* again; without one, what is or will be shown is what they are.
OneAwaited ==
    \A s, x \in Slots :
        (Asked(calls[s]) /\ Asked(calls[x])) \/ (Awaited(calls[s]) /\ Awaited(calls[x])) => s = x

Redoes(c) == c.kind = "act" /\ (c.pc = "clear" \/ (c.pc = "tell" /\ c.ok))

Shown ==
    (\A s \in Slots : ~Redoes(calls[s])) =>
        /\ \A s \in Slots : Awaited(calls[s]) /\ calls[s].pc = "tell" => calls[s].arg = acct
        /\ list = None \/ list = acct \/ \E s \in Slots : Awaited(calls[s])

Listed == UnlinkedGone /\ OutsAway /\ PageHeld /\ AsksGood /\ OneAwaited /\ Shown

IInv == Typed /\ DeadStay /\ Entered /\ (Calm => Listed)
-----------------------------------------------------------------------------
(* A command goes on.                                                       *)

Same(c, d) ==
    /\ d.kind = c.kind /\ d.t = c.t /\ d.ui = c.ui /\ d.dead = c.dead
    /\ d.arg = c.arg \/ d.kind = "list"

LEMMA CallParts ==
    ASSUME CallTypes, NEW s \in Slots, calls[s].kind # "none"
    PROVE  /\ calls[s] # Idle /\ calls[s] \in Call
           /\ calls[s].kind \in Kinds /\ calls[s].pc \in Pcs /\ calls[s].t \in 0..issued
           /\ calls[s].ui \in BOOLEAN /\ calls[s].dead \in BOOLEAN /\ calls[s].ok \in BOOLEAN
           /\ CallGood(calls[s], issued)
  <1>1. calls[s] # Idle /\ CallGood(calls[s], issued)
    BY DEF CallTypes, Idle
  <1>2. calls[s] \in Call /\ calls[s].t <= issued
    BY <1>1 DEF CallGood
  <1> QED
    BY <1>1, <1>2 DEF Call

LEMMA IdleStays == \A c : c \in Call => c # Idle /\ c.kind # "none"
  BY DEF Call, Idle, Kinds

LEMMA Stepped ==
    ASSUME NEW c \in Call, NEW pc \in Pcs
    PROVE  /\ [c EXCEPT !.pc = pc] \in Call
           /\ Same(c, [c EXCEPT !.pc = pc])
           /\ [c EXCEPT !.pc = pc].pc = pc /\ [c EXCEPT !.pc = pc].ok = c.ok
  BY DEF Call, Same

LEMMA Answered ==
    ASSUME NEW c \in Call, NEW ok \in BOOLEAN
    PROVE  /\ [c EXCEPT !.pc = "tell", !.ok = ok] \in Call
           /\ Same(c, [c EXCEPT !.pc = "tell", !.ok = ok])
           /\ [c EXCEPT !.pc = "tell", !.ok = ok].pc = "tell"
           /\ [c EXCEPT !.pc = "tell", !.ok = ok].ok = ok
  BY DEF Call, Same, Pcs

LEMMA Deafened ==
    ASSUME NEW c \in Call
    PROVE  /\ [c EXCEPT !.ui = FALSE] \in Call
           /\ [c EXCEPT !.ui = FALSE].ui = FALSE
           /\ [c EXCEPT !.ui = FALSE].kind = c.kind /\ [c EXCEPT !.ui = FALSE].pc = c.pc
           /\ [c EXCEPT !.ui = FALSE].arg = c.arg /\ [c EXCEPT !.ui = FALSE].t = c.t
           /\ [c EXCEPT !.ui = FALSE].dead = c.dead /\ [c EXCEPT !.ui = FALSE].ok = c.ok
  BY DEF Call

LEMMA Opened1 ==
    ASSUME NEW c \in Call, NEW t \in 0..MaxSessions
    PROVE  /\ [c EXCEPT !.pc = "resolve", !.t = t] \in Call
           /\ [c EXCEPT !.pc = "resolve", !.t = t].t = t
           /\ [c EXCEPT !.pc = "resolve", !.t = t].pc = "resolve"
           /\ [c EXCEPT !.pc = "resolve", !.t = t].kind = c.kind
           /\ [c EXCEPT !.pc = "resolve", !.t = t].arg = c.arg
           /\ [c EXCEPT !.pc = "resolve", !.t = t].ui = c.ui
           /\ [c EXCEPT !.pc = "resolve", !.t = t].dead = c.dead
           /\ [c EXCEPT !.pc = "resolve", !.t = t].ok = c.ok
  BY DEF Call, Pcs

LEMMA ListedWith ==
    ASSUME NEW c \in Call, NEW rows \in [Logins -> Account]
    PROVE  LET d == [c EXCEPT !.pc = "tell", !.ok = TRUE, !.arg = rows] IN
           /\ d \in Call /\ d.pc = "tell" /\ d.ok /\ d.arg = rows
           /\ d.kind = c.kind /\ d.t = c.t /\ d.ui = c.ui /\ d.dead = c.dead
  BY DEF Call, Pcs, Args

LEMMA GatedCall ==
    ASSUME NEW kind \in {"restore", "caps", "page", "list", "act"}, NEW arg \in Args,
           Typed, DeadStay, kind = "act" => arg \in Logins \X Whats, NEW d, d = Gated(kind, arg)
    PROVE  /\ d \in Call /\ d.kind = kind /\ d.arg = arg /\ d.t = current /\ d.ui /\ ~d.ok
           /\ d.pc = IF current = NoToken THEN "tell" ELSE "resolve"
           /\ DeadGood(d, live) /\ CallGood(d, issued)
  <1>1. current \in 0..issued /\ issued \in 0..MaxSessions
    BY DEF Typed, ProgramTypes, SidecarTypes
  <1>2. current \in 0..MaxSessions
    BY <1>1, SessionAssumption
  <1>3. /\ d \in Call /\ d.kind = kind /\ d.arg = arg /\ d.t = current /\ d.ui = TRUE
        /\ d.dead = (current \notin live) /\ d.ok = FALSE
        /\ d.pc = IF current = NoToken THEN "tell" ELSE "resolve"
    BY <1>2 DEF Gated, Call, Kinds, Pcs
  <1>4. DeadGood(d, live)
    BY <1>3 DEF DeadGood
  <1>5. CallGood(d, issued)
    BY <1>1, <1>3 DEF CallGood
  <1> QED
    BY <1>3, <1>4, <1>5

\* A command becomes another one, or none.
LEMMA Becoming ==
    ASSUME Typed, NEW s \in Slots, NEW d, Becomes(s, d), issued' \in Nat, issued <= issued',
           CallGood(d, issued')
    PROVE  /\ CallTypes'
           /\ calls'[s] = d /\ \A x \in Slots \ {s} : calls'[x] = calls[x]
  <1>1. d \in Call \cup {Idle}
    BY DEF CallGood
  <1>2. /\ calls' \in [Slots -> Call \cup {Idle}]
        /\ calls'[s] = d /\ \A x \in Slots \ {s} : calls'[x] = calls[x]
    BY <1>1 DEF Typed, CallTypes, Becomes
  <1>3. ASSUME NEW x \in Slots PROVE CallGood(calls[x], issued')
    <2>1. CallGood(calls[x], issued)
      BY DEF Typed, CallTypes
    <2>2. calls[x] # Idle => calls[x].t \in Nat /\ calls[x].t <= issued
      BY <2>1 DEF CallGood, Call
    <2>3. issued \in Nat
      BY DEF Typed, SidecarTypes
    <2> QED
      BY <2>1, <2>2, <2>3 DEF CallGood
  <1> QED
    BY <1>2, <1>3 DEF CallTypes

LEMMA DeadOne ==
    ASSUME Typed, DeadStay, NEW s \in Slots, NEW d,
           calls'[s] = d, \A x \in Slots \ {s} : calls'[x] = calls[x],
           live' \subseteq live \cup {issued + 1}, DeadGood(d, live')
    PROVE  DeadStay'
  <1> SUFFICES ASSUME NEW x \in Slots PROVE DeadGood(calls'[x], live')
    BY DEF DeadStay
  <1>1. CASE x = s
    BY <1>1
  <1>2. CASE x # s
    <2>1. DeadGood(calls[x], live) /\ CallGood(calls[x], issued)
      BY DEF DeadStay, Typed, CallTypes
    <2>2. calls[x] # Idle => calls[x].t \in Nat /\ calls[x].t <= issued
      BY <2>1 DEF CallGood, Call
    <2>3. issued \in Nat
      BY DEF Typed, SidecarTypes
    <2> QED
      BY <1>2, <2>1, <2>2, <2>3 DEF DeadGood
  <1> QED
    BY <1>1, <1>2

\* What is known of the window while a sign-in or a restore is under way.
LEMMA NobodyShown ==
    ASSUME Typed, OneEnters, NEW s \in Slots, Entering(calls[s])
    PROVE  ~SignedIn /\ calls[s].ui /\ \A x \in Slots \ {s} : ~Entering(calls[x])
  BY SessionAssumption DEF OneEnters, EntersGood, SignedIn

\* Whatever else happens, sign-ins and restores that nothing touches stay as they are.
LEMMA EntersStays ==
    ASSUME OneEnters, UNCHANGED <<screen, current, holder>>,
           \A x \in Slots : Entering(calls[x]) \/ Entering(calls'[x]) => calls'[x] = calls[x]
    PROVE  OneEnters'
  <1>1. ASSUME NEW s \in Slots, NEW x \in Slots, Entering(calls'[s]), Entering(calls'[x]) PROVE s = x
    <2>1. calls'[s] = calls[s] /\ calls'[x] = calls[x]
      BY <1>1
    <2>2. Entering(calls[s]) /\ Entering(calls[x])
      BY <1>1, <2>1
    <2> QED
      BY <2>2 DEF OneEnters
  <1>2. ASSUME NEW s \in Slots, Entering(calls'[s])
        PROVE  EntersGood(calls'[s], screen', current', holder')
    <2>1. calls'[s] = calls[s]
      BY <1>2
    <2>2. Entering(calls[s])
      BY <1>2, <2>1
    <2>3. EntersGood(calls[s], screen, current, holder)
      BY <2>2 DEF OneEnters
    <2> QED
      BY <2>1, <2>3
  <1>3. ASSUME \A s \in Slots : ~Entering(calls'[s]) PROVE Agree'
    <2>1. \A s \in Slots : ~Entering(calls[s])
      <3> SUFFICES ASSUME NEW s \in Slots, Entering(calls[s]) PROVE FALSE
        OBVIOUS
      <3>1. calls'[s] = calls[s]
        OBVIOUS
      <3>2. Entering(calls'[s])
        BY <3>1
      <3> QED
        BY <1>3, <3>2
    <2>2. Agree
      BY <2>1 DEF OneEnters
    <2> QED
      BY <2>2 DEF Agree, SignedIn
  <1> QED
    BY <1>1, <1>2, <1>3 DEF OneEnters

\* The step of a command that leaves the sidecar and the window alone.
LEMMA Advance ==
    ASSUME IInv, NEW s \in Slots, calls[s].kind # "none", NEW d, Becomes(s, d),
           Same(calls[s], d), UNCHANGED <<sidecar, window>>,
           cache' \subseteq 1..issued, current' \in 0..issued, odd' \in {odd, odd \cup {"fail"}},
           CallGood(d, issued), DeadGood(d, live),
           current' = current \/ Entering(d),
           d.pc # "auth", d.pc # "tell" => calls[s].pc \notin {"auth", "tell"},
           OneEnters /\ Entering(d) => EntersGood(d, screen, current', holder),
           Redoes(calls[s]) => Redoes(d),
           Calm' /\ Listed =>
              /\ \A x \in Slots : calls[x].kind = "out" => calls[x].t # current'
              /\ Asked(d) /\ d.pc = "tell" /\ d.ok => Administers(current)
              /\ Awaited(d) /\ d.pc \in {"resolve", "store", "may"} =>
                    calls[s].pc \in {"resolve", "store", "may"}
              /\ Awaited(d) /\ d.pc = "tell" => d.ok /\ d.arg = acct
    PROVE  IInv'
  <1> DEFINE c == calls[s]
  <1> USE DEF sidecar, window, accounts
  <1>1. Typed /\ issued \in Nat /\ issued' = issued
    BY DEF IInv, Typed, SidecarTypes
  <1>2. /\ CallTypes'
        /\ calls'[s] = d /\ \A x \in Slots \ {s} : calls'[x] = calls[x]
    BY <1>1, Becoming
  <1>3. Typed'
    BY <1>1, <1>2 DEF Typed, SidecarTypes, ProgramTypes, WindowTypes, Oddities
  <1>4. DeadStay'
    BY <1>1, <1>2, DeadOne DEF IInv
  <1>5. ("crossed" \notin odd' => "crossed" \notin odd) /\ (Calm' => Calm)
    BY DEF Calm
  <1>6. "crossed" \notin odd' => OneEnters /\ OneEnters'
    <2> SUFFICES ASSUME "crossed" \notin odd' PROVE OneEnters /\ OneEnters'
      OBVIOUS
    <2>1. OneEnters
      BY <1>5 DEF IInv, Entered
    <2>2. \A x \in Slots : Entering(calls'[x]) <=> Entering(calls[x])
      BY <1>2 DEF Entering, Same
    <2>3. CASE Entering(d)
      <3>1. Entering(calls[s]) /\ \A x \in Slots \ {s} : ~Entering(calls[x])
        BY <2>1, <2>3, <1>1, NobodyShown DEF Entering, Same
      <3>2. EntersGood(d, screen', current', holder')
        BY <2>1, <2>3
      <3> QED
        BY <2>1, <2>2, <3>1, <3>2, <1>2 DEF OneEnters
    <2>4. CASE ~Entering(d)
      <3>1. UNCHANGED <<current, screen, holder>>
        BY <2>4
      <3>2. \A x \in Slots : Entering(calls[x]) => x # s /\ calls'[x] = calls[x]
        BY <2>2, <2>4, <1>2
      <3> QED
        BY <2>1, <2>2, <3>1, <3>2 DEF OneEnters, Agree, SignedIn
    <2> QED
      BY <2>3, <2>4
  <1>7. Calm' => Listed'
    <2> SUFFICES ASSUME Calm' PROVE Listed'
      OBVIOUS
    <2>1. Listed /\ OneEnters
      BY <1>5, <1>6 DEF IInv, Calm
    <2>2. current' # current => ~SignedIn /\ page # "open"
      BY <2>1, <1>1, NobodyShown DEF Listed, PageHeld, Entering, Same
    <2>3. UnlinkedGone'
      BY <2>1 DEF Listed, UnlinkedGone
    <2>4. OutsAway'
      BY <2>1, <1>2 DEF Listed, OutsAway, Same
    <2>5. PageHeld'
      BY <2>1, <2>2 DEF Listed, PageHeld, SignedIn, Administers
    <2>6. AsksGood'
      <3> SUFFICES ASSUME NEW x \in Slots
                   PROVE  /\ PageGood(calls[x], page, current)'
                          /\ ActGood(calls[x], page, screen)'
                          /\ ListGood(calls[x], page, current)'
        BY DEF AsksGood
      <3>1. /\ PageGood(calls[x], page, current) /\ ActGood(calls[x], page, screen)
            /\ ListGood(calls[x], page, current)
        BY <2>1 DEF Listed, AsksGood
      <3>2. CASE x # s
        <4>1. calls'[x] = calls[x]
          BY <1>2, <3>2
        <4> QED
          BY <2>2, <3>1, <4>1 DEF PageGood, ActGood, ListGood, SignedIn, Administers
      <3>3. CASE x = s
        <4>1. calls'[x] = d /\ calls[x] = c
          BY <1>2, <3>3
        <4>2. UNCHANGED current \/ Entering(d)
          OBVIOUS
        <4>3. PageGood(calls[x], page, current)'
          BY <2>1, <3>1, <4>1, <4>2
          DEF PageGood, SignedIn, Administers, Same, Asked, Entering
        <4>4. ActGood(calls[x], page, screen)'
          BY <3>1, <4>1 DEF ActGood, Same
        <4>5. ListGood(calls[x], page, current)'
          BY <2>1, <3>1, <4>1, <4>2 DEF ListGood, Same, Awaited, Entering
        <4> QED
          BY <4>3, <4>4, <4>5
      <3> QED
        BY <3>2, <3>3
    <2>7. OneAwaited'
      BY <2>1, <1>2 DEF Listed, OneAwaited, Asked, Awaited, Same
    <2>8. Shown'
      <3>1. \A x \in Slots : Redoes(calls[x]) => Redoes(calls'[x])
        BY <1>2
      <3>2. \A x \in Slots : Awaited(calls'[x]) <=> Awaited(calls[x])
        BY <1>2 DEF Awaited, Same
      <3>3. \A x \in Slots : Awaited(calls'[x]) /\ calls'[x].pc = "tell" =>
               calls'[x].arg = acct \/ (Awaited(calls[x]) /\ calls[x].pc = "tell" /\ calls[x].arg = calls'[x].arg)
        BY <2>1, <1>2
      <3> QED
        BY <2>1, <3>1, <3>2, <3>3 DEF Listed, Shown
    <2> QED
      BY <2>3, <2>4, <2>5, <2>6, <2>7, <2>8 DEF Listed
  <1> QED
    BY <1>3, <1>4, <1>6, <1>7 DEF IInv, Entered

\* Ended sessions are not the one that is held.
LEMMA NotOut ==
    ASSUME Typed, Listed
    PROVE  \A x \in Slots : calls[x].kind = "out" => calls[x].t # current /\ calls[x].t # NoToken
  <1> SUFFICES ASSUME NEW x \in Slots, calls[x].kind = "out" PROVE calls[x].t # NoToken
    BY DEF Listed, OutsAway
  <1>1. CallGood(calls[x], issued) /\ calls[x] # Idle
    BY CallParts DEF Typed
  <1> QED
    BY <1>1 DEF CallGood

\* The session was resolved: what the command goes on to.
LEMMA ResolvedKeeps ==
    ASSUME IInv, NEW s \in Slots, calls[s].kind # "none", calls[s].pc \in {"resolve", "store"},
           Resolved(s), UNCHANGED <<sidecar, current, window, odd>>, cache' \subseteq 1..issued
    PROVE  IInv'
  <1> DEFINE c == calls[s]
  <1>1. Typed /\ CallTypes /\ DeadGood(c, live)
    BY DEF IInv, Typed, DeadStay
  <1>2. c \in Call /\ CallGood(c, issued) /\ c # Idle /\ c.kind \in Kinds
    BY <1>1, CallParts
  <1>3. current' \in 0..issued
    BY <1>1 DEF Typed, ProgramTypes
  <1>4. PICK pc \in {"tell", "hold", "may"}, d \in Call :
          /\ Becomes(s, d) /\ Same(c, d) /\ d.pc = pc
          /\ pc = "tell" <=> c.kind = "restore"
          /\ pc = "hold" <=> c.kind = "in"
          /\ pc = "tell" => d.ok
    <2>1. CASE c.kind = "restore"
      <3>1. Answers(s, TRUE)
        BY <2>1 DEF Resolved
      <3> QED
        BY <1>2, <2>1, <3>1, Answered DEF Answers
    <2>2. CASE c.kind = "in"
      <3>1. To(s, "hold")
        BY <2>2 DEF Resolved
      <3> QED
        BY <1>2, <2>2, <3>1, Stepped DEF To, Pcs
    <2>3. CASE c.kind \notin {"restore", "in"}
      <3>1. To(s, "may")
        BY <2>3 DEF Resolved
      <3> QED
        BY <1>2, <2>3, <3>1, Stepped DEF To, Pcs
    <2> QED
      BY <2>1, <2>2, <2>3
  <1>5. CallGood(d, issued) /\ DeadGood(d, live) /\ d # Idle
    BY <1>1, <1>2, <1>4, IdleStays DEF CallGood, DeadGood, Same, Kinds
  <1>6. OneEnters /\ Entering(d) => EntersGood(d, screen, current', holder)
    <2> SUFFICES ASSUME OneEnters, Entering(d) PROVE EntersGood(d, screen, current, holder)
      OBVIOUS
    <2>1. EntersGood(c, screen, current, holder)
      BY <1>4 DEF OneEnters, Entering, Same
    <2> QED
      BY <2>1, <1>4 DEF EntersGood, Entering, Same
  <1>7. Listed => \A x \in Slots : calls[x].kind = "out" => calls[x].t # current'
    BY <1>1, NotOut
  <1> QED
    BY <1>1, <1>3, <1>4, <1>5, <1>6, <1>7, Advance DEF Redoes, Asked, Awaited, Same

\* A command is refused, and no list the page awaits ever is.
LEMMA RefusedKeeps ==
    ASSUME IInv, NEW s \in Slots, calls[s].kind # "none",
           calls[s].pc \in {"auth", "resolve", "may", "do"},
           Answers(s, FALSE), UNCHANGED <<sidecar, cache, window>>,
           current' = IF calls[s].kind = "restore" THEN NoToken ELSE current,
           odd' \in {odd, odd \cup {"fail"}},
           Calm' /\ Listed => ~Awaited(calls[s])
    PROVE  IInv'
  <1> DEFINE c == calls[s]
             d == [c EXCEPT !.pc = "tell", !.ok = FALSE]
  <1>1. Typed /\ CallTypes /\ DeadGood(c, live)
    BY DEF IInv, Typed, DeadStay
  <1>2. c \in Call /\ CallGood(c, issued) /\ c # Idle /\ c.kind \in Kinds
    BY <1>1, CallParts
  <1>3. current' \in 0..issued /\ cache' \subseteq 1..issued
    BY <1>1 DEF Typed, ProgramTypes, NoToken, SidecarTypes
  <1>4. Becomes(s, d) /\ d \in Call /\ Same(c, d) /\ d.pc = "tell" /\ d.ok = FALSE
    BY <1>2, Answered DEF Answers
  <1> HIDE DEF d
  <1>5. CallGood(d, issued) /\ DeadGood(d, live) /\ d # Idle
    BY <1>1, <1>2, <1>4, IdleStays DEF CallGood, DeadGood, Same, Kinds
  <1>6. OneEnters /\ Entering(d) => EntersGood(d, screen, current', holder)
    <2> SUFFICES ASSUME OneEnters, Entering(d) PROVE EntersGood(d, screen, current', holder)
      OBVIOUS
    <2>1. EntersGood(c, screen, current, holder)
      BY <1>4 DEF OneEnters, Entering, Same
    <2> QED
      BY <2>1, <1>4 DEF EntersGood, Entering, Same
  <1>7. Listed => \A x \in Slots : calls[x].kind = "out" => calls[x].t # current'
    BY <1>1, NotOut
  <1>8. current' = current \/ Entering(d)
    BY <1>4 DEF Entering, Same
  <1>9. Redoes(c) => Redoes(d)
    BY DEF Redoes
  <1>10. Calm' /\ Listed => ~Awaited(d)
    BY <1>4 DEF Awaited, Same
  <1> QED
    BY <1>1, <1>3, <1>4, <1>5, <1>6, <1>7, <1>8, <1>9, <1>10, Advance

LEMMA FindsCachedKeeps == ASSUME IInv, NEW s \in Slots, FindsCached(s) PROVE IInv'
  <1>1. cache' \subseteq 1..issued
    BY DEF FindsCached, IInv, Typed, ProgramTypes
  <1> QED
    BY <1>1, ResolvedKeeps DEF FindsCached, At

LEMMA StoresKeeps == ASSUME IInv, NEW s \in Slots, Stores(s) PROVE IInv'
  <1>1. calls[s].kind # "none" /\ calls[s].pc = "store"
    BY DEF Stores, At
  <1>2. CallGood(calls[s], issued) /\ calls[s] # Idle /\ calls[s].t \in 0..issued /\ issued \in Nat
    BY <1>1, CallParts DEF IInv, Typed, SidecarTypes
  <1>3. calls[s].t \in 1..issued
    BY <1>1, <1>2 DEF CallGood, NoToken
  <1>4. cache' \subseteq 1..issued
    BY <1>3 DEF Stores, IInv, Typed, ProgramTypes
  <1> QED
    BY <1>1, <1>4, ResolvedKeeps DEF Stores

\* The page awaits its list with a session that is good for it.
LEMMA ListAllowed ==
    ASSUME Typed, Listed, NEW s \in Slots, Awaited(calls[s])
    PROVE  /\ Administers(current) /\ holder[current] \in linked
           /\ calls[s].pc \in {"resolve", "store", "may"} => calls[s].t = current
  <1>1. page = "open" /\ (calls[s].pc \in {"resolve", "store", "may"} => calls[s].t = current)
    BY DEF Listed, AsksGood, ListGood
  <1>2. Administers(current)
    BY <1>1 DEF Listed, PageHeld
  <1>3. current \in live /\ holder[current] \in Logins /\ acct[holder[current]].state = "ok"
    BY <1>2 DEF Administers, Typed, SidecarTypes
  <1> QED
    BY <1>1, <1>2, <1>3 DEF Listed, UnlinkedGone

LEMMA AsksSessionKeeps == ASSUME IInv, NEW s \in Slots, AsksSession(s) PROVE IInv'
  <1> DEFINE c == calls[s]
  <1> USE DEF AsksSession
  <1>1. Typed /\ CallTypes /\ DeadGood(c, live) /\ c.kind # "none" /\ c.pc = "resolve"
    BY DEF IInv, Typed, DeadStay, At
  <1>2. CASE c.t \in live /\ holder[c.t] \in linked
    <2>1. c \in Call /\ CallGood(c, issued) /\ c # Idle /\ c.kind \in Kinds
      BY <1>1, CallParts
    <2>2. PICK d \in Call : Becomes(s, d) /\ Same(c, d) /\ d.pc = "store"
      <3>1. To(s, "store")
        BY <1>2
      <3>2. "store" \in Pcs
        BY DEF Pcs
      <3> QED
        BY <2>1, <3>1, <3>2, Stepped DEF To
    <2>3. CallGood(d, issued) /\ DeadGood(d, live) /\ d # Idle
      BY <1>1, <2>1, <2>2, IdleStays DEF CallGood, DeadGood, Same, Kinds
    <2>4. UNCHANGED current /\ current \in 0..issued /\ cache' \subseteq 1..issued
      BY <1>1, <1>2 DEF Typed, ProgramTypes
    <2>5. OneEnters /\ Entering(d) => EntersGood(d, screen, current', holder)
      <3> SUFFICES ASSUME OneEnters, Entering(d) PROVE EntersGood(d, screen, current, holder)
        BY <2>4
      <3>1. EntersGood(c, screen, current, holder)
        BY <2>2 DEF OneEnters, Entering, Same
      <3> QED
        BY <1>1, <2>2, <3>1 DEF EntersGood, Entering, Same
    <2>6. Listed => \A x \in Slots : calls[x].kind = "out" => calls[x].t # current'
      BY <1>1, <2>4, NotOut
    <2> QED
      BY <1>1, <2>2, <2>3, <2>4, <2>5, <2>6, Advance DEF Redoes
  <1>3. CASE ~(c.t \in live /\ holder[c.t] \in linked)
    <2>1. Calm' /\ Listed => ~Awaited(c)
      BY <1>1, <1>3, ListAllowed DEF Administers
    <2> QED
      BY <1>1, <1>3, <2>1, RefusedKeeps DEF GivesUp
  <1> QED
    BY <1>2, <1>3

LEMMA AsksPermissionKeeps == ASSUME IInv, NEW s \in Slots, AsksPermission(s) PROVE IInv'
  <1> DEFINE c == calls[s]
  <1> USE DEF AsksPermission
  <1>1. Typed /\ CallTypes /\ DeadGood(c, live) /\ c.kind # "none" /\ c.pc = "may"
    BY DEF IInv, Typed, DeadStay, At
  <1>2. CASE Administers(c.t)
    <2>1. c \in Call /\ CallGood(c, issued) /\ c # Idle /\ c.kind \in {"caps", "page", "list", "act"}
      BY <1>1, CallParts DEF CallGood
    <2>2. PICK d \in Call :
            /\ Becomes(s, d) /\ Same(c, d)
            /\ IF c.kind \in {"caps", "page"} THEN d.pc = "tell" /\ d.ok ELSE d.pc = "do"
      <3>1. CASE c.kind \in {"caps", "page"}
        BY <1>2, <2>1, <3>1, Answered DEF Permits, Answers
      <3>2. CASE c.kind \notin {"caps", "page"}
        <4>1. To(s, "do")
          BY <1>2, <3>2 DEF Permits
        <4>2. "do" \in Pcs
          BY DEF Pcs
        <4> QED
          BY <2>1, <3>2, <4>1, <4>2, Stepped DEF To
      <3> QED
        BY <3>1, <3>2
    <2>3. ~c.dead
      BY <1>1, <1>2, <2>1 DEF DeadGood, Administers
    <2>4. CallGood(d, issued) /\ DeadGood(d, live) /\ d # Idle /\ ~Entering(d)
      BY <1>1, <2>1, <2>2, <2>3, IdleStays DEF CallGood, DeadGood, Same, Entering
    <2>5. UNCHANGED current /\ current \in 0..issued /\ cache' \subseteq 1..issued
      BY <1>1, <1>2 DEF Typed, ProgramTypes
    <2>6. Listed => \A x \in Slots : calls[x].kind = "out" => calls[x].t # current'
      BY <1>1, <2>5, NotOut
    <2>7. Listed /\ Asked(d) => Administers(current)
      <3>1. Listed /\ Asked(d) => c.t = current
        BY <2>2 DEF Listed, AsksGood, PageGood, Asked, Same
      <3> QED
        BY <1>2, <3>1
    <2>8. d.pc # "auth" /\ d.pc \notin {"resolve", "store", "may"} /\ (Awaited(d) => d.pc # "tell")
      BY <2>2 DEF Awaited, Same
    <2> QED
      BY <1>1, <2>2, <2>4, <2>5, <2>6, <2>7, <2>8, Advance DEF Redoes
  <1>3. CASE ~Administers(c.t)
    <2>1. Calm' /\ Listed => ~Awaited(c)
      BY <1>1, <1>3, ListAllowed
    <2> QED
      BY <1>1, <1>3, <2>1, RefusedKeeps DEF GivesUp
  <1> QED
    BY <1>2, <1>3

LEMMA FailsKeeps == ASSUME IInv, NEW s \in Slots, Fails(s) PROVE IInv'
  <1>1. ~Calm'
    BY DEF Fails, IsOdd, Calm
  <1> QED
    BY <1>1, RefusedKeeps DEF Fails, GivesUp, IsOdd, At

LEMMA HoldsKeeps == ASSUME IInv, NEW s \in Slots, Holds(s) PROVE IInv'
  <1> DEFINE c == calls[s]
             d == [c EXCEPT !.pc = "tell", !.ok = TRUE]
  <1>1. Typed /\ CallTypes /\ DeadGood(c, live) /\ c.kind # "none" /\ c.pc = "hold"
    BY DEF Holds, IInv, Typed, DeadStay, At
  <1>2. c \in Call /\ CallGood(c, issued) /\ c # Idle /\ c.kind = "in" /\ c.t \in 0..issued
    BY <1>1, CallParts DEF CallGood
  <1>3. Becomes(s, d) /\ d \in Call /\ Same(c, d) /\ d.pc = "tell" /\ d.ok = TRUE /\ Entering(d)
    BY <1>2, Answered DEF Holds, Answers, Entering, Same
  <1>4. current' = c.t /\ cache' \subseteq 1..issued /\ UNCHANGED <<sidecar, window, odd>>
    BY <1>1 DEF Holds, Typed, ProgramTypes
  <1> HIDE DEF d
  <1>5. CallGood(d, issued) /\ DeadGood(d, live) /\ d # Idle
    BY <1>1, <1>2, <1>3, IdleStays DEF CallGood, DeadGood, Same, Kinds
  <1>6. OneEnters => EntersGood(d, screen, current', holder)
    <2> SUFFICES ASSUME OneEnters PROVE EntersGood(d, screen, current', holder)
      OBVIOUS
    <2>1. EntersGood(c, screen, current, holder)
      BY <1>2 DEF OneEnters, Entering
    <2> QED
      BY <2>1, <1>1, <1>2, <1>3, <1>4 DEF EntersGood, Same
  <1>7. Listed => \A x \in Slots : calls[x].kind = "out" => calls[x].t # current'
    BY <1>1, <1>2, <1>4 DEF Listed, OutsAway
  <1>8. ~Awaited(d) /\ ~Asked(d)
    BY <1>2, <1>3 DEF Awaited, Asked, Same
  <1> QED
    BY <1>1, <1>2, <1>3, <1>4, <1>5, <1>6, <1>7, <1>8, Advance DEF Redoes

LEMMA ListsKeeps == ASSUME IInv, NEW s \in Slots, Lists(s) PROVE IInv'
  <1> DEFINE c == calls[s]
             d == [c EXCEPT !.pc = "tell", !.ok = TRUE, !.arg = acct]
  <1>1. Typed /\ CallTypes /\ DeadGood(c, live) /\ c.kind = "list" /\ c.pc = "do"
    BY DEF Lists, IInv, Typed, DeadStay, At
  <1>2. UNCHANGED <<sidecar, current, cache, window, odd>>
    BY DEF Lists
  <1>3. CASE Administers(current)
    <2>1. c \in Call /\ CallGood(c, issued) /\ c # Idle
      BY <1>1, CallParts
    <2>2. acct \in [Logins -> Account]
      BY <1>1 DEF Typed, SidecarTypes
    <2>3. /\ Becomes(s, d) /\ d \in Call /\ d.pc = "tell" /\ d.ok /\ d.arg = acct
          /\ d.kind = c.kind /\ d.t = c.t /\ d.ui = c.ui /\ d.dead = c.dead
      BY <1>3, <2>1, <2>2, ListedWith DEF Lists
    <2> HIDE DEF d
    <2>4. CallGood(d, issued) /\ DeadGood(d, live) /\ d # Idle /\ Same(c, d) /\ ~Entering(d)
      BY <1>1, <2>1, <2>3, IdleStays DEF CallGood, DeadGood, Same, Entering
    <2>5. current' \in 0..issued /\ cache' \subseteq 1..issued
      BY <1>1, <1>2 DEF Typed, ProgramTypes
    <2>6. Listed => \A x \in Slots : calls[x].kind = "out" => calls[x].t # current'
      BY <1>1, <1>2, NotOut
    <2>7. ~Asked(d) /\ ~Redoes(c)
      BY <1>1, <2>3 DEF Asked, Redoes
    <2> QED
      BY <1>1, <1>2, <2>3, <2>4, <2>5, <2>6, <2>7, Advance
  <1>4. CASE ~Administers(current)
    <2>1. Calm' /\ Listed => ~Awaited(c)
      BY <1>1, <1>4, ListAllowed
    <2>2. Answers(s, FALSE)
      BY <1>4 DEF Lists
    <2> QED
      BY <1>1, <1>2, <2>1, <2>2, RefusedKeeps
  <1> QED
    BY <1>3, <1>4

LEMMA ClearsKeeps == ASSUME IInv, NEW s \in Slots, Clears(s) PROVE IInv'
  <1> DEFINE c == calls[s]
             d == [c EXCEPT !.pc = "tell", !.ok = TRUE]
  <1>1. Typed /\ CallTypes /\ DeadGood(c, live) /\ c.kind # "none" /\ c.pc = "clear"
    BY DEF Clears, IInv, Typed, DeadStay, At
  <1>2. c \in Call /\ CallGood(c, issued) /\ c # Idle /\ c.kind = "act"
    BY <1>1, CallParts DEF CallGood
  <1>3. Becomes(s, d) /\ d \in Call /\ Same(c, d) /\ d.pc = "tell" /\ d.ok = TRUE
    BY <1>2, Answered DEF Clears, Answers
  <1>4. UNCHANGED <<sidecar, current, window, odd>> /\ cache' = {} /\ current' \in 0..issued
    BY <1>1 DEF Clears, Typed, ProgramTypes
  <1> HIDE DEF d
  <1>5. CallGood(d, issued) /\ DeadGood(d, live) /\ d # Idle /\ ~Entering(d)
    BY <1>1, <1>2, <1>3, IdleStays DEF CallGood, DeadGood, Same, Entering
  <1>6. Listed => \A x \in Slots : calls[x].kind = "out" => calls[x].t # current'
    BY <1>1, <1>4, NotOut
  <1>7. ~Awaited(d) /\ ~Asked(d) /\ Redoes(d)
    BY <1>2, <1>3 DEF Awaited, Asked, Same, Redoes
  <1> QED
    BY <1>1, <1>2, <1>3, <1>4, <1>5, <1>6, <1>7, Advance

-----------------------------------------------------------------------------
(* A command is over.                                                       *)

LEMMA Ending ==
    ASSUME IInv, NEW s \in Slots, calls[s].kind # "none", Ends(s),
           UNCHANGED <<sidecar, current, screen, odd>>, cache' \subseteq cache,
           menu' \in BOOLEAN, loading' \in BOOLEAN,
           page' = page \/ (Asked(calls[s]) /\ page' = "denied"),
           OneEnters /\ Entering(calls[s]) => Agree,
           Calm /\ Listed => ~Redoes(calls[s]),
           IF Calm /\ Listed /\ Awaited(calls[s])
           THEN calls[s].pc = "tell" /\ list' = calls[s].arg
           ELSE Calm => list' = list
    PROVE  IInv'
  <1> DEFINE c == calls[s]
  <1> USE DEF sidecar
  <1>1. Typed /\ issued \in Nat /\ issued' = issued
    BY DEF IInv, Typed, SidecarTypes
  <1>2. CallGood(Idle, issued) /\ DeadGood(Idle, live)
    BY DEF CallGood, DeadGood
  <1>3. /\ CallTypes'
        /\ calls'[s] = Idle /\ \A x \in Slots \ {s} : calls'[x] = calls[x]
    BY <1>1, <1>2, Becoming DEF Ends
  <1>4. Typed'
    BY <1>1, <1>3 DEF Typed, SidecarTypes, ProgramTypes, WindowTypes
  <1>5. DeadStay'
    BY <1>1, <1>2, <1>3, DeadOne DEF IInv
  <1>6. Idle.kind = "none"
    BY DEF Idle
  <1>7. "crossed" \notin odd' => OneEnters'
    <2> SUFFICES ASSUME "crossed" \notin odd' PROVE OneEnters'
      OBVIOUS
    <2>1. OneEnters
      BY DEF IInv, Entered
    <2>2. \A x \in Slots : Entering(calls'[x]) => x # s /\ Entering(calls[x]) /\ calls'[x] = calls[x]
      BY <1>3, <1>6 DEF Entering
    <2>3. (\A x \in Slots : ~Entering(calls'[x])) => Agree
      BY <2>1, <1>3 DEF OneEnters
    <2> QED
      BY <2>1, <2>2, <2>3 DEF OneEnters, Agree, SignedIn
  <1>8. Calm' => Listed'
    <2> SUFFICES ASSUME Calm' PROVE Listed'
      OBVIOUS
    <2>1. Listed /\ Calm
      BY DEF IInv, Calm
    <2>2. UnlinkedGone'
      BY <2>1 DEF Listed, UnlinkedGone
    <2>3. OutsAway'
      BY <2>1, <1>3, <1>6 DEF Listed, OutsAway
    <2>4. PageHeld'
      BY <2>1 DEF Listed, PageHeld, SignedIn, Administers
    <2>5. page' # page => page = "asked"
      BY <2>1 DEF Listed, AsksGood, PageGood
    <2>6. AsksGood'
      <3> SUFFICES ASSUME NEW x \in Slots
                   PROVE  /\ PageGood(calls[x], page, current)'
                          /\ ActGood(calls[x], page, screen)'
                          /\ ListGood(calls[x], page, current)'
        BY DEF AsksGood
      <3>1. /\ PageGood(calls[x], page, current) /\ ActGood(calls[x], page, screen)
            /\ ListGood(calls[x], page, current)
        BY <2>1 DEF Listed, AsksGood
      <3>2. CASE x = s
        BY <3>2, <1>3, <1>6 DEF PageGood, ActGood, ListGood, Asked, Awaited
      <3>3. CASE x # s
        <4>1. calls'[x] = calls[x]
          BY <1>3, <3>3
        <4>2. Asked(calls[x]) => page' = page
          BY <2>1, <3>3 DEF Listed, OneAwaited
        <4> QED
          BY <2>5, <3>1, <4>1, <4>2 DEF PageGood, ActGood, ListGood, SignedIn, Administers
      <3> QED
        BY <3>2, <3>3
    <2>7. OneAwaited'
      BY <2>1, <1>3, <1>6 DEF Listed, OneAwaited, Asked, Awaited
    <2>8. Shown'
      <3> SUFFICES ASSUME \A x \in Slots : ~Redoes(calls'[x])
                   PROVE  /\ \A x \in Slots : Awaited(calls'[x]) /\ calls'[x].pc = "tell" =>
                                calls'[x].arg = acct'
                          /\ \/ list' = None \/ list' = acct'
                             \/ \E x \in Slots : Awaited(calls'[x])
        BY DEF Shown
      <3>1. \A x \in Slots : ~Redoes(calls[x])
        BY <2>1, <1>3
      <3>2. /\ \A x \in Slots : Awaited(calls[x]) /\ calls[x].pc = "tell" => calls[x].arg = acct
            /\ list = None \/ list = acct \/ \E x \in Slots : Awaited(calls[x])
        BY <2>1, <3>1 DEF Listed, Shown
      <3>3. CASE Awaited(c)
        BY <2>1, <3>2, <3>3, <1>3, <1>6 DEF Awaited
      <3>4. CASE ~Awaited(c)
        BY <2>1, <3>2, <3>4, <1>3, <1>6 DEF Awaited
      <3> QED
        BY <3>3, <3>4
    <2> QED
      BY <2>2, <2>3, <2>4, <2>6, <2>7, <2>8 DEF Listed
  <1> QED
    BY <1>4, <1>5, <1>7, <1>8 DEF IInv, Entered

LEMMA ForgetsKeeps == ASSUME IInv, NEW s \in Slots, Forgets(s) PROVE IInv'
  <1>1. calls[s].kind = "out"
    <2>1. calls[s].kind # "none" /\ calls[s].pc = "forget"
      BY DEF Forgets, At
    <2>2. CallGood(calls[s], issued) /\ calls[s] # Idle
      BY <2>1, CallParts DEF IInv, Typed
    <2> QED
      BY <2>1, <2>2 DEF CallGood
  <1>2. ~Redoes(calls[s]) /\ ~Awaited(calls[s]) /\ ~Entering(calls[s])
    BY <1>1 DEF Redoes, Awaited, Entering
  <1>3. menu' \in BOOLEAN /\ loading' \in BOOLEAN /\ UNCHANGED <<page, list>>
    BY DEF Forgets, window, IInv, Typed, WindowTypes
  <1> QED
    BY <1>1, <1>2, <1>3, Ending DEF Forgets, Ends, window

LEMMA TellsHeaderKeeps == ASSUME IInv, NEW s \in Slots, TellsHeader(s) PROVE IInv'
  <1>1. calls[s].kind = "caps"
    BY DEF TellsHeader
  <1>2. ~Redoes(calls[s]) /\ ~Awaited(calls[s]) /\ ~Entering(calls[s])
    BY <1>1 DEF Redoes, Awaited, Entering
  <1>3. menu' \in BOOLEAN /\ loading' \in BOOLEAN
    <2>1. calls[s].ok \in BOOLEAN
      BY <1>1, CallParts DEF IInv, Typed
    <2> QED
      BY <2>1 DEF TellsHeader, accounts, IInv, Typed, WindowTypes
  <1> QED
    BY <1>1, <1>2, <1>3, Ending DEF TellsHeader, accounts

LEMMA TellsListKeeps == ASSUME IInv, NEW s \in Slots, TellsList(s) PROVE IInv'
  <1>1. calls[s].kind = "list" /\ calls[s].pc = "tell"
    BY DEF TellsList, At
  <1>2. ~Redoes(calls[s]) /\ ~Entering(calls[s])
    BY <1>1 DEF Redoes, Entering
  <1>3. Listed /\ Awaited(calls[s]) => calls[s].ui /\ calls[s].ok
    BY <1>1 DEF Listed, AsksGood, ListGood, Awaited
  <1>4. IF Calm /\ Listed /\ Awaited(calls[s])
        THEN calls[s].pc = "tell" /\ list' = calls[s].arg
        ELSE Calm => list' = list
    BY <1>1, <1>3 DEF TellsList, Awaited, IInv
  <1>5. menu' \in BOOLEAN /\ loading' \in BOOLEAN
    BY DEF TellsList, IInv, Typed, WindowTypes
  <1> QED
    BY <1>1, <1>2, <1>4, <1>5, Ending DEF TellsList

-----------------------------------------------------------------------------
(* A command begins, or the one it follows is over.                         *)

\* A page that asks, a list or an action begins, with the session that is held.
LEMMA Beginning ==
    ASSUME IInv, NEW s \in Slots, NEW kind \in {"page", "list", "act"}, NEW arg \in Args,
           Becomes(s, Gated(kind, arg)), kind = "act" => arg \in Logins \X Whats,
           ~Entering(calls[s]), calls[s].kind # "list", calls[s].kind # "out",
           UNCHANGED <<sidecar, current, cache, screen, menu, list>>, loading' \in BOOLEAN,
           NEW odder \in SUBSET (Oddities \ {"crossed"}), odd' = odd \cup odder,
           \/ page' = page
           \/ page = "wait" /\ page' = "asked" /\ kind = "page"
           \/ calls[s].kind = "page" /\ calls[s].ui /\ page' = "open" /\ kind = "list",
           Calm' /\ Listed =>
              /\ kind = "page" => page = "wait" /\ page' = "asked" /\ SignedIn
              /\ kind = "list" =>
                    /\ page' = "open" /\ SignedIn /\ Administers(current)
                    /\ \A x \in Slots : ~Awaited(calls[x])
              /\ kind = "act" => page' = "open" /\ page = "open" /\ arg[1] # screen
              /\ Redoes(calls[s]) => kind = "list"
    PROVE  IInv'
  <1> DEFINE c == calls[s]
             d == Gated(kind, arg)
  <1> USE DEF sidecar
  <1>1. Typed /\ issued \in Nat /\ issued' = issued /\ DeadStay
    BY DEF IInv, Typed, SidecarTypes
  <1>2. /\ d \in Call /\ d.kind = kind /\ d.arg = arg /\ d.t = current /\ d.ui
        /\ ~d.ok /\ d.pc = IF current = NoToken THEN "tell" ELSE "resolve"
        /\ DeadGood(d, live) /\ CallGood(d, issued)
    <2>1. kind \in {"restore", "caps", "page", "list", "act"}
      OBVIOUS
    <2>2. d = Gated(kind, arg)
      OBVIOUS
    <2> HIDE DEF d
    <2> QED
      BY <1>1, <2>1, <2>2, GatedCall
  <1> HIDE DEF d
  <1>3. /\ CallTypes'
        /\ calls'[s] = d /\ \A x \in Slots \ {s} : calls'[x] = calls[x]
    BY <1>1, <1>2, Becoming DEF d
  <1>4. Typed'
    BY <1>1, <1>3 DEF Typed, SidecarTypes, ProgramTypes, WindowTypes
  <1>5. DeadStay'
    BY <1>1, <1>2, <1>3, DeadOne
  <1>6. "crossed" \notin odd' => OneEnters'
    <2> SUFFICES ASSUME "crossed" \notin odd' PROVE OneEnters'
      OBVIOUS
    <2>1. OneEnters
      BY DEF IInv, Entered
    <2>2. /\ \A x \in Slots : Entering(calls'[x]) <=> Entering(calls[x])
          /\ \A x \in Slots : Entering(calls'[x]) => calls'[x] = calls[x]
      BY <1>2, <1>3 DEF Entering
    <2> QED
      BY <2>1, <2>2 DEF OneEnters, Agree, SignedIn
  <1>7. Calm' => Listed'
    <2> SUFFICES ASSUME Calm' PROVE Listed'
      OBVIOUS
    <2>1. Listed /\ Calm
      BY DEF IInv, Calm
    <2>2. UnlinkedGone'
      BY <2>1 DEF Listed, UnlinkedGone
    <2>3. OutsAway'
      BY <2>1, <1>2, <1>3 DEF Listed, OutsAway
    <2>4. PageHeld'
      BY <2>1 DEF Listed, PageHeld, SignedIn, Administers
    <2>5. page' # page => page \in {"wait", "asked"}
      BY <2>1 DEF Listed, AsksGood, PageGood, Asked
    <2>6. AsksGood'
      <3> SUFFICES ASSUME NEW x \in Slots
                   PROVE  /\ PageGood(calls[x], page, current)'
                          /\ ActGood(calls[x], page, screen)'
                          /\ ListGood(calls[x], page, current)'
        BY DEF AsksGood
      <3>1. /\ PageGood(calls[x], page, current) /\ ActGood(calls[x], page, screen)
            /\ ListGood(calls[x], page, current)
        BY <2>1 DEF Listed, AsksGood
      <3>2. CASE x = s
        <4>1. kind = "list" => current # NoToken
          BY <2>1, <1>1 DEF Administers, Typed, SidecarTypes, NoToken
        <4> QED
          BY <2>1, <3>2, <4>1, <1>2, <1>3
          DEF PageGood, ActGood, ListGood, Asked, Awaited, SignedIn
      <3>3. CASE x # s
        <4>1. calls'[x] = calls[x]
          BY <1>3, <3>3
        <4>2. Asked(calls[x]) => page' = page
          BY <2>1, <3>1, <3>3 DEF Listed, OneAwaited, PageGood, Asked
        <4> QED
          BY <2>5, <3>1, <4>1, <4>2 DEF PageGood, ActGood, ListGood, SignedIn, Administers
      <3> QED
        BY <3>2, <3>3
    <2>7. OneAwaited'
      <3>1. kind = "page" => \A x \in Slots : ~Asked(calls[x])
        BY <2>1 DEF Listed, AsksGood, PageGood
      <3> QED
        BY <2>1, <3>1, <1>2, <1>3 DEF Listed, OneAwaited, Asked, Awaited
    <2>8. Shown'
      <3> SUFFICES ASSUME \A x \in Slots : ~Redoes(calls'[x])
                   PROVE  /\ \A x \in Slots : Awaited(calls'[x]) /\ calls'[x].pc = "tell" =>
                                calls'[x].arg = acct'
                          /\ \/ list' = None \/ list' = acct'
                             \/ \E x \in Slots : Awaited(calls'[x])
        BY DEF Shown
      <3>1. CASE kind = "list"
        <4>1. Awaited(calls'[s]) /\ calls'[s].pc # "tell"
          BY <2>1, <3>1, <1>1, <1>2, <1>3 DEF Awaited, Administers, Typed, SidecarTypes, NoToken
        <4>2. \A x \in Slots : Awaited(calls'[x]) => x = s
          BY <2>1, <3>1, <1>3
        <4> QED
          BY <4>1, <4>2
      <3>2. CASE kind # "list"
        <4>1. \A x \in Slots : ~Redoes(calls[x])
          BY <2>1, <3>2, <1>3
        <4>2. \A x \in Slots : Awaited(calls'[x]) <=> Awaited(calls[x])
          BY <3>2, <1>2, <1>3 DEF Awaited
        <4>3. \A x \in Slots : Awaited(calls[x]) => calls'[x] = calls[x]
          BY <1>3 DEF Awaited
        <4> QED
          BY <2>1, <4>1, <4>2, <4>3 DEF Listed, Shown
      <3> QED
        BY <3>1, <3>2
    <2> QED
      BY <2>2, <2>3, <2>4, <2>6, <2>7, <2>8 DEF Listed
  <1> QED
    BY <1>4, <1>5, <1>6, <1>7 DEF IInv, Entered

LEMMA NoneArg == None \in Args
  BY DEF Args

\* The page was asked for and may be opened.
LEMMA TellsPageKeeps == ASSUME IInv, NEW s \in Slots, TellsPage(s) PROVE IInv'
  <1> DEFINE c == calls[s]
  <1> USE DEF TellsPage
  <1>1. c.kind = "page" /\ c.pc = "tell" /\ ~Entering(c) /\ ~Redoes(c) /\ ~Awaited(c)
    BY DEF At, Entering, Redoes, Awaited
  <1>2. Typed /\ UNCHANGED <<list, loading, odd, menu, screen>> /\ loading \in BOOLEAN /\ menu \in BOOLEAN
    BY DEF IInv, Typed, WindowTypes, accounts
  <1>3. CASE c.ui /\ c.ok
    <2>1. Becomes(s, Gated("list", None)) /\ page' = "open"
      BY <1>3
    <2>2. Listed => /\ SignedIn /\ Administers(current)
                    /\ \A x \in Slots : ~Awaited(calls[x])
      BY <1>1, <1>3 DEF Listed, AsksGood, PageGood, ListGood, Asked
    <2>3. odd' = odd \cup {}
      BY <1>2
    <2> QED
      BY <1>1, <1>2, <1>3, <2>1, <2>2, <2>3, NoneArg, Beginning
  <1>4. CASE ~(c.ui /\ c.ok)
    <2>1. Ends(s) /\ (page' = page \/ (Asked(c) /\ page' = "denied"))
      BY <1>1, <1>4 DEF Ends, Asked
    <2> QED
      BY <1>1, <1>2, <2>1, Ending
  <1> QED
    BY <1>3, <1>4

\* The page is open to who may administer.
LEMMA PageOpened ==
    ASSUME Listed, page = "open"
    PROVE  SignedIn /\ Administers(current)
  BY DEF Listed, PageHeld

LEMMA RefreshesKeeps == ASSUME IInv, NEW s \in Slots, Refreshes(s) PROVE IInv'
  <1> USE DEF Refreshes
  <1>1. ~Entering(calls[s]) /\ ~Redoes(calls[s]) /\ calls[s].kind = "none"
    BY DEF Entering, Redoes, Idle
  <1>2. UNCHANGED <<sidecar, current, cache, screen, menu, list, page>> /\ page = "open"
    BY DEF Opened
  <1>3. Relisted \in SUBSET (Oddities \ {"crossed"}) /\ odd' = odd \cup Relisted
    BY DEF Relisted, Oddities, IsOdd
  <1>4. Calm' => \A x \in Slots : ~Awaited(calls[x])
    BY <1>3 DEF Calm, Relisted, Heard, Under, Awaited
  <1> QED
    BY <1>1, <1>2, <1>3, <1>4, NoneArg, PageOpened, Beginning

LEMMA PageAsksKeeps == ASSUME IInv, NEW s \in Slots, PageAsks(s) PROVE IInv'
  <1> USE DEF PageAsks
  <1>1. ~Entering(calls[s]) /\ ~Redoes(calls[s]) /\ calls[s].kind = "none"
    BY DEF Entering, Redoes, Idle
  <1>2. UNCHANGED <<sidecar, current, cache, screen, menu, list>> /\ loading' \in BOOLEAN
    BY DEF accounts, IInv, Typed, WindowTypes
  <1>3. odd' = odd \cup {}
    OBVIOUS
  <1> QED
    BY <1>1, <1>2, <1>3, NoneArg, Beginning

LEMMA ChoosesKeeps ==
    ASSUME IInv, NEW s \in Slots, NEW l \in Logins, NEW what \in Whats, Chooses(s, l, what)
    PROVE  IInv'
  <1> DEFINE odder == IF screen = l THEN {"changed"} ELSE {}
  <1> USE DEF Chooses
  <1>1. ~Entering(calls[s]) /\ ~Redoes(calls[s]) /\ calls[s].kind = "none"
    BY DEF Entering, Redoes, Idle
  <1>2. /\ UNCHANGED <<sidecar, current, cache, screen, menu, list, page>> /\ page = "open"
        /\ loading' \in BOOLEAN
    BY DEF Opened, window, IInv, Typed, WindowTypes
  <1>3. odder \in SUBSET (Oddities \ {"crossed"}) /\ odd' = odd \cup odder
    BY DEF Oddities, IsOdd
  <1>4. Calm' => screen # l
    BY <1>3 DEF Calm
  <1>5. <<l, what>> \in Args /\ <<l, what>> \in Logins \X Whats /\ <<l, what>>[1] = l
    BY DEF Args
  <1>6. Becomes(s, Gated("act", <<l, what>>))
    OBVIOUS
  <1> HIDE DEF Chooses
  <1> QED
    BY <1>1, <1>2, <1>3, <1>4, <1>5, <1>6, Beginning

LEMMA TellsActKeeps == ASSUME IInv, NEW s \in Slots, TellsAct(s) PROVE IInv'
  <1> DEFINE c == calls[s]
  <1> USE DEF TellsAct
  <1>1. c.kind = "act" /\ c.pc = "tell" /\ ~Entering(c) /\ ~Awaited(c)
    BY DEF Entering, Awaited, At
  <1>2. UNCHANGED <<sidecar, current, cache, screen, menu, list, page>> /\ menu \in BOOLEAN
    BY DEF IInv, Typed, WindowTypes
  <1>3. CASE c.ui /\ c.ok
    <2>1. Becomes(s, Gated("list", None)) /\ loading' = TRUE
      BY <1>3
    <2>2. Relisted \in SUBSET (Oddities \ {"crossed"}) /\ odd' = odd \cup Relisted
      BY <1>3 DEF Relisted, Oddities, IsOdd
    <2>3. Calm' => \A x \in Slots : ~Awaited(calls[x])
      BY <2>2 DEF Calm, Relisted, Heard, Under, Awaited
    <2>4. Listed => page = "open"
      BY <1>1 DEF Listed, AsksGood, ActGood
    <2> QED
      BY <1>1, <1>2, <2>1, <2>2, <2>3, <2>4, NoneArg, PageOpened, Beginning
  <1>4. CASE ~(c.ui /\ c.ok)
    <2>1. Ends(s) /\ UNCHANGED <<loading, odd>> /\ loading \in BOOLEAN
      BY <1>4 DEF IInv, Typed, WindowTypes
    <2>2. Listed => ~Redoes(c)
      BY <1>1, <1>4 DEF Listed, AsksGood, ActGood, Redoes
    <2> QED
      BY <1>1, <1>2, <2>1, <2>2, Ending
  <1> QED
    BY <1>3, <1>4

-----------------------------------------------------------------------------
(* Signing in.                                                              *)

\* Nobody is signed in: the page is closed, and it awaits nothing.
LEMMA NothingAwaited ==
    ASSUME Listed, ~SignedIn
    PROVE  /\ page # "open"
           /\ \A x \in Slots : ~Asked(calls[x]) /\ ~Awaited(calls[x]) /\ calls[x].kind # "act"
           /\ list = None \/ list = acct
  <1>1. page # "open"
    BY DEF Listed, PageHeld
  <1>2. \A x \in Slots : ~Asked(calls[x]) /\ ~Awaited(calls[x]) /\ calls[x].kind # "act"
    BY <1>1 DEF Listed, AsksGood, PageGood, ActGood, ListGood
  <1> QED
    BY <1>1, <1>2 DEF Listed, Shown, Redoes

\* A closed page that awaits nothing says nothing of who is signed in.
LEMMA QuietPage ==
    ASSUME page' # "open",
           \A x \in Slots : ~Asked(calls'[x]) /\ ~Awaited(calls'[x]) /\ calls'[x].kind # "act",
           list' = None \/ list' = acct'
    PROVE  PageHeld' /\ AsksGood' /\ OneAwaited' /\ Shown'
  <1>1. PageHeld'
    BY DEF PageHeld
  <1>2. AsksGood'
    BY DEF AsksGood, PageGood, ActGood, ListGood
  <1>3. OneAwaited'
    BY DEF OneAwaited
  <1>4. Shown'
    BY DEF Shown
  <1> QED
    BY <1>1, <1>2, <1>3, <1>4

LEMMA SignsInKeeps == ASSUME IInv, NEW s \in Slots, NEW l \in Logins, SignsIn(s, l) PROVE IInv'
  <1> DEFINE d == [kind |-> "in", pc |-> "auth", arg |-> l, t |-> NoToken, ui |-> TRUE,
                   dead |-> FALSE, ok |-> FALSE]
  <1> USE DEF sidecar, window, accounts
  <1>1. Typed /\ issued \in Nat /\ DeadStay
    BY DEF IInv, Typed, SidecarTypes
  <1>2. /\ Becomes(s, d) /\ UNCHANGED <<sidecar, current, cache, window>> /\ ~SignedIn
        /\ odd' = odd \cup Crossed /\ calls[s].kind = "none"
    BY DEF SignsIn, IsOdd, Idle
  <1>3. d \in Call
    BY SessionAssumption DEF Call, Args, Kinds, Pcs, NoToken
  <1>4. d.kind = "in" /\ d.pc = "auth" /\ d.arg = l /\ d.t = NoToken /\ d.ui /\ ~d.dead /\ ~d.ok
    OBVIOUS
  <1> HIDE DEF d
  <1>5. CallGood(d, issued) /\ DeadGood(d, live)
    BY <1>1, <1>3, <1>4 DEF CallGood, DeadGood, NoToken
  <1>6. /\ CallTypes'
        /\ calls'[s] = d /\ \A x \in Slots \ {s} : calls'[x] = calls[x]
    BY <1>1, <1>2, <1>5, Becoming
  <1>7. Typed'
    BY <1>1, <1>2, <1>6 DEF Typed, SidecarTypes, ProgramTypes, WindowTypes, Crossed, Oddities
  <1>8. DeadStay'
    BY <1>1, <1>2, <1>5, <1>6, DeadOne
  <1>9. "crossed" \notin odd' => OneEnters'
    <2> SUFFICES ASSUME "crossed" \notin odd' PROVE OneEnters'
      OBVIOUS
    <2>1. OneEnters /\ Crossed = {}
      BY <1>2 DEF IInv, Entered, Crossed
    <2>2. \A x \in Slots : ~Entering(calls[x])
      BY <2>1 DEF Crossed, Under, Entering
    <2>3. screen = "guest" /\ current = NoToken
      BY <2>1, <2>2, <1>2 DEF OneEnters, Agree
    <2>4. \A x \in Slots : Entering(calls'[x]) <=> x = s
      BY <2>2, <1>4, <1>6 DEF Entering
    <2>5. EntersGood(d, screen', current', holder')
      BY <2>3, <1>2, <1>4 DEF EntersGood
    <2> QED
      BY <2>4, <2>5, <1>6 DEF OneEnters
  <1>10. Calm' => Listed'
    <2> SUFFICES ASSUME Calm' PROVE Listed'
      OBVIOUS
    <2>1. Listed
      BY <1>2 DEF IInv, Calm
    <2>2. UnlinkedGone'
      BY <2>1, <1>2 DEF Listed, UnlinkedGone
    <2>3. OutsAway'
      BY <2>1, <1>2, <1>4, <1>6 DEF Listed, OutsAway
    <2>4. /\ page' # "open" /\ (list' = None \/ list' = acct')
          /\ \A x \in Slots : ~Asked(calls'[x]) /\ ~Awaited(calls'[x]) /\ calls'[x].kind # "act"
      BY <2>1, <1>2, <1>4, <1>6, NothingAwaited DEF Asked, Awaited
    <2> QED
      BY <2>2, <2>3, <2>4, QuietPage DEF Listed
  <1> QED
    BY <1>7, <1>8, <1>9, <1>10 DEF IInv, Entered

\* Who the sign-in or the restore was for is shown.
LEMMA ShowsKeeps ==
    ASSUME IInv, NEW s \in Slots, NEW l, Shows(s, l), calls[s].kind \in {"in", "restore"},
           calls[s].pc = "tell", calls[s].ok,
           l = IF calls[s].kind = "in" THEN calls[s].arg ELSE holder[calls[s].t],
           UNCHANGED <<sidecar, current, cache, odd>>
    PROVE  IInv'
  <1> DEFINE c == calls[s]
  <1> USE DEF sidecar, accounts
  <1>1. Typed /\ issued \in Nat /\ DeadStay
    BY DEF IInv, Typed, SidecarTypes
  <1>2. c \in Call /\ CallGood(c, issued) /\ c # Idle /\ c.t \in 0..issued /\ c.t # NoToken
    BY <1>1, CallParts DEF Typed, CallGood
  <1>3. l \in Logins
    BY <1>1, <1>2 DEF CallGood, Typed, SidecarTypes, NoToken
  <1>4. PICK d : /\ Becomes(s, d) /\ CallGood(d, issued) /\ DeadGood(d, live)
                 /\ d.kind \in {"none", "caps"}
    <2>1. CASE SignedIn
      BY <2>1 DEF Shows, Ends, CallGood, DeadGood, Idle
    <2>2. CASE ~SignedIn
      <3> DEFINE d == Gated("caps", None)
      <3>1. Becomes(s, d)
        BY <2>2 DEF Shows
      <3>2. d = Gated("caps", None)
        OBVIOUS
      <3> HIDE DEF d
      <3>3. CallGood(d, issued) /\ DeadGood(d, live) /\ d.kind = "caps"
        BY <1>1, <3>2, NoneArg, GatedCall
      <3> QED
        BY <3>1, <3>3
    <2> QED
      BY <2>1, <2>2
  <1>5. /\ CallTypes'
        /\ calls'[s] = d /\ \A x \in Slots \ {s} : calls'[x] = calls[x]
    BY <1>1, <1>4, Becoming
  <1>6. screen' = l /\ UNCHANGED <<menu, page, list, loading>>
    BY DEF Shows
  <1>7. Typed'
    BY <1>1, <1>3, <1>5, <1>6 DEF Typed, SidecarTypes, ProgramTypes, WindowTypes
  <1>8. DeadStay'
    BY <1>1, <1>4, <1>5, DeadOne
  <1>9. "crossed" \notin odd' => OneEnters' /\ ~SignedIn
    <2> SUFFICES ASSUME "crossed" \notin odd' PROVE OneEnters' /\ ~SignedIn
      OBVIOUS
    <2>1. OneEnters /\ Entering(c)
      BY DEF IInv, Entered, Entering
    <2>2. ~SignedIn /\ \A x \in Slots \ {s} : ~Entering(calls[x])
      BY <2>1, <1>1, NobodyShown
    <2>3. \A x \in Slots : ~Entering(calls'[x])
      BY <2>2, <1>4, <1>5 DEF Entering
    <2>4. EntersGood(c, screen, current, holder)
      BY <2>1 DEF OneEnters
    <2>5. current = c.t /\ holder[c.t] = l
      BY <2>4 DEF EntersGood
    <2>6. Agree'
      BY <2>5, <1>2, <1>3, <1>6 DEF Agree, SignedIn
    <2> QED
      BY <2>2, <2>3, <2>6 DEF OneEnters
  <1>10. Calm' => Listed'
    <2> SUFFICES ASSUME Calm' PROVE Listed'
      OBVIOUS
    <2>1. Listed /\ ~SignedIn
      BY <1>9 DEF IInv, Calm
    <2>2. UnlinkedGone'
      BY <2>1 DEF Listed, UnlinkedGone
    <2>3. OutsAway'
      BY <2>1, <1>4, <1>5 DEF Listed, OutsAway
    <2>4. /\ page' # "open" /\ (list' = None \/ list' = acct')
          /\ \A x \in Slots : ~Asked(calls'[x]) /\ ~Awaited(calls'[x]) /\ calls'[x].kind # "act"
      BY <2>1, <1>4, <1>5, <1>6, NothingAwaited DEF Asked, Awaited
    <2> QED
      BY <2>2, <2>3, <2>4, QuietPage DEF Listed
  <1> QED
    BY <1>7, <1>8, <1>9, <1>10 DEF IInv, Entered

LEMMA TellsSignInKeeps == ASSUME IInv, NEW s \in Slots, TellsSignIn(s) PROVE IInv'
  <1> DEFINE c == calls[s]
  <1> USE DEF TellsSignIn
  <1>1. c.kind = "in" /\ c.pc = "tell" /\ UNCHANGED <<sidecar, current, cache, odd>>
    BY DEF At
  <1>2. CASE c.ui /\ c.ok
    <2>1. Shows(s, c.arg)
      BY <1>2
    <2> QED
      BY <1>1, <1>2, <2>1, ShowsKeeps
  <1>3. CASE ~(c.ui /\ c.ok)
    <2>1. Ends(s) /\ UNCHANGED window
      BY <1>3
    <2>2. OneEnters /\ Entering(c) => Agree
      <3> SUFFICES ASSUME OneEnters, Entering(c) PROVE Agree
        OBVIOUS
      <3>1. EntersGood(c, screen, current, holder) /\ ~SignedIn
        BY NobodyShown DEF OneEnters, IInv
      <3> QED
        BY <3>1, <1>1, <1>3 DEF EntersGood, Agree
    <2>3. ~Redoes(c) /\ ~Awaited(c) /\ menu' \in BOOLEAN /\ loading' \in BOOLEAN
      BY <1>1, <2>1 DEF Redoes, Awaited, window, IInv, Typed, WindowTypes
    <2> QED
      BY <1>1, <2>1, <2>2, <2>3, Ending DEF window
  <1> QED
    BY <1>2, <1>3

-----------------------------------------------------------------------------
(* The window shows another page, or nobody, or is loaded again.            *)

\* A command goes on while what invoked it may be gone.
Hushed(c, d) ==
    \/ d = Idle
    \/ /\ c \in Call /\ d \in Call
       /\ d.kind = c.kind /\ d.pc = c.pc /\ d.arg = c.arg /\ d.t = c.t
       /\ d.dead <=> c.dead
       /\ d.ok <=> c.ok
       /\ d.ui => c.ui
       /\ d.kind \in {"page", "act", "list"} => ~d.ui

LEMMA DeafHushed == ASSUME NEW c \in Call \cup {Idle} PROVE Hushed(c, Deaf(c))
  <1>1. CASE c = Idle
    BY <1>1 DEF Hushed, Deaf, Idle
  <1>2. CASE c \in Call
    BY <1>2, Deafened DEF Hushed, Deaf
  <1> QED
    BY <1>1, <1>2

LEMMA Sweeps ==
    ASSUME IInv, NEW S \in SUBSET Slots, calls' \in [Slots -> Call \cup {Idle}],
           \A x \in Slots \ S : Hushed(calls[x], calls'[x]),
           \A x \in S : /\ CallGood(calls'[x], issued) /\ DeadGood(calls'[x], live)
                       /\ calls'[x].kind \in {"none", "out", "restore"},
           UNCHANGED sidecar, current' \in {current, NoToken}, cache' \in {cache, {}},
           screen' \in {screen, "guest", "loading"}, menu' \in BOOLEAN, loading' \in BOOLEAN,
           page' \in {"home", "wait"}, list' = None,
           NEW odder \in SUBSET Oddities, odd' = odd \cup odder,
           "crossed" \notin odd' => OneEnters',
           Calm' /\ Listed /\ OneEnters =>
              /\ \A x \in Slots : calls'[x].kind # "act"
              /\ \A x \in S : calls'[x].kind = "out" =>
                    /\ calls'[x].t # current'
                    /\ \A y \in Slots : calls'[y].kind # "in"
    PROVE  IInv'
  <1> USE DEF sidecar
  <1>1. Typed /\ DeadStay /\ UNCHANGED <<issued, live, acct, holder, linked>>
    BY DEF IInv
  <1>2. \A x \in Slots : CallGood(calls[x], issued) /\ DeadGood(calls[x], live)
    BY <1>1 DEF Typed, CallTypes, DeadStay
  <1>3. \A x \in Slots \ S : CallGood(calls'[x], issued) /\ DeadGood(calls'[x], live)
    <2> SUFFICES ASSUME NEW x \in Slots \ S
                 PROVE  CallGood(calls'[x], issued) /\ DeadGood(calls'[x], live)
      OBVIOUS
    <2> DEFINE c == calls[x]
               d == calls'[x]
    <2>1. CallGood(c, issued) /\ DeadGood(c, live) /\ Hushed(c, d)
      BY <1>2
    <2> HIDE DEF c, d
    <2>2. CallGood(d, issued)
      BY <2>1, IdleStays DEF CallGood, Hushed
    <2>3. DeadGood(d, live)
      BY <2>1, IdleStays DEF DeadGood, Hushed
    <2> QED
      BY <2>2, <2>3 DEF d
  <1>4. CallTypes' /\ DeadStay'
    BY <1>1, <1>3 DEF CallTypes, DeadStay
  <1>5. Typed'
    BY <1>1, <1>4 DEF Typed, SidecarTypes, ProgramTypes, WindowTypes, NoToken
  <1>6. Calm' => Listed'
    <2> SUFFICES ASSUME Calm' PROVE Listed'
      OBVIOUS
    <2>1. Listed /\ OneEnters
      BY DEF IInv, Calm, Entered
    <2>2. UnlinkedGone'
      BY <2>1, <1>1 DEF Listed, UnlinkedGone
    <2>3. OutsAway'
      <3> SUFFICES ASSUME NEW x \in Slots, calls'[x].kind = "out"
                   PROVE  /\ calls'[x].t # current'
                          /\ \A y \in Slots : calls'[y].kind = "in" /\ calls'[y].pc \notin {"auth", "tell"} =>
                                calls'[x].t # calls'[y].t
        BY DEF OutsAway
      <3>1. CASE x \in S
        BY <2>1, <3>1
      <3>2. CASE x \notin S
        <4>1. calls[x].kind = "out" /\ calls'[x].t = calls[x].t
          BY <3>2 DEF Hushed, Idle
        <4>2. calls[x].t # current /\ calls[x].t # NoToken
          BY <4>1, <2>1, <1>1, NotOut
        <4>3. \A y \in Slots : calls'[y].kind = "in" =>
                 calls[y].kind = "in" /\ calls'[y].pc = calls[y].pc /\ calls'[y].t = calls[y].t
          BY DEF Hushed, Idle
        <4> QED
          BY <2>1, <4>1, <4>2, <4>3 DEF Listed, OutsAway
      <3> QED
        BY <3>1, <3>2
    <2>4. \A x \in Slots : ~Asked(calls'[x]) /\ ~Awaited(calls'[x]) /\ calls'[x].kind # "act"
      BY <2>1 DEF Asked, Awaited, Hushed, Idle
    <2> QED
      BY <2>2, <2>3, <2>4, QuietPage DEF Listed
  <1> QED
    BY <1>4, <1>5, <1>6 DEF IInv, Entered

\* Nobody listens to an action any more, unless something odd happened.
LEMMA LeftActs ==
    ASSUME Listed, "left" \notin Left
    PROVE  \A x \in Slots : calls[x].kind # "act"
  BY DEF Left, Heard, Under, Listed, AsksGood, ActGood

LEMMA SignsOutKeeps == ASSUME IInv, NEW s \in Slots, SignsOut(s) PROVE IInv'
  <1> DEFINE out == [kind |-> "out", pc |-> "end", arg |-> None, t |-> current,
                     ui |-> FALSE, dead |-> FALSE, ok |-> FALSE]
  <1> USE DEF SignsOut
  <1>1. /\ Typed /\ CallTypes /\ current \in 0..issued /\ issued \in 0..MaxSessions
        /\ calls \in [Slots -> Call \cup {Idle}]
    BY DEF IInv, Typed, ProgramTypes, SidecarTypes, CallTypes
  <1>2. out \in Call
    BY <1>1, SessionAssumption DEF Call, Args, Kinds, Pcs
  <1>3. out.kind = "out" /\ out.pc = "end" /\ out.t = current /\ ~out.dead
    OBVIOUS
  <1>4. /\ calls'[s] = IF current = NoToken THEN Idle ELSE out
        /\ \A x \in Slots \ {s} : calls'[x] = Deaf(calls[x])
        /\ DOMAIN calls' = Slots
        /\ calls' = [x \in Slots |-> calls'[x]]
    OBVIOUS
  <1> HIDE DEF out
  <1>5. \A x \in Slots \ {s} : Hushed(calls[x], calls'[x])
    BY <1>1, <1>4, DeafHushed
  <1>6. calls' \in [Slots -> Call \cup {Idle}]
    BY <1>2, <1>4, <1>5 DEF Hushed
  <1>7. /\ CallGood(calls'[s], issued) /\ DeadGood(calls'[s], live)
        /\ calls'[s].kind \in {"none", "out"}
    <2>1. CASE current = NoToken
      BY <1>4, <2>1 DEF CallGood, DeadGood, Idle
    <2>2. CASE current # NoToken
      <3>1. calls'[s] = out
        BY <1>4, <2>2
      <3>2. CallGood(out, issued)
        BY <1>1, <1>2, <1>3, <2>2 DEF CallGood
      <3>3. DeadGood(out, live)
        BY <1>3 DEF DeadGood
      <3> QED
        BY <1>3, <3>1, <3>2, <3>3
    <2> QED
      BY <2>1, <2>2
  <1>8. /\ UNCHANGED sidecar /\ current' = NoToken /\ cache' = cache /\ screen' = "guest"
        /\ menu' = FALSE /\ loading' = TRUE /\ page' = "home" /\ list' = None
        /\ odd' = odd \cup Left /\ Left \in SUBSET Oddities
    BY DEF ShowsGuest, Unlists, IsOdd, Left, Oddities
  <1>9. OneEnters => \A x \in Slots : ~Entering(calls[x]) /\ ~Entering(calls'[x])
    <2> SUFFICES ASSUME OneEnters, NEW x \in Slots PROVE ~Entering(calls[x]) /\ ~Entering(calls'[x])
      OBVIOUS
    <2>1. ~Entering(calls[x])
      BY <1>1, NobodyShown
    <2>2. calls'[x].kind \in {calls[x].kind, "none", "out"}
      BY <1>5, <1>7 DEF Hushed, Idle
    <2> QED
      BY <2>1, <2>2 DEF Entering
  <1>10. "crossed" \notin odd' => OneEnters'
    <2> SUFFICES ASSUME "crossed" \notin odd' PROVE OneEnters'
      OBVIOUS
    <2>1. \A x \in Slots : ~Entering(calls'[x])
      BY <1>8, <1>9 DEF IInv, Entered
    <2>2. Agree'
      BY <1>8, SessionAssumption DEF Agree, SignedIn
    <2> QED
      BY <2>1, <2>2 DEF OneEnters
  <1>11. Calm' /\ Listed => \A x \in Slots : calls'[x].kind # "act"
    <2> SUFFICES ASSUME Calm', Listed PROVE \A x \in Slots : calls'[x].kind # "act"
      OBVIOUS
    <2>1. "left" \notin Left
      BY <1>8 DEF Calm
    <2>2. \A x \in Slots : calls[x].kind # "act"
      BY <2>1, LeftActs
    <2> QED
      BY <2>2, <1>5, <1>7 DEF Hushed, Idle
  <1>12. OneEnters /\ calls'[s].kind = "out" =>
           calls'[s].t # current' /\ \A y \in Slots : calls'[y].kind # "in"
    BY <1>3, <1>4, <1>8, <1>9 DEF Entering, Idle
  <1>13. /\ {s} \in SUBSET Slots
         /\ \A x \in Slots \ {s} : Hushed(calls[x], calls'[x])
         /\ \A x \in {s} : /\ CallGood(calls'[x], issued) /\ DeadGood(calls'[x], live)
                           /\ calls'[x].kind \in {"none", "out", "restore"}
    BY <1>5, <1>7
  <1>14. /\ current' \in {current, NoToken} /\ cache' \in {cache, {}}
         /\ screen' \in {screen, "guest", "loading"} /\ menu' \in BOOLEAN /\ loading' \in BOOLEAN
         /\ page' \in {"home", "wait"}
    BY <1>8
  <1> HIDE DEF SignsOut
  <1> QED
    BY <1>6, <1>8, <1>10, <1>11, <1>12, <1>13, <1>14, Sweeps

LEMMA ReloadsKeeps == ASSUME IInv, NEW s \in Slots, Reloads(s) PROVE IInv'
  <1> DEFINE d == Gated("restore", None)
             odder == Crossed \cup Left
  <1> USE DEF Reloads
  <1>1. /\ Typed /\ DeadStay /\ CallTypes /\ calls[s].kind = "none"
        /\ calls \in [Slots -> Call \cup {Idle}]
    BY DEF IInv, Typed, CallTypes, Idle
  <1>2. d = Gated("restore", None)
    OBVIOUS
  <1>3. /\ calls'[s] = d /\ DOMAIN calls' = Slots /\ calls' = [x \in Slots |-> calls'[x]]
        /\ \A x \in Slots \ {s} : calls'[x] = IF calls[x] = Idle THEN Idle
                                             ELSE [calls[x] EXCEPT !.ui = FALSE]
    OBVIOUS
  <1> HIDE DEF d
  <1>4. /\ d \in Call /\ d.kind = "restore" /\ d.t = current /\ d.ui /\ ~d.ok
        /\ d.pc = IF current = NoToken THEN "tell" ELSE "resolve"
        /\ DeadGood(d, live) /\ CallGood(d, issued)
    BY <1>1, <1>2, NoneArg, GatedCall
  <1>5. \A x \in Slots \ {s} : Hushed(calls[x], calls'[x])
    <2> SUFFICES ASSUME NEW x \in Slots \ {s} PROVE Hushed(calls[x], calls'[x])
      OBVIOUS
    <2>1. CASE calls[x] = Idle
      BY <1>3, <2>1 DEF Hushed
    <2>2. CASE calls[x] # Idle
      <3>1. calls[x] \in Call /\ calls'[x] = [calls[x] EXCEPT !.ui = FALSE]
        BY <1>1, <1>3, <2>2
      <3> QED
        BY <3>1, Deafened DEF Hushed
    <2> QED
      BY <2>1, <2>2
  <1>6. calls' \in [Slots -> Call \cup {Idle}]
    BY <1>3, <1>4, <1>5 DEF Hushed
  <1>7. /\ {s} \in SUBSET Slots
        /\ \A x \in Slots \ {s} : Hushed(calls[x], calls'[x])
        /\ \A x \in {s} : /\ CallGood(calls'[x], issued) /\ DeadGood(calls'[x], live)
                          /\ calls'[x].kind \in {"none", "out", "restore"}
        /\ calls'[s].kind = "restore"
    BY <1>3, <1>4, <1>5
  <1>8. /\ UNCHANGED sidecar /\ current' = current /\ current' \in {current, NoToken}
        /\ cache' \in {cache, {}} /\ screen' = "loading" /\ screen' \in {screen, "guest", "loading"}
        /\ menu' \in BOOLEAN /\ loading' \in BOOLEAN /\ page' \in {"home", "wait"} /\ list' = None
        /\ odd' = odd \cup odder /\ odder \in SUBSET Oddities
    BY DEF Unlists, IsOdd, Left, Crossed, Oddities
  <1>9. "crossed" \notin odd' => OneEnters'
    <2> SUFFICES ASSUME "crossed" \notin odd' PROVE OneEnters'
      OBVIOUS
    <2>1. \A x \in Slots : ~Entering(calls[x])
      BY <1>8 DEF Crossed, Under, Entering
    <2>2. \A x \in Slots : Entering(calls'[x]) <=> x = s
      BY <2>1, <1>5, <1>7 DEF Entering, Hushed, Idle
    <2>3. EntersGood(calls'[s], screen', current', holder')
      BY <1>3, <1>4, <1>8 DEF EntersGood
    <2> QED
      BY <2>2, <2>3 DEF OneEnters
  <1>10. Calm' /\ Listed => \A x \in Slots : calls'[x].kind # "act"
    <2> SUFFICES ASSUME Calm', Listed PROVE \A x \in Slots : calls'[x].kind # "act"
      OBVIOUS
    <2>1. "left" \notin Left
      BY <1>8 DEF Calm
    <2>2. \A x \in Slots : calls[x].kind # "act"
      BY <2>1, LeftActs
    <2> QED
      BY <2>2, <1>5, <1>7 DEF Hushed, Idle
  <1> HIDE DEF Reloads, odder
  <1> QED
    BY <1>6, <1>7, <1>8, <1>9, <1>10, Sweeps

LEMMA RestartsKeeps == ASSUME IInv, NEW s \in Slots, Restarts(s) PROVE IInv'
  <1> DEFINE d == [kind |-> "restore", pc |-> "tell", arg |-> None, t |-> NoToken,
                   ui |-> TRUE, dead |-> FALSE, ok |-> FALSE]
  <1> USE DEF Restarts
  <1>1. /\ calls'[s] = d /\ DOMAIN calls' = Slots /\ calls' = [x \in Slots |-> calls'[x]]
        /\ \A x \in Slots \ {s} : calls'[x] = Idle
    OBVIOUS
  <1>2. d \in Call
    BY SessionAssumption DEF Call, Args, Kinds, Pcs, NoToken
  <1>3. d.kind = "restore" /\ d.pc = "tell" /\ d.t = NoToken /\ d.ui /\ ~d.dead /\ ~d.ok
    OBVIOUS
  <1> HIDE DEF d
  <1>4. CallGood(d, issued) /\ DeadGood(d, live)
    <2>1. issued \in Nat
      BY DEF IInv, Typed, SidecarTypes
    <2> QED
      BY <2>1, <1>2, <1>3 DEF CallGood, DeadGood, NoToken
  <1>5. \A x \in Slots \ {s} : Hushed(calls[x], calls'[x])
    BY <1>1 DEF Hushed
  <1>6. calls' \in [Slots -> Call \cup {Idle}]
    BY <1>1, <1>2
  <1>7. /\ {s} \in SUBSET Slots
        /\ \A x \in {s} : /\ CallGood(calls'[x], issued) /\ DeadGood(calls'[x], live)
                          /\ calls'[x].kind \in {"none", "out", "restore"}
        /\ calls'[s].kind = "restore"
    BY <1>1, <1>3, <1>4
  <1>8. /\ UNCHANGED sidecar /\ current' = NoToken /\ current' \in {current, NoToken}
        /\ cache' \in {cache, {}} /\ screen' = "loading" /\ screen' \in {screen, "guest", "loading"}
        /\ menu' \in BOOLEAN /\ loading' \in BOOLEAN /\ page' \in {"home", "wait"} /\ list' = None
        /\ odd' = odd \cup {} /\ {} \in SUBSET Oddities
    BY DEF Unlists
  <1>9. OneEnters'
    <2>1. \A x \in Slots : Entering(calls'[x]) <=> x = s
      BY <1>1, <1>3 DEF Entering, Idle
    <2>2. EntersGood(calls'[s], screen', current', holder')
      BY <1>1, <1>3, <1>8 DEF EntersGood
    <2> QED
      BY <2>1, <2>2 DEF OneEnters
  <1>10. \A x \in Slots : calls'[x].kind \in {"none", "restore"}
    BY <1>1, <1>3 DEF Idle
  <1> HIDE DEF Restarts
  <1> QED
    BY <1>5, <1>6, <1>7, <1>8, <1>9, <1>10, Sweeps

LEMMA GoesHomeKeeps == ASSUME IInv, GoesHome PROVE IInv'
  <1> USE DEF GoesHome
  <1>1. calls \in [Slots -> Call \cup {Idle}] /\ menu \in BOOLEAN
    BY DEF IInv, Typed, CallTypes, WindowTypes
  <1>2. \A x \in Slots : calls'[x] = Deaf(calls[x])
    OBVIOUS
  <1>3. \A x \in Slots : Hushed(calls[x], calls'[x])
    BY <1>1, <1>2, DeafHushed
  <1>4. calls' \in [Slots -> Call \cup {Idle}]
    BY <1>3 DEF Hushed
  <1>5. /\ UNCHANGED <<sidecar, current, screen>> /\ current' \in {current, NoToken}
        /\ cache' \in {cache, {}} /\ screen' \in {screen, "guest", "loading"}
        /\ menu' \in BOOLEAN /\ loading' \in BOOLEAN /\ page' \in {"home", "wait"} /\ list' = None
        /\ odd' = odd \cup Left /\ Left \in SUBSET Oddities
    BY <1>1 DEF Unlists, IsOdd, Left, Oddities
  <1>6. "crossed" \notin odd' => OneEnters'
    <2> SUFFICES ASSUME "crossed" \notin odd' PROVE OneEnters'
      OBVIOUS
    <2>1. OneEnters
      BY <1>5 DEF IInv, Entered
    <2>2. \A x \in Slots : Entering(calls[x]) \/ Entering(calls'[x]) => calls'[x] = calls[x]
      BY <1>1, <1>2 DEF Entering, Deaf, Idle, Call
    <2>3. UNCHANGED <<screen, current, holder>>
      BY <1>5 DEF sidecar
    <2> HIDE DEF GoesHome
    <2> QED
      BY <2>1, <2>2, <2>3, EntersStays
  <1>7. Calm' /\ Listed => \A x \in Slots : calls'[x].kind # "act"
    <2> SUFFICES ASSUME Calm', Listed PROVE \A x \in Slots : calls'[x].kind # "act"
      OBVIOUS
    <2>1. "left" \notin Left
      BY <1>5 DEF Calm
    <2>2. \A x \in Slots : calls[x].kind # "act"
      BY <2>1, LeftActs
    <2> QED
      BY <2>2, <1>3 DEF Hushed, Idle
  <1>8. /\ {} \in SUBSET Slots /\ \A x \in Slots \ {} : Hushed(calls[x], calls'[x])
        /\ \A x \in {} : /\ CallGood(calls'[x], issued) /\ DeadGood(calls'[x], live)
                         /\ calls'[x].kind \in {"none", "out", "restore"}
    BY <1>3
  <1> HIDE DEF GoesHome
  <1> QED
    BY <1>4, <1>5, <1>6, <1>7, <1>8, Sweeps

LEMMA TellsRestoreKeeps == ASSUME IInv, NEW s \in Slots, TellsRestore(s) PROVE IInv'
  <1> DEFINE c == calls[s]
  <1> USE DEF TellsRestore
  <1>1. c.kind = "restore" /\ c.pc = "tell" /\ UNCHANGED <<sidecar, current, cache, odd>>
    BY DEF At
  <1>2. CASE ~c.ui
    <2>1. Ends(s) /\ UNCHANGED window
      BY <1>2
    <2>2. OneEnters /\ Entering(c) => Agree
      BY <1>2 DEF OneEnters, EntersGood
    <2>3. ~Redoes(c) /\ ~Awaited(c) /\ menu' \in BOOLEAN /\ loading' \in BOOLEAN
      BY <1>1, <2>1 DEF Redoes, Awaited, window, IInv, Typed, WindowTypes
    <2> QED
      BY <1>1, <2>1, <2>2, <2>3, Ending DEF window
  <1>3. CASE c.ui /\ c.ok
    <2>1. Shows(s, holder[c.t])
      BY <1>3
    <2> QED
      BY <1>1, <1>3, <2>1, ShowsKeeps
  <1>4. CASE c.ui /\ ~c.ok
    <2>1. calls \in [Slots -> Call \cup {Idle}]
      BY DEF IInv, Typed, CallTypes
    <2>2. /\ calls'[s] = Idle /\ \A x \in Slots \ {s} : calls'[x] = Deaf(calls[x])
          /\ DOMAIN calls' = Slots /\ calls' = [x \in Slots |-> calls'[x]]
      BY <1>4
    <2>3. \A x \in Slots \ {s} : Hushed(calls[x], calls'[x])
      BY <2>1, <2>2, DeafHushed
    <2>4. calls' \in [Slots -> Call \cup {Idle}]
      BY <2>2, <2>3 DEF Hushed
    <2>5. /\ {s} \in SUBSET Slots
          /\ \A x \in {s} : /\ CallGood(calls'[x], issued) /\ DeadGood(calls'[x], live)
                            /\ calls'[x].kind \in {"none", "out", "restore"}
          /\ calls'[s].kind = "none"
      BY <2>2 DEF CallGood, DeadGood, Idle
    <2>6. /\ UNCHANGED sidecar /\ current' \in {current, NoToken}
          /\ cache' \in {cache, {}} /\ screen' = "guest" /\ screen' \in {screen, "guest", "loading"}
          /\ menu' \in BOOLEAN /\ loading' \in BOOLEAN /\ page' \in {"home", "wait"} /\ list' = None
          /\ odd' = odd \cup {} /\ {} \in SUBSET Oddities
      BY <1>4 DEF ShowsGuest, Unlists
    <2>7. OneEnters => ~SignedIn /\ OneEnters'
      <3> SUFFICES ASSUME OneEnters PROVE ~SignedIn /\ OneEnters'
        OBVIOUS
      <3>1. /\ ~SignedIn /\ EntersGood(c, screen, current, holder)
            /\ \A x \in Slots \ {s} : ~Entering(calls[x])
        BY <1>1, NobodyShown DEF IInv, OneEnters, Entering
      <3>2. \A x \in Slots : ~Entering(calls'[x])
        BY <2>2, <2>3, <3>1 DEF Entering, Hushed, Idle
      <3>3. current' = NoToken
        BY <1>1, <1>4, <3>1 DEF EntersGood
      <3>4. Agree'
        BY <2>6, <3>3, SessionAssumption DEF Agree, SignedIn
      <3> QED
        BY <3>1, <3>2, <3>4 DEF OneEnters
    <2>8. "crossed" \notin odd' => OneEnters'
      BY <1>1, <2>7 DEF IInv, Entered
    <2>9. Listed /\ OneEnters => \A x \in Slots : calls'[x].kind # "act"
      BY <2>2, <2>3, <2>7, NothingAwaited DEF Hushed, Idle
    <2> HIDE DEF TellsRestore
    <2> QED
      BY <2>3, <2>4, <2>5, <2>6, <2>8, <2>9, Sweeps
  <1> QED
    BY <1>2, <1>3, <1>4

-----------------------------------------------------------------------------
(* The sidecar's sessions and accounts.                                     *)

LEMMA OpensSessionKeeps ==
    ASSUME IInv, NEW s \in Slots, NEW lost \in BOOLEAN, OpensSession(s, lost) PROVE IInv'
  <1> DEFINE c == calls[s]
             l == c.arg
             d == [c EXCEPT !.pc = "resolve", !.t = issued']
  <1> USE DEF OpensSession
  <1>1. Typed /\ CallTypes /\ DeadStay /\ DeadGood(c, live) /\ c.kind # "none" /\ c.pc = "auth"
    BY DEF IInv, Typed, DeadStay, At
  <1>2. c \in Call /\ CallGood(c, issued) /\ c # Idle /\ c.kind = "in" /\ l \in Logins
    BY <1>1, CallParts DEF CallGood
  <1>3. ~Redoes(c) /\ ~Awaited(c) /\ ~Asked(c)
    BY <1>2 DEF Redoes, Awaited, Asked
  <1>4. CASE acct[l].state # "ok"
    <2>1. Answers(s, FALSE) /\ UNCHANGED <<sidecar, current, cache, window, odd>>
      BY <1>4 DEF sidecar
    <2> QED
      BY <1>1, <1>2, <1>3, <2>1, RefusedKeeps
  <1>5. CASE acct[l].state = "ok"
    <2>1. /\ issued < MaxSessions /\ issued' = issued + 1 /\ live' = live \cup {issued'}
          /\ holder' = [holder EXCEPT ![issued'] = l]
          /\ UNCHANGED <<acct, linked, current, cache, window>>
          /\ IF lost THEN Answers(s, FALSE) ELSE Becomes(s, d)
          /\ odd' = odd \cup Lost(lost)
      BY <1>5 DEF IsOdd
    <2>2. issued \in Nat /\ MaxSessions \in Nat /\ issued \in 0..MaxSessions
      BY <1>1, SessionAssumption DEF Typed, SidecarTypes
    <2>3. issued' \in 1..MaxSessions /\ issued' \in Tokens
      BY <2>1, <2>2 DEF Tokens
    <2>4. /\ holder' \in [Tokens -> Logins \cup {None}] /\ holder'[issued'] = l
          /\ \A t \in 1..issued : holder'[t] = holder[t]
      BY <1>1, <1>2, <2>1, <2>2, <2>3 DEF Typed, SidecarTypes, Tokens
    <2>5. SidecarTypes'
      BY <1>1, <1>2, <1>5, <2>1, <2>2, <2>3, <2>4 DEF Typed, SidecarTypes
    <2>6. PICK e \in Call :
            /\ Becomes(s, e) /\ e.kind = c.kind /\ e.arg = c.arg /\ e.ui = c.ui /\ e.dead = c.dead
            /\ IF lost THEN e.pc = "tell" /\ ~e.ok /\ e.t = c.t
                       ELSE e.pc = "resolve" /\ e.t = issued'
      <3>1. CASE lost
        <4>1. Answers(s, FALSE)
          BY <3>1, <2>1
        <4>2. PICK e \in Call : Becomes(s, e) /\ Same(c, e) /\ e.pc = "tell" /\ ~e.ok
          BY <1>2, <4>1, Answered DEF Answers
        <4> QED
          BY <1>2, <3>1, <4>2 DEF Same
      <3>2. CASE ~lost
        <4>1. Becomes(s, d)
          BY <3>2, <2>1
        <4>2. issued' \in 0..MaxSessions
          BY <2>3
        <4>3. /\ d \in Call /\ d.kind = c.kind /\ d.arg = c.arg /\ d.ui = c.ui /\ d.dead = c.dead
              /\ d.pc = "resolve" /\ d.t = issued'
          <5>1. c \in Call
            BY <1>2
          <5> QED
            BY <4>2, <5>1, Opened1
        <4> HIDE DEF d
        <4> QED
          BY <3>2, <4>1, <4>3
      <3> QED
        BY <3>1, <3>2
    <2> HIDE DEF OpensSession
    <2>7. CallGood(e, issued') /\ DeadGood(e, live') /\ e # Idle /\ ~c.dead
      <3>1. ~c.dead /\ c.t \in Nat /\ c.t <= issued
        BY <1>2 DEF CallGood, Call
      <3>2. e.t <= issued' /\ (e.pc = "resolve" => e.t # NoToken)
        BY <2>1, <2>2, <2>6, <3>1 DEF NoToken
      <3>3. DeadGood(e, live')
        BY <2>6, <3>1 DEF DeadGood
      <3>4. e.pc \in {"tell", "resolve"} /\ (e.pc = "tell" => ~e.ok)
        BY <2>6
      <3>5. CallGood(e, issued')
        BY <1>2, <2>6, <3>1, <3>2, <3>4 DEF CallGood
      <3> QED
        BY <3>1, <3>3, <3>5, IdleStays
    <2>8. /\ CallTypes'
          /\ calls'[s] = e /\ \A x \in Slots \ {s} : calls'[x] = calls[x]
      BY <1>1, <2>1, <2>2, <2>6, <2>7, Becoming
    <2>9. Typed'
      <3>1. ProgramTypes'
        BY <1>1, <2>1, <2>2 DEF Typed, ProgramTypes
      <3>2. WindowTypes'
        BY <1>1, <2>1 DEF Typed, WindowTypes, window, accounts, Lost, Oddities
      <3> QED
        BY <2>5, <2>8, <3>1, <3>2 DEF Typed
    <2>10. DeadStay'
      BY <1>1, <2>1, <2>7, <2>8, DeadOne
    <2>11. "crossed" \notin odd' => OneEnters' /\ ~SignedIn
      <3> SUFFICES ASSUME "crossed" \notin odd' PROVE OneEnters' /\ ~SignedIn
        OBVIOUS
      <3>1. OneEnters /\ Entering(c)
        BY <1>2, <2>1 DEF IInv, Entered, Entering
      <3>2. ~SignedIn /\ \A x \in Slots \ {s} : ~Entering(calls[x])
        BY <1>1, <3>1, NobodyShown
      <3>3. EntersGood(c, screen, current, holder)
        BY <3>1 DEF OneEnters
      <3>4. EntersGood(e, screen', current', holder')
        BY <1>1, <1>2, <2>1, <2>4, <2>6, <3>3 DEF EntersGood, window
      <3>5. \A x \in Slots : Entering(calls'[x]) <=> x = s
        BY <1>2, <2>6, <2>8, <3>2 DEF Entering
      <3> QED
        BY <2>8, <3>2, <3>4, <3>5 DEF OneEnters
    <2>12. Calm' => Listed'
      <3> SUFFICES ASSUME Calm' PROVE Listed'
        OBVIOUS
      <3>1. Listed /\ ~SignedIn
        BY <2>1, <2>11 DEF IInv, Calm
      <3>2. UnlinkedGone'
        BY <2>1, <3>1 DEF Listed, UnlinkedGone
      <3>3. ~lost
        BY <2>1 DEF Calm, Lost
      <3>4. OutsAway'
        <4> SUFFICES ASSUME NEW x \in Slots, calls'[x].kind = "out"
                     PROVE  /\ calls'[x].t # current'
                            /\ \A y \in Slots :
                                 calls'[y].kind = "in" /\ calls'[y].pc \notin {"auth", "tell"} =>
                                     calls'[x].t # calls'[y].t
          BY DEF OutsAway
        <4>1. calls'[x] = calls[x] /\ calls[x].kind = "out"
          BY <1>2, <2>6, <2>8
        <4>2. calls[x].t \in 0..issued
          BY <1>1, <4>1, CallParts
        <4>3. calls[x].t # issued'
          BY <2>1, <2>2, <4>2
        <4> QED
          BY <2>1, <2>6, <2>8, <3>1, <3>3, <4>1, <4>3 DEF Listed, OutsAway
      <3>5. /\ page' # "open" /\ (list' = None \/ list' = acct')
            /\ \A x \in Slots : ~Asked(calls'[x]) /\ ~Awaited(calls'[x]) /\ calls'[x].kind # "act"
        BY <2>1, <2>6, <2>8, <3>1, NothingAwaited DEF Asked, Awaited, window, accounts
      <3> QED
        BY <3>2, <3>4, <3>5, QuietPage DEF Listed
    <2> QED
      BY <2>9, <2>10, <2>11, <2>12 DEF IInv, Entered
  <1> QED
    BY <1>4, <1>5

\* A session that ends is not the one that is held.
LEMMA EndsSessionKeeps ==
    ASSUME IInv, NEW s \in Slots, NEW lost \in BOOLEAN, EndsSession(s, lost) PROVE IInv'
  <1> DEFINE c == calls[s]
  <1> USE DEF EndsSession
  <1>1. /\ Typed /\ CallTypes /\ DeadStay /\ DeadGood(c, live) /\ c.kind # "none" /\ c.pc = "end"
        /\ issued \in Nat
    BY DEF IInv, Typed, DeadStay, At, SidecarTypes
  <1>2. c \in Call /\ CallGood(c, issued) /\ c # Idle /\ c.kind = "out"
    BY <1>1, CallParts DEF CallGood
  <1>3. /\ UNCHANGED <<acct, holder, linked, issued, current, cache, window>>
        /\ live' \subseteq live /\ live \ {c.t} \subseteq live' /\ odd' = odd \cup Lost(lost)
    BY DEF IsOdd
  <1>4. PICK d : /\ Becomes(s, d) /\ CallGood(d, issued) /\ DeadGood(d, live)
                 /\ d.kind \in {"none", "out"} /\ (d.kind = "out" => d.t = c.t)
    <2>1. CASE lost
      BY <2>1 DEF CallGood, DeadGood, Idle
    <2>2. CASE ~lost
      <3>1. To(s, "forget") /\ "forget" \in Pcs
        BY <2>2 DEF Pcs
      <3>2. PICK d \in Call : Becomes(s, d) /\ Same(c, d) /\ d.pc = "forget"
        BY <1>2, <3>1, Stepped DEF To
      <3>3. CallGood(d, issued) /\ DeadGood(d, live)
        BY <1>1, <1>2, <3>2 DEF CallGood, DeadGood, Same
      <3> QED
        BY <1>2, <3>2, <3>3 DEF Same
    <2> QED
      BY <2>1, <2>2
  <1> HIDE DEF EndsSession
  <1>5. /\ CallTypes'
        /\ calls'[s] = d /\ \A x \in Slots \ {s} : calls'[x] = calls[x]
    BY <1>1, <1>3, <1>4, Becoming
  <1>6. Typed'
    <2>1. SidecarTypes' /\ ProgramTypes'
      BY <1>1, <1>3 DEF Typed, SidecarTypes, ProgramTypes
    <2>2. WindowTypes'
      BY <1>1, <1>3 DEF Typed, WindowTypes, window, accounts, Lost, Oddities
    <2> QED
      BY <1>5, <2>1, <2>2 DEF Typed
  <1>7. DeadStay'
    <2>1. DeadGood(d, live')
      BY <1>3, <1>4 DEF DeadGood
    <2> QED
      BY <1>1, <1>3, <1>5, <2>1, DeadOne
  <1>8. "crossed" \notin odd' => OneEnters'
    <2> SUFFICES ASSUME "crossed" \notin odd' PROVE OneEnters'
      OBVIOUS
    <2>1. OneEnters
      BY <1>3 DEF IInv, Entered
    <2>2. \A x \in Slots : Entering(calls[x]) \/ Entering(calls'[x]) => calls'[x] = calls[x]
      BY <1>2, <1>4, <1>5 DEF Entering
    <2>3. UNCHANGED <<screen, current, holder>>
      BY <1>3 DEF window
    <2> QED
      BY <2>1, <2>2, <2>3, EntersStays
  <1>9. Calm' => Listed'
    <2> SUFFICES ASSUME Calm' PROVE Listed'
      OBVIOUS
    <2>1. Listed
      BY <1>3 DEF IInv, Calm
    <2>2. Administers(current) => Administers(current)'
      BY <2>1, <1>2, <1>3 DEF Administers, Listed, OutsAway
    <2>3. UNCHANGED <<page, screen, list, acct, linked, current>>
      BY <1>3 DEF window, accounts
    <2>4. UnlinkedGone'
      BY <2>1, <2>3 DEF Listed, UnlinkedGone
    <2>5. OutsAway'
      BY <2>1, <2>3, <1>2, <1>4, <1>5 DEF Listed, OutsAway
    <2>6. PageHeld'
      BY <2>1, <2>2, <2>3 DEF Listed, PageHeld, SignedIn
    <2>7. AsksGood'
      <3> SUFFICES ASSUME NEW x \in Slots
                   PROVE  /\ PageGood(calls[x], page, current)'
                          /\ ActGood(calls[x], page, screen)'
                          /\ ListGood(calls[x], page, current)'
        BY DEF AsksGood
      <3>1. /\ PageGood(calls[x], page, current) /\ ActGood(calls[x], page, screen)
            /\ ListGood(calls[x], page, current)
        BY <2>1 DEF Listed, AsksGood
      <3>2. calls'[x] = calls[x] \/ calls'[x].kind \in {"none", "out"}
        BY <1>4, <1>5
      <3> QED
        BY <2>2, <2>3, <3>1, <3>2 DEF PageGood, ActGood, ListGood, Asked, Awaited, SignedIn
    <2>8. \A x \in Slots :
             /\ Asked(calls'[x]) <=> Asked(calls[x])
             /\ Awaited(calls'[x]) <=> Awaited(calls[x])
             /\ Redoes(calls'[x]) <=> Redoes(calls[x])
             /\ Awaited(calls'[x]) => calls'[x] = calls[x]
      BY <1>2, <1>4, <1>5 DEF Asked, Awaited, Redoes
    <2>9. OneAwaited' /\ Shown'
      BY <2>1, <2>3, <2>8 DEF Listed, OneAwaited, Shown
    <2> QED
      BY <2>4, <2>5, <2>6, <2>7, <2>9 DEF Listed
  <1> QED
    BY <1>6, <1>7, <1>8, <1>9 DEF IInv, Entered

\* What an action makes of a row.
LEMMA ChangedRow ==
    ASSUME NEW row \in Account, NEW what \in Whats, NEW new, new = Changed(row, what)
    PROVE  /\ new \in Account
           /\ new.state = CASE what = "ban" -> "banned" [] what = "unban" -> "ok"
                            [] what = "remove" -> "gone" [] OTHER -> row.state
  <1>1. CASE what \in Roles
    <2>1. new = [row EXCEPT !.role = what]
      BY <1>1 DEF Changed, Roles
    <2> QED
      BY <1>1, <2>1 DEF Account, Roles
  <1>2. CASE what \in {"ban", "unban", "remove"}
    BY <1>2 DEF Changed, Account, Roles
  <1> QED
    BY <1>1, <1>2 DEF Whats

\* Somebody who changes his own account is not shown its page: the session that is held
\* outlives the action.
LEMMA DoesKeeps ==
    ASSUME IInv, NEW s \in Slots, NEW lost \in BOOLEAN, Does(s, lost) PROVE IInv'
  <1> DEFINE c == calls[s]
             l == c.arg[1]
             what == c.arg[2]
             Permitted == /\ Administers(current) /\ acct[l].state # "gone"
                          /\ what \in {"ban", "remove"} => holder[current] # l
  <1>1. /\ Typed /\ CallTypes /\ DeadStay /\ DeadGood(c, live) /\ c.kind = "act" /\ c.pc = "do"
        /\ issued \in Nat
    <2>1. c.kind = "act" /\ c.pc = "do"
      BY DEF Does, At
    <2>2. Typed /\ CallTypes /\ DeadStay /\ DeadGood(c, live)
      BY DEF IInv, Typed, DeadStay
    <2> QED
      BY <2>1, <2>2 DEF Typed, SidecarTypes
  <1>2. c \in Call /\ CallGood(c, issued) /\ c # Idle /\ ~c.dead
    BY <1>1, CallParts DEF DeadGood
  <1>3. l \in Logins /\ what \in Whats
    BY <1>1, <1>2 DEF CallGood
  <1>4. /\ UNCHANGED <<holder, issued, current, cache, window>>
        /\ linked' = IF what = "remove" THEN linked \ {l} ELSE linked
    BY DEF Does
  <1>5. CASE Permitted
    <2>1. /\ acct' = [acct EXCEPT ![l] = Changed(acct[l], what)]
          /\ live' = IF what \in {"ban", "remove"} THEN {t \in live : holder[t] # l} ELSE live
          /\ IF lost THEN Answers(s, FALSE) ELSE To(s, "clear")
          /\ odd' = odd \cup Lost(lost)
      BY <1>5 DEF Does, Revokes, IsOdd
    <2>2. PICK d \in Call :
            /\ Becomes(s, d) /\ Same(c, d)
            /\ IF lost THEN d.pc = "tell" /\ ~d.ok ELSE d.pc = "clear"
      <3>1. CASE lost
        <4>1. Answers(s, FALSE)
          BY <3>1, <2>1
        <4> QED
          BY <1>2, <3>1, <4>1, Answered DEF Answers
      <3>2. CASE ~lost
        <4>1. To(s, "clear") /\ "clear" \in Pcs
          BY <3>2, <2>1 DEF Pcs
        <4> QED
          BY <1>2, <3>2, <4>1, Stepped DEF To
      <3> QED
        BY <3>1, <3>2
    <2>3. CallGood(d, issued) /\ DeadGood(d, live') /\ d # Idle
      BY <1>1, <1>2, <2>2, IdleStays DEF CallGood, DeadGood, Same
    <2>4. /\ CallTypes'
          /\ calls'[s] = d /\ \A x \in Slots \ {s} : calls'[x] = calls[x]
      BY <1>1, <1>4, <2>2, <2>3, Becoming
    <2>5. /\ acct \in [Logins -> Account] /\ acct[l] \in Account
          /\ \A x \in Logins \ {l} : acct'[x] = acct[x]
          /\ acct'[l] = Changed(acct[l], what)
      BY <1>1, <1>3, <2>1 DEF Typed, SidecarTypes
    <2>6. /\ acct'[l] \in Account
          /\ acct'[l].state = CASE what = "ban" -> "banned" [] what = "unban" -> "ok"
                                [] what = "remove" -> "gone" [] OTHER -> acct[l].state
      BY <1>3, <2>5, ChangedRow
    <2>7. acct' \in [Logins -> Account]
      BY <2>1, <2>5, <2>6
    <2>8. \A t \in live' : acct'[holder[t]].state = "ok"
      <3> SUFFICES ASSUME NEW t \in live' PROVE acct'[holder[t]].state = "ok"
        OBVIOUS
      <3>1. t \in live /\ holder[t] \in Logins /\ acct[holder[t]].state = "ok"
        BY <1>1, <2>1 DEF Typed, SidecarTypes
      <3>2. CASE holder[t] # l
        BY <2>5, <3>1, <3>2
      <3>3. CASE holder[t] = l
        BY <2>1, <2>6, <3>1, <3>3
      <3> QED
        BY <3>2, <3>3
    <2>9. Typed'
      <3>1. SidecarTypes'
        <4>1. holder' \in [Tokens -> Logins \cup {None}] /\ issued' \in 0..MaxSessions
              /\ \A t \in 1..issued' : holder'[t] \in Logins
          BY <1>1, <1>4 DEF Typed, SidecarTypes
        <4>2. linked' \subseteq Logins /\ live' \subseteq 1..issued'
          BY <1>1, <1>4, <2>1 DEF Typed, SidecarTypes
        <4> QED
          BY <4>1, <4>2, <1>4, <2>7, <2>8 DEF SidecarTypes
      <3>2. ProgramTypes'
        BY <1>1, <1>4 DEF Typed, ProgramTypes
      <3>3. WindowTypes'
        BY <1>1, <1>4, <2>1 DEF Typed, WindowTypes, window, accounts, Lost, Oddities
      <3> QED
        BY <2>4, <3>1, <3>2, <3>3 DEF Typed
    <2>10. DeadStay'
      BY <1>1, <1>4, <2>1, <2>3, <2>4, DeadOne
    <2>11. "crossed" \notin odd' => OneEnters'
      BY <1>1, <1>4, <2>1, <2>2, <2>4, EntersStays DEF IInv, Entered, Entering, Same, window
    <2>12. Calm' => Listed'
      <3> SUFFICES ASSUME Calm' PROVE Listed'
        OBVIOUS
      <3>1. Listed /\ OneEnters /\ Calm
        BY <2>1 DEF IInv, Calm, Entered
      <3>2. ~lost
        BY <2>1 DEF Calm, Lost
      <3>3. page = "open" /\ SignedIn /\ l # screen
        BY <1>1, <3>1 DEF Listed, AsksGood, ActGood, PageHeld
      <3>4. holder[current] = screen
        BY <1>1, <3>1, <3>3, NobodyShown DEF OneEnters, Agree
      <3>5. Administers(current)'
        <4>1. current \in live /\ holder[current] \in Logins \ {l}
          BY <1>1, <1>5, <3>3, <3>4 DEF Administers, Typed, SidecarTypes
        <4> QED
          BY <1>4, <1>5, <2>1, <2>5, <4>1 DEF Administers
      <3>6. UnlinkedGone'
        <4> SUFFICES ASSUME NEW x \in Logins \ linked' PROVE acct'[x].state = "gone"
          BY DEF UnlinkedGone
        <4>1. CASE x = l
          BY <1>4, <1>5, <2>6, <3>1, <4>1 DEF Listed, UnlinkedGone
        <4>2. CASE x # l
          BY <1>4, <2>5, <3>1, <4>2 DEF Listed, UnlinkedGone
        <4> QED
          BY <4>1, <4>2
      <3>7. OutsAway'
        BY <1>1, <1>4, <2>2, <2>4, <3>1 DEF Listed, OutsAway, Same
      <3>8. PageHeld'
        BY <1>4, <3>3, <3>5 DEF PageHeld, SignedIn, window
      <3>9. AsksGood'
        <4> SUFFICES ASSUME NEW x \in Slots
                     PROVE  /\ PageGood(calls[x], page, current)'
                            /\ ActGood(calls[x], page, screen)'
                            /\ ListGood(calls[x], page, current)'
          BY DEF AsksGood
        <4>1. /\ PageGood(calls[x], page, current) /\ ActGood(calls[x], page, screen)
              /\ ListGood(calls[x], page, current)
          BY <3>1 DEF Listed, AsksGood
        <4>2. UNCHANGED <<page, screen, current>>
          BY <1>4 DEF window
        <4>3. CASE x = s
          BY <1>1, <2>2, <2>4, <4>1, <4>2, <4>3
          DEF PageGood, ActGood, ListGood, Asked, Awaited, Same
        <4>4. CASE x # s
          BY <2>4, <3>3, <4>1, <4>2, <4>4 DEF PageGood, ActGood, ListGood
        <4> QED
          BY <4>3, <4>4
      <3>10. OneAwaited'
        BY <1>1, <2>2, <2>4, <3>1 DEF Listed, OneAwaited, Asked, Awaited, Same
      <3>11. Shown'
        BY <1>1, <2>2, <2>4, <3>2 DEF Shown, Redoes, Same
      <3> QED
        BY <3>6, <3>7, <3>8, <3>9, <3>10, <3>11 DEF Listed
    <2> QED
      BY <2>9, <2>10, <2>11, <2>12 DEF IInv, Entered
  <1>6. CASE ~Permitted
    <2>1. Answers(s, FALSE) /\ UNCHANGED <<acct, live, odd>>
      BY <1>6 DEF Does
    <2>2. PICK d \in Call : Becomes(s, d) /\ Same(c, d) /\ d.pc = "tell" /\ ~d.ok
      BY <1>2, <2>1, Answered DEF Answers
    <2>3. CallGood(d, issued) /\ DeadGood(d, live') /\ d # Idle
      BY <1>1, <1>2, <2>2, IdleStays DEF CallGood, DeadGood, Same
    <2>4. /\ CallTypes'
          /\ calls'[s] = d /\ \A x \in Slots \ {s} : calls'[x] = calls[x]
      BY <1>1, <1>4, <2>2, <2>3, Becoming
    <2>5. Typed'
      <3>1. SidecarTypes' /\ ProgramTypes'
        BY <1>1, <1>4, <2>1 DEF Typed, SidecarTypes, ProgramTypes
      <3>2. WindowTypes'
        BY <1>1, <1>4, <2>1 DEF Typed, WindowTypes, window, accounts
      <3> QED
        BY <2>4, <3>1, <3>2 DEF Typed
    <2>6. DeadStay'
      BY <1>1, <1>4, <2>1, <2>3, <2>4, DeadOne
    <2>7. "crossed" \notin odd' => OneEnters'
      BY <1>1, <1>4, <2>1, <2>2, <2>4, EntersStays DEF IInv, Entered, Entering, Same, window
    <2>8. Calm' => Listed'
      <3> SUFFICES ASSUME Calm' PROVE Listed'
        OBVIOUS
      <3>1. Listed /\ OneEnters /\ Calm
        BY <2>1 DEF IInv, Calm, Entered
      <3>2. page = "open" /\ SignedIn /\ l # screen /\ Administers(current)
        BY <1>1, <3>1 DEF Listed, AsksGood, ActGood, PageHeld
      <3>3. holder[current] = screen
        BY <1>1, <3>1, <3>2, NobodyShown DEF OneEnters, Agree
      <3>4. acct[l].state = "gone"
        BY <1>6, <3>2, <3>3
      <3>5. UNCHANGED <<page, screen, list, acct, live, holder, current>>
        BY <1>4, <2>1 DEF window, accounts
      <3>6. UnlinkedGone'
        BY <1>4, <3>1, <3>4, <3>5 DEF Listed, UnlinkedGone
      <3>7. OutsAway'
        BY <1>1, <3>5, <2>2, <2>4, <3>1 DEF Listed, OutsAway, Same
      <3>8. PageHeld'
        BY <3>1, <3>5 DEF Listed, PageHeld, SignedIn, Administers
      <3>9. AsksGood'
        <4> SUFFICES ASSUME NEW x \in Slots
                     PROVE  /\ PageGood(calls[x], page, current)'
                            /\ ActGood(calls[x], page, screen)'
                            /\ ListGood(calls[x], page, current)'
          BY DEF AsksGood
        <4>1. /\ PageGood(calls[x], page, current) /\ ActGood(calls[x], page, screen)
              /\ ListGood(calls[x], page, current)
          BY <3>1 DEF Listed, AsksGood
        <4>3. CASE x = s
          BY <1>1, <2>2, <2>4, <4>1, <3>5, <4>3
          DEF PageGood, ActGood, ListGood, Asked, Awaited, Same
        <4>4. CASE x # s
          BY <2>4, <3>5, <4>1, <4>4 DEF PageGood, ActGood, ListGood, SignedIn, Administers
        <4> QED
          BY <4>3, <4>4
      <3>10. \A x \in Slots :
                /\ Asked(calls'[x]) <=> Asked(calls[x])
                /\ Awaited(calls'[x]) <=> Awaited(calls[x])
                /\ Redoes(calls'[x]) <=> Redoes(calls[x])
                /\ Awaited(calls'[x]) => calls'[x] = calls[x]
        BY <1>1, <2>2, <2>4 DEF Asked, Awaited, Redoes, Same
      <3>11. OneAwaited'
        BY <3>1, <3>10 DEF Listed, OneAwaited
      <3>12. Shown'
        BY <3>1, <3>5, <3>10 DEF Listed, Shown
      <3> QED
        BY <3>6, <3>7, <3>8, <3>9, <3>11, <3>12 DEF Listed
    <2> QED
      BY <2>5, <2>6, <2>7, <2>8 DEF IInv, Entered
  <1> QED
    BY <1>5, <1>6

\* Somebody changes an account elsewhere.
LEMMA ChangedElsewhere ==
    ASSUME IInv, UNCHANGED <<holder, linked, issued, current, cache, calls, window>>,
           IsOdd({"changed"}), acct' \in [Logins -> Account], live' \subseteq live,
           \A t \in live' : acct'[holder[t]].state = "ok"
    PROVE  IInv'
  <1>1. Typed'
    <2>1. SidecarTypes' /\ ProgramTypes' /\ CallTypes'
      BY DEF IInv, Typed, SidecarTypes, ProgramTypes, CallTypes
    <2>2. WindowTypes'
      BY DEF IInv, Typed, WindowTypes, window, accounts, IsOdd, Oddities
    <2> QED
      BY <2>1, <2>2 DEF Typed
  <1>2. DeadStay'
    BY DEF IInv, DeadStay, DeadGood
  <1>3. "crossed" \notin odd' => OneEnters'
    BY EntersStays DEF IInv, Entered, IsOdd, window
  <1>4. ~Calm'
    BY DEF Calm, IsOdd
  <1> QED
    BY <1>1, <1>2, <1>3, <1>4 DEF IInv, Entered

LEMMA ElsewhereKeeps == ASSUME IInv, NEW l \in Logins, Elsewhere(l) PROVE IInv'
  <1>1. /\ acct \in [Logins -> Account] /\ acct[l] \in Account /\ acct[l].state = "ok"
        /\ \A t \in live : acct[holder[t]].state = "ok" /\ holder[t] \in Logins
    BY DEF Elsewhere, IInv, Typed, SidecarTypes
  <1>2. CASE \E r \in Roles \ {acct[l].role} : acct' = [acct EXCEPT ![l].role = r] /\ UNCHANGED live
    <2>1. PICK r \in Roles : acct' = [acct EXCEPT ![l].role = r] /\ UNCHANGED live
      BY <1>2
    <2>2. [acct[l] EXCEPT !.role = r] \in Account /\ [acct[l] EXCEPT !.role = r].state = "ok"
      BY <1>1 DEF Account
    <2>3. acct' = [acct EXCEPT ![l] = [acct[l] EXCEPT !.role = r]]
      BY <2>1
    <2>4. acct' \in [Logins -> Account] /\ \A t \in live' : acct'[holder[t]].state = "ok"
      BY <1>1, <2>1, <2>2, <2>3
    <2> QED
      BY <2>1, <2>4, ChangedElsewhere DEF Elsewhere
  <1>3. CASE acct' = [acct EXCEPT ![l].state = "banned"] /\ Revokes(l, "ban")
    <2>1. [acct[l] EXCEPT !.state = "banned"] \in Account
      BY <1>1 DEF Account
    <2>2. acct' = [acct EXCEPT ![l] = [acct[l] EXCEPT !.state = "banned"]]
      BY <1>3
    <2>3. live' = {t \in live : holder[t] # l}
      BY <1>3 DEF Revokes
    <2>4. acct' \in [Logins -> Account] /\ \A t \in live' : acct'[holder[t]].state = "ok"
      BY <1>1, <2>1, <2>2, <2>3
    <2> QED
      BY <2>3, <2>4, ChangedElsewhere DEF Elsewhere
  <1> QED
    BY <1>2, <1>3 DEF Elsewhere

LEMMA SetsPasswordKeeps == ASSUME IInv, NEW l \in Logins, SetsPassword(l) PROVE IInv'
  <1>1. live' \subseteq live
    BY DEF SetsPassword, Revokes
  <1> QED
    BY <1>1, ChangedElsewhere DEF SetsPassword, IInv, Typed, SidecarTypes

\* Nothing happens but that the page of the route is another one, or the cache smaller.
LEMMA Waits ==
    ASSUME IInv, UNCHANGED <<sidecar, current, calls, screen, menu, accounts, odd>>,
           cache' \subseteq cache, page' = page \/ (page = "home" /\ page' = "wait")
    PROVE  IInv'
  <1>1. Typed'
    BY DEF IInv, Typed, SidecarTypes, ProgramTypes, CallTypes, WindowTypes, sidecar, accounts
  <1>2. DeadStay'
    BY DEF IInv, DeadStay, DeadGood, sidecar
  <1>3. "crossed" \notin odd' => OneEnters'
    BY EntersStays DEF IInv, Entered, sidecar
  <1>4. Calm' => Listed'
    <2> SUFFICES ASSUME Calm' PROVE Listed'
      OBVIOUS
    <2>1. Listed
      BY DEF IInv, Calm
    <2>2. UnlinkedGone' /\ OutsAway' /\ OneAwaited'
      BY <2>1 DEF Listed, UnlinkedGone, OutsAway, OneAwaited, Asked, Awaited, sidecar
    <2>3. PageHeld'
      BY <2>1 DEF Listed, PageHeld, SignedIn, Administers, sidecar
    <2>4. AsksGood'
      <3> SUFFICES ASSUME NEW x \in Slots
                   PROVE  /\ PageGood(calls[x], page, current)'
                          /\ ActGood(calls[x], page, screen)'
                          /\ ListGood(calls[x], page, current)'
        BY DEF AsksGood
      <3>1. /\ PageGood(calls[x], page, current) /\ ActGood(calls[x], page, screen)
            /\ ListGood(calls[x], page, current)
        BY <2>1 DEF Listed, AsksGood
      <3> QED
        BY <3>1 DEF PageGood, ActGood, ListGood, SignedIn, Administers, Asked, Awaited, sidecar
    <2>5. Shown'
      BY <2>1 DEF Listed, Shown, Redoes, Awaited, sidecar, accounts
    <2> QED
      BY <2>2, <2>3, <2>4, <2>5 DEF Listed
  <1> QED
    BY <1>1, <1>2, <1>3, <1>4 DEF IInv, Entered

LEMMA GoesToAdminKeeps == ASSUME IInv, GoesToAdmin PROVE IInv'
  BY Waits DEF GoesToAdmin

LEMMA CacheExpiresKeeps == ASSUME IInv, NEW t \in Tokens, CacheExpires(t) PROVE IInv'
  <1>1. cache' \subseteq cache /\ UNCHANGED <<sidecar, current, calls, window, odd>>
    BY DEF CacheExpires
  <1> QED
    BY <1>1, Waits DEF window, accounts

LEMMA StuttersKeeps == ASSUME IInv, UNCHANGED vars PROVE IInv'
  <1>1. UNCHANGED <<sidecar, current, cache, calls, screen, menu, page, accounts, odd>>
    BY DEF vars, sidecar, accounts
  <1> QED
    BY <1>1, Waits

-----------------------------------------------------------------------------
(* The theorems.                                                            *)

LEMMA Initial == Init => IInv
  <1> SUFFICES ASSUME Init PROVE IInv
    OBVIOUS
  <1> USE DEF Init
  <1>1. calls \in [Slots -> {Idle}] /\ \A s \in Slots : calls[s].kind = "none" /\ calls[s] = Idle
    BY DEF Idle
  <1>2. acct \in [Logins -> Account] /\ \A l \in Logins : acct[l].state = "ok"
    BY DEF Account
  <1>3. SidecarTypes
    BY <1>2, SessionAssumption DEF SidecarTypes, Tokens
  <1>4. ProgramTypes /\ WindowTypes
    <2>1. current = 0 /\ issued = 0 /\ cache = {}
      BY DEF NoToken
    <2>2. ProgramTypes
      BY <2>1 DEF ProgramTypes
    <2> QED
      BY <2>2 DEF WindowTypes
  <1>5. CallTypes
    BY <1>1 DEF CallTypes, CallGood
  <1>6. DeadStay
    BY <1>1 DEF DeadStay, DeadGood
  <1>7. OneEnters
    BY <1>1, SessionAssumption DEF OneEnters, Entering, Agree, SignedIn
  <1>8. Listed
    <2>1. UnlinkedGone /\ OutsAway /\ PageHeld /\ OneAwaited
      BY <1>1 DEF UnlinkedGone, OutsAway, PageHeld, OneAwaited, Asked, Awaited
    <2>2. AsksGood
      BY <1>1 DEF AsksGood, PageGood, ActGood, ListGood, Asked, Awaited
    <2>3. Shown
      BY <1>1 DEF Shown, Awaited
    <2> QED
      BY <2>1, <2>2, <2>3 DEF Listed
  <1> QED
    BY <1>3, <1>4, <1>5, <1>6, <1>7, <1>8 DEF IInv, Typed, Entered

LEMMA Inductive == IInv /\ [Next]_vars => IInv'
  <1> SUFFICES ASSUME IInv, [Next]_vars PROVE IInv'
    OBVIOUS
  <1>1. CASE UNCHANGED vars
    BY <1>1, StuttersKeeps
  <1>2. CASE GoesToAdmin \/ GoesHome
    BY <1>2, GoesToAdminKeeps, GoesHomeKeeps
  <1>3. CASE \E t \in Tokens : CacheExpires(t)
    BY <1>3, CacheExpiresKeeps
  <1>4. CASE \E l \in Logins : Elsewhere(l) \/ SetsPassword(l)
    BY <1>4, ElsewhereKeeps, SetsPasswordKeeps
  <1>5. ASSUME NEW s \in Slots,
               \/ FindsCached(s) \/ AsksSession(s) \/ Stores(s) \/ AsksPermission(s) \/ Fails(s)
               \/ Holds(s) \/ SignsOut(s) \/ Forgets(s) \/ Reloads(s) \/ Restarts(s)
        PROVE  IInv'
    BY <1>5, FindsCachedKeeps, AsksSessionKeeps, StoresKeeps, AsksPermissionKeeps, FailsKeeps,
       HoldsKeeps, SignsOutKeeps, ForgetsKeeps, ReloadsKeeps, RestartsKeeps
  <1>6. ASSUME NEW s \in Slots,
               \/ TellsSignIn(s) \/ TellsRestore(s) \/ TellsHeader(s) \/ TellsPage(s) \/ TellsList(s)
               \/ PageAsks(s) \/ Refreshes(s) \/ Lists(s) \/ Clears(s) \/ TellsAct(s)
        PROVE  IInv'
    BY <1>6, TellsSignInKeeps, TellsRestoreKeeps, TellsHeaderKeeps, TellsPageKeeps, TellsListKeeps,
       PageAsksKeeps, RefreshesKeeps, ListsKeeps, ClearsKeeps, TellsActKeeps
  <1>7. ASSUME NEW s \in Slots, NEW l \in Logins, SignsIn(s, l) PROVE IInv'
    BY <1>7, SignsInKeeps
  <1>8. ASSUME NEW s \in Slots, NEW l \in Logins, NEW what \in Whats, Chooses(s, l, what) PROVE IInv'
    BY <1>8, ChoosesKeeps
  <1>9. ASSUME NEW s \in Slots, NEW lost \in Loses,
               OpensSession(s, lost) \/ EndsSession(s, lost) \/ Does(s, lost)
        PROVE  IInv'
    <2>1. lost \in BOOLEAN
      BY DEF Loses
    <2> QED
      BY <1>9, <2>1, OpensSessionKeeps, EndsSessionKeeps, DoesKeeps
  <1> QED
    BY <1>1, <1>2, <1>3, <1>4, <1>5, <1>6, <1>7, <1>8, <1>9 DEF Next, Whats

LEMMA Always == Spec => []IInv
  <1> QED
    BY Initial, Inductive, PTL DEF Spec

(* Tokens belong to accounts, and those the sidecar accepts to accounts that *)
(* may sign in, whatever the commands, the failures and the restarts.        *)
THEOREM TypeCorrect == Spec => []TypeOK
  <1>1. IInv => TypeOK
    BY DEF IInv, Typed, SidecarTypes, ProgramTypes, WindowTypes, TypeOK
  <1> QED
    BY <1>1, Always, PTL

(* The window and the program agree on who is signed in when no command is   *)
(* under way, for any number of commands, reloads, restarts, failures and    *)
(* revocations, unless sign-ins crossed (auth_sign_in, auth_current_user).   *)
THEOREM ScreenAgrees == Spec => []ScreenHeld
  <1>1. IInv => ScreenHeld
    <2> SUFFICES ASSUME IInv, Quiet, "crossed" \notin odd PROVE Agree
      BY DEF ScreenHeld, Agree
    <2>1. \A s \in Slots : ~Entering(calls[s])
      BY DEF Quiet, Idle, Entering
    <2> QED
      BY <2>1 DEF IInv, Entered, OneEnters
  <1> QED
    BY <1>1, Always, PTL

(* The page of the accounts shows them as they are once nothing is under     *)
(* way, however many actions, refreshes and visits there were (loadUsers     *)
(* after each action, AccessAccounts).                                       *)
THEOREM AccountsTrue == Spec => []AccountsShown
  <1>1. IInv => AccountsShown
    <2> SUFFICES ASSUME IInv, Quiet, list # None, Calm PROVE list = acct
      BY DEF AccountsShown, Calm
    <2>1. \A s \in Slots : ~Redoes(calls[s]) /\ ~Awaited(calls[s])
      BY DEF Quiet, Idle, Redoes, Awaited
    <2> QED
      BY <2>1 DEF IInv, Listed, Shown
  <1> QED
    BY <1>1, Always, PTL

\* Where the accounts change, the command is at its last call; no other command moves.
LEMMA OnlyDoes ==
    ASSUME IInv, [Next]_vars, NEW s \in Slots, calls[s].kind = "act", calls'[s] # calls[s],
           calls[s].dead
    PROVE  acct' = acct
  <1> USE DEF sidecar
  <1>1. CASE UNCHANGED vars
    BY <1>1 DEF vars
  <1>2. CASE GoesToAdmin \/ GoesHome
    BY <1>2 DEF GoesToAdmin, GoesHome
  <1>3. CASE \E t \in Tokens : CacheExpires(t)
    BY <1>3 DEF CacheExpires
  <1>4. CASE \E l \in Logins : Elsewhere(l) \/ SetsPassword(l)
    BY <1>4 DEF Elsewhere, SetsPassword
  <1>5. ASSUME NEW x \in Slots,
               \/ FindsCached(x) \/ AsksSession(x) \/ Stores(x) \/ AsksPermission(x) \/ Fails(x)
               \/ Holds(x) \/ SignsOut(x) \/ Forgets(x) \/ Reloads(x) \/ Restarts(x)
        PROVE  acct' = acct
    BY <1>5 DEF FindsCached, AsksSession, Stores, AsksPermission, Fails, Holds, SignsOut, Forgets,
       Reloads, Restarts
  <1>6. ASSUME NEW x \in Slots,
               \/ TellsSignIn(x) \/ TellsRestore(x) \/ TellsHeader(x) \/ TellsPage(x) \/ TellsList(x)
               \/ PageAsks(x) \/ Refreshes(x) \/ Lists(x) \/ Clears(x) \/ TellsAct(x)
        PROVE  acct' = acct
    BY <1>6 DEF TellsSignIn, TellsRestore, TellsHeader, TellsPage, TellsList, PageAsks, Refreshes,
       Lists, Clears, TellsAct
  <1>7. ASSUME NEW x \in Slots, NEW l \in Logins, SignsIn(x, l) PROVE acct' = acct
    BY <1>7 DEF SignsIn
  <1>8. ASSUME NEW x \in Slots, NEW l \in Logins, NEW what \in Whats, Chooses(x, l, what)
        PROVE  acct' = acct
    BY <1>8 DEF Chooses
  <1>9. ASSUME NEW x \in Slots, NEW lost \in Loses, OpensSession(x, lost) \/ EndsSession(x, lost)
        PROVE  acct' = acct
    BY <1>9 DEF OpensSession, EndsSession
  <1>10. ASSUME NEW x \in Slots, NEW lost \in Loses, Does(x, lost) PROVE acct' = acct
    <2>1. calls[x].pc = "do" /\ calls[x].kind = "act"
      BY <1>10 DEF Does, At
    <2>2. calls \in [Slots -> Call \cup {Idle}]
      BY DEF IInv, Typed, CallTypes
    <2>3. \A y \in Slots \ {x} : calls'[y] = calls[y]
      <3>1. \E d : Becomes(x, d)
        BY <1>10 DEF Does, Answers, To
      <3> QED
        BY <2>2, <3>1 DEF Becomes
    <2>4. calls[s].pc = "do"
      BY <2>1, <2>3
    <2>5. calls[s] # Idle
      BY DEF Idle
    <2> QED
      BY <2>4, <2>5 DEF IInv, DeadStay, DeadGood
  <1> QED
    BY <1>1, <1>2, <1>3, <1>4, <1>5, <1>6, <1>7, <1>8, <1>9, <1>10 DEF Next, Whats

(* A command whose session was revoked before it began changes no account,   *)
(* although the program may still find the session in its cache              *)
(* (require_permission asks the sidecar each time).                          *)
THEOREM RevokedActsNever == Spec => RevokedNeverActs
  <1> DEFINE Harmless == \A s \in Slots :
        calls[s].kind = "act" /\ calls'[s] # calls[s] /\ calls[s].dead => acct' = acct
  <1>1. IInv /\ [Next]_vars => [Harmless]_vars
    BY OnlyDoes
  <1> QED
    BY <1>1, Always, PTL DEF Spec, RevokedNeverActs

=============================================================================
