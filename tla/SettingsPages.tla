---------------------------- MODULE SettingsPages ----------------------------
(***************************************************************************)
(* The two pages of settings of a terminal: that of its user               *)
(* (Settings.tsx), with the card reader, and the tab "Seguranca" of the    *)
(* administration (Admin.tsx), with the mails and the addresses.           *)
(*                                                                         *)
(* The window shows one of them at a time, what either holds is forgotten  *)
(* when it is left, and the reader knows nothing of the mails.  A          *)
(* behaviour therefore has one of the two (bound), left and opened again.  *)
(***************************************************************************)
EXTENDS CardDesk, MailSettings

CONSTANT MaxActs     \* bound: what users ask for in one behaviour

ASSUME SettingsAssumption ==
    /\ MaxActs \in Nat
    /\ Blank \notin Servers \cup Passes
    /\ Origins \cap {Lan, None} = {} /\ None \notin Configs
    /\ IsFiniteSet(Diagnoses) /\ Diagnoses \cap {"poll", "test", Nothing} = {}

VARIABLES
    page,        \* the page of the behaviour
    acts         \* what users asked for

vars == <<deskVars, mailVars, page, acts>>

TypeOK ==
    /\ DeskTypeOK /\ MailTypeOK
    /\ page \in {"settings", "admin"} /\ acts \in 0..MaxActs

Init ==
    /\ DeskInit /\ MailInit /\ acts = 0
    /\ \/ page = "admin" /\ ~plugged
       \/ page = "settings" /\ smtp = None /\ address = NoAddress

\* What users ask for is counted; the rest goes on by itself.
Asked == acts < MaxActs /\ acts' = acts + 1
OnDesk == page = "settings" /\ UNCHANGED <<mailVars, page>>
OnTab == page = "admin" /\ UNCHANGED <<deskVars, page>>

UsesReader == Asked /\ OnDesk /\ DeskActs
LockGoesOn == OnDesk /\ LockRuns /\ UNCHANGED acts
GoesIn(d) == OnDesk /\ Admits(d) /\ UNCHANGED acts
DeskElseGoesOn == OnDesk /\ DeskElse /\ UNCHANGED acts
UsesTab == Asked /\ OnTab /\ TabActs
Elsewhere == Asked /\ OnTab /\ OtherActs
MailGoesOn == OnTab /\ MailRuns /\ UNCHANGED acts
Fails == OnTab /\ Asked /\ (Dies \/ Restarts)

Next ==
    \/ UsesReader \/ LockGoesOn \/ (\E d \in Diagnoses : GoesIn(d)) \/ DeskElseGoesOn
    \/ UsesTab \/ Elsewhere \/ MailGoesOn \/ Fails

Spec == Init /\ [][Next]_vars

(* Fairness: the reader serves its lock in order and every wait for a card  *)
(* has a deadline (LockGoesOn), and a command is let in or refused (GoesIn).*)
(* Nothing is assumed of users, of cards or of the sidecar.                 *)
FairSpec ==
    /\ Spec
    /\ WF_vars(LockGoesOn)
    /\ \A d \in Diagnoses : WF_vars(GoesIn(d))
=============================================================================
