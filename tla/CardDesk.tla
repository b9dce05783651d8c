------------------------------ MODULE CardDesk -------------------------------
(***************************************************************************)
(* The card reader of a terminal, as the page of settings uses it          *)
(* (card/service.rs, card/commands.rs, Settings.tsx, app-context.tsx).     *)
(*                                                                         *)
(* Every use of the reader runs under one lock, with_ctx, whose waiters    *)
(* are served in order, and is cancelled by one flag, which cancel sets at *)
(* any time and the next to take the lock clears.  The window asks for the *)
(* state of the reader at an interval and for a test of it, and diagnoses  *)
(* a card, which takes the lock twice: to wait for the card and to read    *)
(* it.  PunchScreen has the taps of the page of punches.                   *)
(*                                                                         *)
(* What ends an operation and what hears its answer are one step: the user *)
(* may as well have acted before it ended.                                 *)
(***************************************************************************)
EXTENDS Naturals, Sequences, FiniteSets

CONSTANTS
    Diagnoses,   \* bound: diagnoses of a card, none of which is a string
    Nothing

VARIABLES
    waiting,     \* CardService.op_lock: who waits for it
    holder,      \* who has it
    cancel,      \* CardService.cancel
    plugged,     \* a reader is plugged in
    stage,       \* card_diagnostic: how far each of them is
    diagOpen, cardDiag, cardDataError,   \* Settings: the dialog
    readerName,      \* Settings: the test found a reader
    readerConnected  \* AppProvider

deskVars == <<waiting, holder, cancel, plugged, stage, diagOpen, cardDiag, cardDataError,
              readerName, readerConnected>>
lock == <<waiting, holder, cancel>>
dialog == <<diagOpen, cardDiag, cardDataError>>
reader == <<readerName, readerConnected>>

\* Those who ask whether there is a reader: the interval and the test.
Asking == {"poll", "test"}
Users == Asking \cup Diagnoses
Found == {"ours", "foreign"}

DeskTypeOK ==
    /\ waiting \in Seq(Users) /\ Len(waiting) <= Cardinality(Users)
    /\ holder \in Users \cup {Nothing}
    /\ {cancel, plugged, diagOpen, cardDataError, readerName} \subseteq BOOLEAN
    /\ stage \in [Diagnoses -> {"new", "guard", "uid", "state", "told"}]
    /\ cardDiag \in Found \cup {Nothing}
    /\ readerConnected \in {"unknown", "yes", "no"}

DeskInit ==
    /\ waiting = <<>> /\ holder = Nothing /\ cancel = FALSE
    /\ plugged \in BOOLEAN
    /\ stage = [d \in Diagnoses |-> "new"]
    /\ diagOpen = FALSE /\ cardDiag = Nothing /\ cardDataError = FALSE
    /\ readerName = FALSE /\ readerConnected = "unknown"

-----------------------------------------------------------------------------
(* The lock.                                                                *)

Queues(u) == waiting' = Append(waiting, u)
Uses(u) == holder = u \/ \E i \in DOMAIN waiting : waiting[i] = u
Frees == holder' = Nothing /\ UNCHANGED cancel

Takes ==
    /\ holder = Nothing /\ waiting # <<>>
    /\ holder' = Head(waiting) /\ waiting' = Tail(waiting)
    /\ cancel' = FALSE
    /\ UNCHANGED <<plugged, stage, dialog, reader>>

\* cancel: whoever has the lock, if anybody does.
Cancels == cancel' = TRUE

-----------------------------------------------------------------------------
(* Is there a reader?                                                       *)

Polls ==
    /\ ~Uses("poll")                                    \* bound: one at a time
    /\ Queues("poll")
    /\ UNCHANGED <<holder, cancel, plugged, stage, dialog, reader>>

\* handleReaderTest; the dialog it opens shows the name there is.
Tests ==
    /\ ~Uses("test") /\ ~diagOpen                       \* bound: one at a time
    /\ Queues("test")
    /\ UNCHANGED <<holder, cancel, plugged, stage, dialog, reader>>

\* reader_status: it waits for no card and heeds no cancel.  The context may
\* fail, which the window takes for no reader.
TellsStatus ==
    /\ holder \in Asking
    /\ \E found \in IF plugged THEN BOOLEAN ELSE {FALSE} :
          IF holder = "poll"
          THEN readerConnected' = (IF found THEN "yes" ELSE "no") /\ UNCHANGED readerName
          ELSE readerName' = found /\ UNCHANGED readerConnected
    /\ Frees
    /\ UNCHANGED <<waiting, plugged, stage, dialog>>

-----------------------------------------------------------------------------
(* The diagnosis of a card.                                                 *)

\* handleDiagnostic, and the dialog opens.
OpensDiagnosis(d) ==
    /\ ~diagOpen /\ stage[d] = "new"
    /\ stage' = [stage EXCEPT ![d] = "guard"]
    /\ diagOpen' = TRUE /\ cardDiag' = Nothing /\ cardDataError' = FALSE
    /\ UNCHANGED <<lock, plugged, reader>>

\* onOpenChange: handleCloseRead.
ClosesDiagnosis ==
    /\ diagOpen
    /\ diagOpen' = FALSE /\ cardDiag' = Nothing /\ cardDataError' = FALSE
    /\ Cancels
    /\ UNCHANGED <<waiting, holder, plugged, stage, reader>>

\* The answer, to whichever dialog is open by then.
Tells(d, found) ==
    /\ stage' = [stage EXCEPT ![d] = "told"]
    /\ IF found = Nothing
       THEN cardDataError' = TRUE /\ UNCHANGED cardDiag
       ELSE cardDiag' = found /\ UNCHANGED cardDataError
    /\ UNCHANGED diagOpen

\* card_diagnostic: require_current, which calls the sidecar.
Admits(d) ==
    /\ stage[d] = "guard"
    /\ \/ /\ stage' = [stage EXCEPT ![d] = "uid"]
          /\ Queues(d)
          /\ UNCHANGED dialog
       \/ Tells(d, Nothing) /\ UNCHANGED waiting
    /\ UNCHANGED <<holder, cancel, plugged, reader>>

\* await_card_uid: a card.
CardComes(d) ==
    /\ holder = d /\ stage[d] = "uid" /\ plugged
    /\ stage' = [stage EXCEPT ![d] = "state"]
    /\ Queues(d)
    /\ Frees
    /\ UNCHANGED <<plugged, dialog, reader>>

\* Mutant: wait_for_card without its deadline.
AwaitsForever(d) ==
    /\ holder = d /\ stage[d] = "uid" /\ (cancel \/ ~plugged)
    /\ Tells(d, Nothing)
    /\ Frees
    /\ UNCHANGED <<waiting, plugged, reader>>

\* Or else no reader, a cancel, or the deadline of wait_for_card.
NoCardComes(d) ==
    /\ holder = d /\ stage[d] = "uid"
    /\ Tells(d, Nothing)
    /\ Frees
    /\ UNCHANGED <<waiting, plugged, reader>>

\* read_state.  A card that refuses the key is an answer too; one that was
\* taken away is an error.
ReadsCard(d) ==
    /\ holder = d /\ stage[d] = "state"
    /\ \E found \in (IF plugged THEN Found ELSE {}) \cup {Nothing} : Tells(d, found)
    /\ Frees
    /\ UNCHANGED <<waiting, plugged, reader>>

-----------------------------------------------------------------------------
Plugs == plugged' = ~plugged /\ UNCHANGED <<lock, stage, dialog, reader>>

\* The page of settings goes away; a dialog keeps its user from leaving it.
LeavesSettings ==
    /\ ~diagOpen
    /\ cardDiag' = Nothing /\ cardDataError' = FALSE /\ readerName' = FALSE
    /\ UNCHANGED <<lock, plugged, stage, diagOpen, readerConnected>>

\* The program starts again: its commands are gone, and the window is new.
RestartsDesk ==
    /\ waiting' = <<>> /\ holder' = Nothing /\ cancel' = FALSE
    /\ stage' = [d \in Diagnoses |-> IF stage[d] = "new" THEN "new" ELSE "told"]
    /\ diagOpen' = FALSE /\ cardDiag' = Nothing /\ cardDataError' = FALSE
    /\ readerName' = FALSE /\ readerConnected' = "unknown"
    /\ UNCHANGED plugged

\* What the user asks for on the page; what the program does, at the head of its
\* lock or elsewhere; and the rest.
DeskActs == (\E d \in Diagnoses : OpensDiagnosis(d)) \/ Tests
LockRuns == Takes \/ TellsStatus \/ \E d \in Diagnoses : NoCardComes(d) \/ ReadsCard(d)
DeskElse ==
    \/ ClosesDiagnosis \/ LeavesSettings \/ RestartsDesk
    \/ Polls \/ Plugs \/ \E d \in Diagnoses : CardComes(d)

-----------------------------------------------------------------------------
(* A dialog of the diagnosis that stays open is told something, though its  *)
(* read waits behind another whose cancel came too soon to be seen: every   *)
(* wait for a card has a deadline.                                          *)
DialogTold == diagOpen ~> (~diagOpen \/ cardDiag # Nothing \/ cardDataError)

(* The dialog shows the card it was opened for, or an error of its own      *)
(* read.  The program does not promise that: what a cancelled read answers  *)
(* late is shown in the next dialog.                                        *)
ShowsItsOwn ==
    diagOpen /\ (cardDiag # Nothing \/ cardDataError)
        => \E d \in Diagnoses : stage[d] = "told" /\ \A e \in Diagnoses : stage[e] \in {"new", "told"}
=============================================================================
