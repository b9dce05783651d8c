--------------------------- MODULE CardTokenProofs ---------------------------
(* What holds of CardToken for any terminals, commands at once, chips, bounds *)
(* and Env: two terminals, a cloned chip, commands that overlap a replay; and *)
(* what its only terminal promises, which two terminals break.                *)
EXTENDS CardToken, SequenceTheorems, TLAPS

-----------------------------------------------------------------------------
\* The inductive invariant gives each part of the state its type, and says that no
\* row has an active token that was not on a chip, wherever the row is.
ChipPart ==
    /\ chip \in [Chips -> MaybeToken] /\ drawn \in 0..MaxTokens
    /\ landed \subseteq Tokens
    /\ \A x \in Chips : chip[x] # Null => chip[x] \in landed

\* What is stored.
StorePart ==
    /\ pg \in MaybeCard /\ lite \in [Terminals -> MaybeCard]
    /\ pg # NoRow => pg.active \in landed
    /\ \A k \in Terminals : lite[k] # NoRow => lite[k].active \in landed

\* What a command is about to store, given the tokens that landed. A tap that will
\* write the chip has a token to write.
CmdGood(s, written) ==
    /\ s \in CmdState
    /\ s.pc \in {"mirror", "read", "save", "send", "queue", "write"} => s.row.active \in written
    /\ s.pc \in {"save", "send", "queue", "write"} /\ s.next = "write" => s.row.pending # Null
    /\ s.pc = "write" => s.next = "write"

CmdPart == cmd \in [Commands -> CmdState] /\ \A c \in Commands : CmdGood(cmd[c], landed)

\* What is queued, and what a replay has in hand, which is never more than that.
QueueGood(q, written) == q \in Seq(Card) /\ \A n \in 1..Len(q) : q[n].active \in written

JobGood(j, q, written) ==
    /\ j \in JobState
    /\ j.pc = "replay" => j.left <= Len(q)
    /\ j.pc \in {"write", "force", "mirror", "mark"} =>
         0 < j.left /\ j.left <= Len(q) /\ j.row.active \in written

QueuePart ==
    /\ outbox \in [Terminals -> Seq(Card)] /\ job \in [Terminals -> JobState]
    /\ \A k \in Terminals : QueueGood(outbox[k], landed) /\ JobGood(job[k], outbox[k], landed)

RestPart ==
    /\ reach \in [Terminals -> BOOLEAN] /\ online \in [Terminals -> BOOLEAN]
    /\ ready \in [Terminals -> BOOLEAN]
    /\ oks \in [Tokens -> Nat] /\ alarmed \in BOOLEAN
    /\ happened \subseteq {"copy", "overlap"}
    /\ verdict \in {"active", "blocked", "unsure"}

IInv == ChipPart /\ StorePart /\ CmdPart /\ QueuePart /\ RestPart

-----------------------------------------------------------------------------
(* What steps leave alone. Tokens that have landed stay in landed.          *)

LEMMA StoreStays ==
    ASSUME StorePart, UNCHANGED <<pg, lite>>, landed \subseteq landed'
    PROVE  StorePart'
  BY DEF StorePart

LEMMA CmdsStay ==
    ASSUME CmdPart, UNCHANGED cmd, landed \subseteq landed'
    PROVE  CmdPart'
  BY DEF CmdPart, CmdGood

LEMMA QueuesStay ==
    ASSUME QueuePart, UNCHANGED <<outbox, job>>, landed \subseteq landed'
    PROVE  QueuePart'
  BY DEF QueuePart, QueueGood, JobGood

LEMMA ChipStays ==
    ASSUME ChipPart, UNCHANGED <<chip, drawn, landed>>
    PROVE  ChipPart'
  BY DEF ChipPart

\* A command goes to another of its states.
LEMMA Goes ==
    ASSUME CmdPart, landed \subseteq landed', NEW c \in Commands, NEW s, Goto(c, s),
           CmdGood(s, landed')
    PROVE  CmdPart'
  <1>1. s \in CmdState
    BY DEF CmdGood
  <1>2. /\ cmd' \in [Commands -> CmdState]
        /\ cmd'[c] = s
        /\ \A d \in Commands \ {c} : cmd'[d] = cmd[d]
    BY <1>1 DEF CmdPart, Goto
  <1>3. \A d \in Commands : CmdGood(cmd[d], landed')
    BY DEF CmdPart, CmdGood
  <1>4. \A d \in Commands : CmdGood(cmd'[d], landed')
    BY <1>2, <1>3
  <1> QED
    BY <1>2, <1>4 DEF CmdPart

LEMMA IdleGood ==
    ASSUME NEW written
    PROVE  CmdGood(Idle, written) /\ CmdGood([pc |-> "format"], written)
  BY DEF CmdGood, CmdState, Idle

LEMMA ReadGood ==
    ASSUME NEW written, NEW row \in Card, row.active \in written
    PROVE  /\ CmdGood([pc |-> "read", row |-> row], written)
           /\ \A flow \in {"tap", "provision"} :
                 CmdGood([pc |-> "mirror", row |-> row, flow |-> flow], written)
  BY DEF CmdGood, CmdState

LEMMA WipeGood ==
    ASSUME NEW written, NEW id \in Tokens, NEW pc \in {"wipe", "drop", "purge"}
    PROVE  CmdGood([pc |-> pc, id |-> id], written)
  BY DEF CmdGood, CmdState

LEMMA UpsertGood ==
    ASSUME NEW written, NEW pc \in {"save", "send", "queue", "write"}, NEW row \in Card,
           NEW next \in {"write", "ok", "end"}, NEW shown \in MaybeToken,
           row.active \in written, next = "write" => row.pending # Null,
           pc = "write" => next = "write"
    PROVE  CmdGood([pc |-> pc, row |-> row, next |-> next, shown |-> shown], written)
  BY DEF CmdGood, CmdState

\* What a command has at each of its steps.
LEMMA CmdParts ==
    ASSUME CmdPart, NEW c \in Commands
    PROVE  /\ cmd[c].pc \in {"mirror", "read", "save", "send", "queue", "write"} =>
                cmd[c].row \in Card /\ cmd[c].row.active \in landed
           /\ cmd[c].pc = "mirror" => cmd[c].flow \in {"tap", "provision"}
           /\ cmd[c].pc \in {"wipe", "drop", "purge"} =>
                cmd[c].id \in Tokens /\ cmd[c] = [pc |-> cmd[c].pc, id |-> cmd[c].id]
           /\ cmd[c].pc \in {"save", "send", "queue", "write"} =>
                /\ cmd[c].next \in {"write", "ok", "end"} /\ cmd[c].shown \in MaybeToken
                /\ cmd[c] = [pc |-> cmd[c].pc, row |-> cmd[c].row, next |-> cmd[c].next,
                             shown |-> cmd[c].shown]
                /\ cmd[c].next = "write" => cmd[c].row.pending # Null
           /\ cmd[c].pc = "write" => cmd[c].next = "write"
  <1>1. cmd[c] \in CmdState /\ CmdGood(cmd[c], landed)
    BY DEF CmdPart
  <1> QED
    BY <1>1 DEF CmdState, CmdGood, Idle

\* An upsert goes on to another of its steps with the row it has.
LEMMA NextPc ==
    ASSUME CmdPart, NEW c \in Commands, cmd[c].pc \in {"save", "send", "queue", "write"},
           NEW pc \in {"save", "send", "queue", "write"}, pc = "write" => cmd[c].next = "write"
    PROVE  CmdGood([cmd[c] EXCEPT !.pc = pc], landed)
  <1>1. /\ cmd[c] = [pc |-> cmd[c].pc, row |-> cmd[c].row, next |-> cmd[c].next,
                     shown |-> cmd[c].shown]
        /\ cmd[c].row \in Card /\ cmd[c].row.active \in landed
        /\ cmd[c].next \in {"write", "ok", "end"} /\ cmd[c].shown \in MaybeToken
        /\ cmd[c].next = "write" => cmd[c].row.pending # Null
    BY CmdParts
  <1>2. [cmd[c] EXCEPT !.pc = pc] =
          [pc |-> pc, row |-> cmd[c].row, next |-> cmd[c].next, shown |-> cmd[c].shown]
    BY <1>1
  <1>3. CmdGood([pc |-> pc, row |-> cmd[c].row, next |-> cmd[c].next, shown |-> cmd[c].shown],
                landed)
    BY <1>1, UpsertGood
  <1> QED
    BY <1>2, <1>3

LEMMA StoredParts ==
    ASSUME StorePart
    PROVE  /\ pg # NoRow => pg \in Card /\ pg.active \in landed
           /\ \A k \in Terminals : lite[k] # NoRow => lite[k] \in Card /\ lite[k].active \in landed
  BY DEF StorePart, MaybeCard

\* Starting a command may only have it overlap a replay.
LEMMA StartRests ==
    ASSUME RestPart, NEW c \in Commands, Starts(c), UNCHANGED <<linkVars, started>>
    PROVE  RestPart'
  <1>1. happened' \subseteq {"copy", "overlap"}
    BY DEF RestPart, Starts, Overlaps
  <1> QED
    BY <1>1 DEF RestPart, linkVars, started

-----------------------------------------------------------------------------
(* The inductive invariant holds at the start, and every step keeps it.     *)

LEMMA Initial == Init => IInv
  <1> SUFFICES ASSUME Init PROVE IInv
    OBVIOUS
  <1> USE DEF Init
  <1>1. ChipPart
    BY CardTokenAssumption DEF ChipPart, MaybeToken, Null
  <1>2. StorePart
    BY DEF StorePart, MaybeCard
  <1>3. CmdPart
    BY IdleGood DEF CmdPart, CmdState
  <1>4. QueuePart
    <2>1. \A k \in Terminals : outbox[k] = <<>> /\ job[k] = [pc |-> "begin"]
      OBVIOUS
    <2>2. <<>> \in Seq(Card) /\ Len(<<>>) = 0
      OBVIOUS
    <2>3. QueueGood(<<>>, landed)
      BY <2>2 DEF QueueGood
    <2>4. [pc |-> "begin"] \in JobState
      BY DEF JobState
    <2>5. JobGood([pc |-> "begin"], <<>>, landed)
      BY <2>4 DEF JobGood
    <2> QED
      BY <2>1, <2>2, <2>3, <2>4, <2>5 DEF QueuePart
  <1>5. RestPart
    BY DEF RestPart
  <1> QED
    BY <1>1, <1>2, <1>3, <1>4, <1>5 DEF IInv

\* find_by_uid puts the row it found in the command's hands.
LEMMA FindGood ==
    ASSUME IInv, NEW c \in Commands, NEW flow \in {"tap", "provision"},
           NEW absent \in {Idle, [pc |-> "format"]}, Finds(c, flow, absent), UNCHANGED landed
    PROVE  CmdPart'
  <1> DEFINE k == At(c)
  <1>1. k \in Terminals
    BY DEF At, Commands
  <1>2. /\ pg # NoRow => pg \in Card /\ pg.active \in landed
        /\ lite[k] # NoRow => lite[k] \in Card /\ lite[k].active \in landed
    BY <1>1, StoredParts DEF IInv
  <1>3. \A row \in {pg, lite[k]} : row # NoRow =>
          /\ CmdGood([pc |-> "read", row |-> row], landed)
          /\ CmdGood([pc |-> "mirror", row |-> row, flow |-> flow], landed)
    <2> SUFFICES ASSUME NEW row \in {pg, lite[k]}, row # NoRow
                 PROVE  /\ CmdGood([pc |-> "read", row |-> row], landed)
                        /\ CmdGood([pc |-> "mirror", row |-> row, flow |-> flow], landed)
      OBVIOUS
    <2>1. row \in Card /\ row.active \in landed
      BY <1>2
    <2> QED
      BY <2>1, ReadGood
  <1>4. \E s : Goto(c, s) /\ CmdGood(s, landed)
    BY <1>3, IdleGood DEF Finds
  <1> QED
    BY <1>4, Goes DEF IInv

LEMMA TapStartsKeeps == ASSUME IInv, NEW c \in Commands, TapStarts(c) PROVE IInv'
  <1> USE DEF TapStarts
  <1>1. CmdPart'
    BY FindGood DEF started
  <1>2. ChipPart' /\ StorePart' /\ QueuePart' /\ RestPart'
    BY ChipStays, StoreStays, QueuesStay, StartRests DEF IInv, started
  <1> QED
    BY <1>1, <1>2 DEF IInv

LEMMA ProvisionStartsKeeps == ASSUME IInv, NEW c \in Commands, ProvisionStarts(c) PROVE IInv'
  <1> USE DEF ProvisionStarts
  <1>1. CmdPart'
    BY FindGood DEF started
  <1>2. ChipPart' /\ StorePart' /\ QueuePart' /\ RestPart'
    BY ChipStays, StoreStays, QueuesStay, StartRests DEF IInv, started
  <1> QED
    BY <1>1, <1>2 DEF IInv

LEMMA AdminStartsKeeps ==
    ASSUME IInv, NEW c \in Commands, NEW s \in {"active", "blocked"}, AdminStarts(c, s)
    PROVE  IInv'
  <1> DEFINE row == IF online[At(c)] THEN pg ELSE lite[At(c)]
             changed == [row EXCEPT !.status = s]
  <1> USE DEF AdminStarts
  <1>1. row \in Card /\ row.active \in landed
    BY StoredParts DEF IInv, At, Commands
  <1>2. changed \in Card /\ changed.active \in landed
    BY <1>1 DEF Card
  <1>3. CmdGood(Saving(changed, "end", Null), landed)
    BY <1>2, UpsertGood DEF Saving, MaybeToken
  <1>4. Goto(c, Saving(changed, "end", Null))
    OBVIOUS
  <1>5. UNCHANGED landed
    BY DEF started
  <1>6. CmdPart'
    BY <1>3, <1>4, <1>5, Goes DEF IInv
  <1>7. ChipPart' /\ StorePart' /\ QueuePart' /\ RestPart'
    BY ChipStays, StoreStays, QueuesStay, StartRests DEF IInv, started
  <1> QED
    BY <1>6, <1>7 DEF IInv

LEMMA UnprovisionStartsKeeps ==
    ASSUME IInv, NEW c \in Commands, UnprovisionStarts(c) PROVE IInv'
  <1> DEFINE row == IF online[At(c)] THEN pg ELSE lite[At(c)]
  <1> USE DEF UnprovisionStarts
  <1>1. row.id \in Tokens
    BY StoredParts DEF IInv, At, Commands, Card
  <1>2. CmdGood([pc |-> "wipe", id |-> row.id], landed)
    BY <1>1, WipeGood
  <1>3. Goto(c, [pc |-> "wipe", id |-> row.id])
    OBVIOUS
  <1>4. UNCHANGED landed
    BY DEF started
  <1>5. CmdPart'
    BY <1>2, <1>3, <1>4, Goes DEF IInv
  <1>6. ChipPart' /\ StorePart' /\ QueuePart' /\ RestPart'
    BY ChipStays, StoreStays, QueuesStay, StartRests DEF IInv, started
  <1> QED
    BY <1>5, <1>6 DEF IInv

-----------------------------------------------------------------------------
(* The steps of a command.                                                  *)

LEMMA MirrorsKeeps == ASSUME IInv, NEW c \in Commands, Mirrors(c) PROVE IInv'
  <1> DEFINE k == At(c)
             row == cmd[c].row
  <1> USE DEF Mirrors
  <1>1. k \in Terminals
    BY DEF At, Commands
  <1>2. cmd[c].pc = "mirror" /\ row \in Card /\ row.active \in landed
    BY CmdParts DEF IInv
  <1>3. CmdGood([pc |-> "read", row |-> row], landed)
    BY <1>2, ReadGood
  <1>4. \E s : Goto(c, s) /\ CmdGood(s, landed)
    <2>1. \E s \in {Idle, [pc |-> "format"], [pc |-> "read", row |-> row]} : Goto(c, s)
      <3>1. CASE Conflicts(lite[k], row)
        BY <3>1
      <3>2. CASE ~Conflicts(lite[k], row)
        <4>1. CASE cmd[c].flow = "tap" /\ row.status = "active"
          BY <3>2, <4>1
        <4>2. CASE ~(cmd[c].flow = "tap" /\ row.status = "active")
                   /\ cmd[c].flow = "provision" /\ row.status = "blocked"
          BY <3>2, <4>2
        <4>3. CASE /\ ~(cmd[c].flow = "tap" /\ row.status = "active")
                   /\ ~(cmd[c].flow = "provision" /\ row.status = "blocked")
          BY <3>2, <4>3
        <4> QED
          BY <4>1, <4>2, <4>3
      <3> QED
        BY <3>1, <3>2
    <2> QED
      BY <2>1, <1>3, IdleGood
  <1>5. UNCHANGED landed
    BY DEF history
  <1>6. CmdPart'
    BY <1>4, <1>5, Goes DEF IInv
  <1>7. lite' = lite \/ lite' = [lite EXCEPT ![k] = row]
    OBVIOUS
  <1>8. StorePart'
    BY <1>1, <1>2, <1>5, <1>7 DEF IInv, StorePart, MaybeCard
  <1>9. ChipPart' /\ QueuePart'
    BY ChipStays, QueuesStay DEF IInv, history
  <1>10. RestPart'
    BY DEF IInv, RestPart, linkVars, history
  <1> QED
    BY <1>6, <1>8, <1>9, <1>10 DEF IInv

\* A row whose token is promoted: the one that was read, or its pending one.
LEMMA PromotedRow ==
    ASSUME NEW row \in Card, NEW token \in Tokens
    PROVE  /\ [row EXCEPT !.active = token, !.counter = @ + 1] \in Card
           /\ [row EXCEPT !.active = token, !.counter = @ + 1].active = token
           /\ [row EXCEPT !.active = token, !.pending = Null, !.counter = @ + 1] \in Card
           /\ [row EXCEPT !.active = token, !.pending = Null, !.counter = @ + 1].active = token
  <1> DEFINE written == [row EXCEPT !.active = token]
             cleared == [written EXCEPT !.pending = Null]
  <1>1. written \in Card /\ written.active = token /\ written.counter = row.counter
    BY DEF Card
  <1>2. cleared \in Card /\ cleared.active = token /\ cleared.counter = row.counter
    BY <1>1 DEF Card, MaybeToken
  <1> HIDE DEF written, cleared
  <1>3. \A stored \in {written, cleared} :
          /\ [stored EXCEPT !.counter = @ + 1] \in Card
          /\ [stored EXCEPT !.counter = @ + 1].active = token
    BY <1>1, <1>2 DEF Card
  <1> USE DEF written, cleared
  <1>4. [row EXCEPT !.active = token, !.counter = @ + 1] = [written EXCEPT !.counter = @ + 1]
    BY DEF Card
  <1>5. [row EXCEPT !.active = token, !.pending = Null, !.counter = @ + 1] =
          [cleared EXCEPT !.counter = @ + 1]
    BY DEF Card
  <1> HIDE DEF written, cleared
  <1> QED
    BY <1>3, <1>4, <1>5

LEMMA TapReadsKeeps ==
    ASSUME IInv, NEW c \in Commands, NEW x \in Chips, TapReads(c, x) PROVE IInv'
  <1> DEFINE row == cmd[c].row
             promoted == [row EXCEPT !.active = chip[x], !.counter = @ + 1]
             match == Classify(chip[x], row)
             rolled == [(IF match = "Pending" THEN promoted ELSE row) EXCEPT !.pending = drawn']
  <1> USE DEF TapReads
  <1>1. cmd[c].pc = "read" /\ row \in Card /\ row.active \in landed
    BY CmdParts DEF IInv
  <1>2. chip[x] \in Tokens /\ chip[x] \in landed
    BY DEF IInv, ChipPart, MaybeToken
  <1>3. drawn \in 0..MaxTokens /\ drawn < MaxTokens /\ MaxTokens \in Nat
    BY CardTokenAssumption DEF IInv, ChipPart, MayDraw
  <1>4. UNCHANGED landed
    OBVIOUS
  <1>5. ASSUME match = "Clone" PROVE CmdPart' /\ UNCHANGED drawn
    <2>1. Blocked(row) \in Card /\ Blocked(row).active \in landed
      BY <1>1 DEF Blocked, Card
    <2>2. CmdGood(Saving(Blocked(row), "end", Null), landed)
      BY <2>1, UpsertGood DEF Saving, MaybeToken
    <2>3. Goto(c, Saving(Blocked(row), "end", Null)) /\ UNCHANGED drawn
      BY <1>5
    <2> QED
      BY <1>4, <2>2, <2>3, Goes DEF IInv
  <1>6. ASSUME match # "Clone" PROVE CmdPart' /\ drawn' \in 0..MaxTokens
    <2>1. drawn' = drawn + 1 /\ Goto(c, Saving(rolled, "write", chip[x]))
      BY <1>6
    <2>2. drawn' \in Tokens
      BY <1>3, <2>1 DEF Tokens
    <2>3. promoted \in Card /\ promoted.active \in landed
      BY <1>1, <1>2, PromotedRow
    <2>4. rolled \in Card /\ rolled.active \in landed /\ rolled.pending = drawn'
      BY <1>1, <2>2, <2>3 DEF Card, MaybeToken
    <2>5. drawn' # Null
      BY <2>2 DEF Tokens, Null
    <2>6. CmdGood(Saving(rolled, "write", chip[x]), landed)
      BY <1>2, <2>4, <2>5, UpsertGood DEF Saving, MaybeToken
    <2>7. drawn' \in 0..MaxTokens
      BY <1>3, <2>1
    <2> QED
      BY <1>4, <2>1, <2>6, <2>7, Goes DEF IInv
  <1>7. CmdPart' /\ drawn' \in 0..MaxTokens
    BY <1>3, <1>5, <1>6
  <1>8. ChipPart'
    BY <1>4, <1>7 DEF IInv, ChipPart
  <1>9. StorePart' /\ QueuePart'
    BY <1>4, StoreStays, QueuesStay DEF IInv
  <1>10. RestPart'
    BY DEF IInv, RestPart, linkVars
  <1> QED
    BY <1>7, <1>8, <1>9, <1>10 DEF IInv

LEMMA CardMissingKeeps == ASSUME IInv, NEW c \in Commands, CardMissing(c) PROVE IInv'
  <1> USE DEF CardMissing
  <1>1. CmdPart'
    BY IdleGood, Goes DEF IInv, history
  <1>2. ChipPart' /\ StorePart' /\ QueuePart'
    BY ChipStays, StoreStays, QueuesStay DEF IInv, history
  <1>3. RestPart'
    BY DEF IInv, RestPart, linkVars, history
  <1> QED
    BY <1>1, <1>2, <1>3 DEF IInv

\* What is on the chips after a write has landed.
LEMMA Landing ==
    ASSUME ChipPart, NEW x \in Chips, NEW token \in Tokens,
           chip' \in {chip, [chip EXCEPT ![x] = token]}, landed' = landed \cup Held(chip')
    PROVE  /\ chip' \in [Chips -> MaybeToken]
           /\ landed \subseteq landed' /\ landed' \subseteq Tokens
           /\ \A y \in Chips : chip'[y] # Null => chip'[y] \in landed'
           /\ chip' # chip => token \in landed'
  <1>1. chip' \in [Chips -> MaybeToken]
    BY DEF ChipPart, MaybeToken
  <1>2. \A y \in Chips : chip'[y] # Null => chip'[y] \in Held(chip')
    BY DEF Held
  <1>3. Held(chip') \subseteq Tokens
    BY <1>1 DEF Held, MaybeToken
  <1>4. chip' # chip => chip'[x] = token /\ token # Null
    BY DEF ChipPart, Tokens, Null
  <1> QED
    BY <1>1, <1>2, <1>3, <1>4 DEF ChipPart

LEMMA TapWritesKeeps ==
    ASSUME IInv, NEW c \in Commands, NEW x \in Chips, TapWrites(c, x) PROVE IInv'
  <1> DEFINE row == cmd[c].row
             promoted == [row EXCEPT !.active = row.pending, !.pending = Null, !.counter = @ + 1]
             done == Saving(promoted, "ok", cmd[c].shown)
  <1> USE DEF TapWrites
  <1>1. cmd[c].pc = "write" /\ row \in Card /\ row.pending # Null /\ cmd[c].shown \in MaybeToken
    BY CmdParts DEF IInv
  <1>2. row.pending \in Tokens
    BY <1>1 DEF Card, MaybeToken
  <1>3. chip' \in {chip, [chip EXCEPT ![x] = row.pending]} /\ landed' = landed \cup Held(chip')
    OBVIOUS
  <1>4. /\ chip' \in [Chips -> MaybeToken]
        /\ landed \subseteq landed' /\ landed' \subseteq Tokens
        /\ \A y \in Chips : chip'[y] # Null => chip'[y] \in landed'
    BY <1>2, <1>3, Landing DEF IInv
  <1>5. chip' = [chip EXCEPT ![x] = row.pending] => row.pending \in landed'
    <2>1. SUFFICES ASSUME chip' = [chip EXCEPT ![x] = row.pending] PROVE row.pending \in landed'
      OBVIOUS
    <2>2. chip'[x] = row.pending
      BY <2>1 DEF IInv, ChipPart
    <2> QED
      BY <1>2, <1>4, <2>2 DEF Tokens, Null
  <1>6. promoted \in Card /\ promoted.active = row.pending
    BY <1>1, <1>2, PromotedRow
  <1>7. row.pending \in landed' => CmdGood(done, landed')
    BY <1>1, <1>6, UpsertGood DEF Saving
  <1>8. \/ Goto(c, Idle)
        \/ Goto(c, done) /\ chip' = [chip EXCEPT ![x] = row.pending]
    BY DEF Goto
  <1>9. CmdPart'
    BY <1>4, <1>5, <1>7, <1>8, IdleGood, Goes DEF IInv
  <1>10. ChipPart'
    BY <1>4 DEF IInv, ChipPart
  <1>11. StorePart' /\ QueuePart'
    BY <1>4, StoreStays, QueuesStay DEF IInv
  <1>12. RestPart'
    BY DEF IInv, RestPart, linkVars
  <1> QED
    BY <1>9, <1>10, <1>11, <1>12 DEF IInv

LEMMA FormatsKeeps ==
    ASSUME IInv, NEW c \in Commands, NEW x \in Chips, Formats(c, x) PROVE IInv'
  <1> DEFINE row == [id |-> drawn', active |-> drawn', pending |-> Null,
                     counter |-> 0, status |-> "active"]
  <1> USE DEF Formats
  <1>1. drawn \in 0..MaxTokens /\ drawn < MaxTokens /\ MaxTokens \in Nat
    BY CardTokenAssumption DEF IInv, ChipPart, MayDraw
  <1>2. drawn' \in Tokens /\ drawn' \in 0..MaxTokens
    BY <1>1 DEF Tokens
  <1>3. chip' = [chip EXCEPT ![x] = drawn'] /\ landed' = landed \cup Held(chip')
    OBVIOUS
  <1>4. /\ chip' \in [Chips -> MaybeToken]
        /\ landed \subseteq landed' /\ landed' \subseteq Tokens
        /\ \A y \in Chips : chip'[y] # Null => chip'[y] \in landed'
    BY <1>2, <1>3, Landing DEF IInv
  <1>5. drawn' \in landed'
    <2>1. chip'[x] = drawn'
      BY <1>3 DEF IInv, ChipPart
    <2>2. drawn' # Null
      BY <1>1, <1>2 DEF Tokens, Null
    <2> QED
      BY <1>4, <2>1, <2>2
  <1>6. row \in Card /\ row.active \in landed'
    BY <1>2, <1>5 DEF Card, MaybeToken
  <1>7. CmdGood(Saving(row, "end", Null), landed')
    BY <1>6, UpsertGood DEF Saving, MaybeToken
  <1>8. Goto(c, Saving(row, "end", Null)) \/ Goto(c, Idle)
    OBVIOUS
  <1>9. CmdPart'
    BY <1>4, <1>7, <1>8, IdleGood, Goes DEF IInv
  <1>10. ChipPart'
    BY <1>2, <1>4 DEF IInv, ChipPart
  <1>11. StorePart' /\ QueuePart'
    BY <1>4, StoreStays, QueuesStay DEF IInv
  <1>12. RestPart'
    BY DEF IInv, RestPart, linkVars
  <1> QED
    BY <1>9, <1>10, <1>11, <1>12 DEF IInv

LEMMA WipesKeeps ==
    ASSUME IInv, NEW c \in Commands, NEW x \in Chips, Wipes(c, x) PROVE IInv'
  <1> USE DEF Wipes
  <1>1. cmd[c].pc = "wipe" /\ cmd[c].id \in Tokens
    BY CmdParts DEF IInv
  <1>2. CmdGood([pc |-> "drop", id |-> cmd[c].id], landed)
    BY <1>1, WipeGood
  <1>3. Goto(c, [pc |-> "drop", id |-> cmd[c].id]) \/ Goto(c, Idle)
    OBVIOUS
  <1>4. UNCHANGED landed
    BY DEF history
  <1>5. CmdPart'
    BY <1>2, <1>3, <1>4, IdleGood, Goes DEF IInv
  <1>6. ChipPart'
    BY <1>4 DEF IInv, ChipPart, MaybeToken
  <1>7. StorePart' /\ QueuePart'
    BY <1>4, StoreStays, QueuesStay DEF IInv
  <1>8. RestPart'
    BY DEF IInv, RestPart, linkVars, history
  <1> QED
    BY <1>5, <1>6, <1>7, <1>8 DEF IInv

LEMMA DropsKeeps == ASSUME IInv, NEW c \in Commands, Drops(c) PROVE IInv'
  <1> DEFINE k == At(c)
  <1> USE DEF Drops
  <1>1. k \in Terminals
    BY DEF At, Commands
  <1>2. cmd[c].pc = "drop" /\ cmd[c].id \in Tokens /\ cmd[c] = [pc |-> cmd[c].pc, id |-> cmd[c].id]
    BY CmdParts DEF IInv
  <1>3. [cmd[c] EXCEPT !.pc = "purge"] = [pc |-> "purge", id |-> cmd[c].id]
    BY <1>2
  <1>4. CmdGood([cmd[c] EXCEPT !.pc = "purge"], landed)
    BY <1>2, <1>3, WipeGood
  <1>5. Goto(c, [cmd[c] EXCEPT !.pc = "purge"]) \/ Goto(c, Idle)
    OBVIOUS
  <1>6. UNCHANGED landed
    BY DEF history
  <1>7. CmdPart'
    BY <1>4, <1>5, <1>6, IdleGood, Goes DEF IInv
  <1>8. lite' = lite \/ lite' = [lite EXCEPT ![k] = NoRow]
    <2>1. lite' = [lite EXCEPT ![k] = IF @ # NoRow /\ @.id = cmd[c].id THEN NoRow ELSE @]
      OBVIOUS
    <2>2. [lite EXCEPT ![k] = lite[k]] = lite
      BY DEF IInv, StorePart
    <2> QED
      BY <2>1, <2>2
  <1>9. StorePart'
    BY <1>1, <1>6, <1>8 DEF IInv, StorePart, MaybeCard
  <1>10. ChipPart' /\ QueuePart'
    BY ChipStays, QueuesStay DEF IInv, history
  <1>11. RestPart'
    BY DEF IInv, RestPart, linkVars, history
  <1> QED
    BY <1>7, <1>9, <1>10, <1>11 DEF IInv

LEMMA PurgesKeeps == ASSUME IInv, NEW c \in Commands, Purges(c) PROVE IInv'
  <1> USE DEF Purges
  <1>1. CmdPart'
    BY IdleGood, Goes DEF IInv, history
  <1>2. pg' \in {pg, NoRow} /\ UNCHANGED <<lite, landed>>
    BY DEF history
  <1>3. StorePart'
    BY <1>2 DEF IInv, StorePart, MaybeCard
  <1>4. ChipPart' /\ QueuePart'
    BY ChipStays, QueuesStay DEF IInv, history
  <1>5. RestPart'
    BY DEF IInv, RestPart, linkVars, history
  <1> QED
    BY <1>1, <1>3, <1>4, <1>5 DEF IInv

\* What may be known after an upsert: oks counts, and the decision that was stored.
LEMMA ProceedsKeeps ==
    ASSUME IInv, NEW c \in Commands, cmd[c].pc \in {"send", "queue"}, Proceeds(c)
    PROVE  /\ CmdPart'
           /\ UNCHANGED <<landed, alarmed, happened>>
           /\ oks' \in [Tokens -> Nat]
           /\ verdict' \in {"active", "blocked", "unsure"}
  <1> DEFINE m == cmd[c]
  <1>1. m.row \in Card /\ m.next \in {"write", "ok", "end"}
    BY CmdParts DEF IInv
  <1>2. UNCHANGED <<landed, alarmed, happened>>
    BY DEF Proceeds
  <1>3. CmdPart'
    <2>1. m.next = "write" => CmdGood([m EXCEPT !.pc = "write"], landed)
      BY NextPc DEF IInv
    <2>2. (m.next = "write" /\ Goto(c, [m EXCEPT !.pc = "write"])) \/ Goto(c, Idle)
      BY DEF Proceeds
    <2> QED
      BY <1>2, <2>1, <2>2, IdleGood, Goes DEF IInv
  <1>4. oks' \in [Tokens -> Nat]
    <2>1. oks \in [Tokens -> Nat]
      BY DEF IInv, RestPart
    <2>2. oks' = oks \/ oks' = [oks EXCEPT ![m.shown] = @ + 1]
      BY DEF Proceeds
    <2> QED
      BY <2>1, <2>2
  <1>5. verdict' \in {"active", "blocked", "unsure"}
    BY <1>1 DEF Proceeds, IInv, RestPart, Card
  <1> QED
    BY <1>2, <1>3, <1>4, <1>5

LEMMA SavesKeeps == ASSUME IInv, NEW c \in Commands, Saves(c) PROVE IInv'
  <1> DEFINE k == At(c)
             row == cmd[c].row
  <1> USE DEF Saves
  <1>1. k \in Terminals
    BY DEF At, Commands
  <1>2. cmd[c].pc = "save" /\ row \in Card /\ row.active \in landed
    BY CmdParts DEF IInv
  <1>3. \A pc \in {"send", "queue"} : CmdGood([cmd[c] EXCEPT !.pc = pc], landed)
    BY NextPc DEF IInv
  <1>4. Goto(c, Idle) \/ \E pc \in {"send", "queue"} : Goto(c, [cmd[c] EXCEPT !.pc = pc])
    OBVIOUS
  <1>5. UNCHANGED landed
    BY DEF history
  <1>6. CmdPart'
    BY <1>3, <1>4, <1>5, IdleGood, Goes DEF IInv
  <1>7. lite' = lite \/ lite' = [lite EXCEPT ![k] = row]
    OBVIOUS
  <1>8. StorePart'
    BY <1>1, <1>2, <1>5, <1>7 DEF IInv, StorePart, MaybeCard
  <1>9. ChipPart' /\ QueuePart'
    BY ChipStays, QueuesStay DEF IInv, history
  <1>10. RestPart'
    BY DEF IInv, RestPart, linkVars, history
  <1> QED
    BY <1>6, <1>8, <1>9, <1>10 DEF IInv

LEMMA SendsKeeps == ASSUME IInv, NEW c \in Commands, Sends(c) PROVE IInv'
  <1> USE DEF Sends
  <1>1. cmd[c].row \in Card /\ cmd[c].row.active \in landed
    BY CmdParts DEF IInv
  <1>2. /\ CmdPart' /\ UNCHANGED <<landed, alarmed, happened>>
        /\ oks' \in [Tokens -> Nat] /\ verdict' \in {"active", "blocked", "unsure"}
    BY ProceedsKeeps
  <1>3. StorePart'
    BY <1>1, <1>2 DEF IInv, StorePart, MaybeCard
  <1>4. ChipPart' /\ QueuePart'
    BY <1>2, ChipStays, QueuesStay DEF IInv
  <1>5. RestPart'
    BY <1>2 DEF IInv, RestPart, linkVars
  <1> QED
    BY <1>2, <1>3, <1>4, <1>5 DEF IInv

\* A statement that failed may have been done.
LEMMA FailureKeeps ==
    ASSUME StorePart, RestPart, NEW k \in Terminals, NEW row \in Card, row.active \in landed,
           Loses(k, row) \/ (reach[k] /\ Refused(row)), UNCHANGED <<lite, landed>>
    PROVE  StorePart' /\ reach' \in [Terminals -> BOOLEAN]
  <1>1. pg' \in {pg, row} /\ reach' \in {reach, [reach EXCEPT ![k] = FALSE]}
    BY DEF Loses, Refused
  <1> QED
    BY <1>1 DEF StorePart, MaybeCard, RestPart

LEMMA SendFailsKeeps == ASSUME IInv, NEW c \in Commands, SendFails(c) PROVE IInv'
  <1> DEFINE k == At(c)
  <1> USE DEF SendFails
  <1>1. k \in Terminals
    BY DEF At, Commands
  <1>2. cmd[c].pc = "send" /\ cmd[c].row \in Card /\ cmd[c].row.active \in landed
    BY CmdParts DEF IInv
  <1>3. UNCHANGED <<lite, landed>>
    BY DEF history
  <1>4. StorePart' /\ reach' \in [Terminals -> BOOLEAN]
    BY <1>1, <1>2, <1>3, FailureKeeps DEF IInv
  <1>5. CmdGood([cmd[c] EXCEPT !.pc = "queue"], landed)
    BY <1>2, NextPc DEF IInv
  <1>6. CmdPart'
    BY <1>3, <1>5, Goes DEF IInv
  <1>7. ChipPart' /\ QueuePart'
    BY ChipStays, QueuesStay DEF IInv, history
  <1>8. RestPart'
    BY <1>4 DEF IInv, RestPart, history
  <1> QED
    BY <1>4, <1>6, <1>7, <1>8 DEF IInv

LEMMA Appended ==
    ASSUME NEW q, NEW written, QueueGood(q, written), NEW row \in Card, row.active \in written
    PROVE  QueueGood(Append(q, row), written) /\ Len(Append(q, row)) = Len(q) + 1
  <1>1. q \in Seq(Card)
    BY DEF QueueGood
  <1>2. /\ Append(q, row) \in Seq(Card)
        /\ Len(Append(q, row)) = Len(q) + 1
        /\ \A n \in 1..Len(q) : Append(q, row)[n] = q[n]
        /\ Append(q, row)[Len(q) + 1] = row
    BY <1>1, AppendProperties
  <1>3. Len(q) \in Nat
    BY <1>1, LenProperties
  <1> QED
    BY <1>2, <1>3 DEF QueueGood

LEMMA QueuesKeeps == ASSUME IInv, NEW c \in Commands, Queues(c) PROVE IInv'
  <1> DEFINE k == At(c)
             row == cmd[c].row
  <1> USE DEF Queues
  <1>1. k \in Terminals
    BY DEF At, Commands
  <1>2. row \in Card /\ row.active \in landed
    BY CmdParts DEF IInv
  <1>3. /\ CmdPart' /\ UNCHANGED <<landed, alarmed, happened>>
        /\ oks' \in [Tokens -> Nat] /\ verdict' \in {"active", "blocked", "unsure"}
    BY ProceedsKeeps
  <1>4. QueuePart'
    <2>1. /\ outbox' \in [Terminals -> Seq(Card)]
          /\ outbox'[k] = Append(outbox[k], row)
          /\ \A l \in Terminals \ {k} : outbox'[l] = outbox[l]
      BY <1>1, <1>2 DEF IInv, QueuePart
    <2>2. /\ QueueGood(outbox'[k], landed') /\ Len(outbox'[k]) = Len(outbox[k]) + 1
      BY <1>1, <1>2, <1>3, <2>1, Appended DEF IInv, QueuePart
    <2>3. Len(outbox[k]) \in Nat
      BY <1>1, LenProperties DEF IInv, QueuePart
    <2>4. JobGood(job[k], outbox'[k], landed')
      <3>1. JobGood(job[k], outbox[k], landed)
        BY <1>1 DEF IInv, QueuePart
      <3>2. job[k].pc \in {"replay", "write", "force", "mirror", "mark"} => job[k].left \in Nat
        BY <3>1 DEF JobGood, JobState, NoJob
      <3> QED
        BY <1>3, <2>2, <2>3, <3>1, <3>2 DEF JobGood
    <2>5. \A l \in Terminals \ {k} : QueueGood(outbox'[l], landed') /\ JobGood(job[l], outbox'[l], landed')
      BY <1>3, <2>1 DEF IInv, QueuePart
    <2> QED
      BY <2>1, <2>2, <2>4, <2>5 DEF IInv, QueuePart
  <1>5. ChipPart' /\ StorePart'
    BY <1>3, ChipStays, StoreStays DEF IInv
  <1>6. RestPart'
    BY <1>3 DEF IInv, RestPart, linkVars
  <1> QED
    BY <1>3, <1>4, <1>5, <1>6 DEF IInv

-----------------------------------------------------------------------------
(* The steps of a replay.                                                   *)

\* A replay goes to another of its states.
LEMMA JobMoves ==
    ASSUME QueuePart, NEW k \in Terminals, NEW j, JobGoes(k, j), UNCHANGED <<outbox, landed>>,
           JobGood(j, outbox[k], landed)
    PROVE  QueuePart'
  <1>1. j \in JobState
    BY DEF JobGood
  <1>2. /\ job' \in [Terminals -> JobState] /\ job'[k] = j
        /\ \A l \in Terminals \ {k} : job'[l] = job[l]
    BY <1>1 DEF QueuePart, JobGoes
  <1>3. \A l \in Terminals : JobGood(job'[l], outbox[l], landed)
    BY <1>2 DEF QueuePart
  <1> QED
    BY <1>2, <1>3 DEF QueuePart

LEMMA RestingGood ==
    ASSUME NEW q, NEW written
    PROVE  JobGood(NoJob, q, written) /\ JobGood([pc |-> "begin"], q, written)
  BY DEF JobGood, JobState, NoJob

LEMMA ReplayGood ==
    ASSUME NEW q, NEW written, NEW left \in Nat, left <= Len(q)
    PROVE  JobGood([pc |-> "replay", left |-> left], q, written)
  BY DEF JobGood, JobState

LEMMA HandGood ==
    ASSUME NEW q, NEW written, NEW pc \in {"write", "force", "mirror", "mark"},
           NEW left \in Nat, 0 < left, left <= Len(q), NEW row \in Card, row.active \in written
    PROVE  JobGood([pc |-> pc, left |-> left, row |-> row], q, written)
  BY DEF JobGood, JobState

\* What a replay has at each of its steps.
LEMMA JobParts ==
    ASSUME QueuePart, NEW k \in Terminals
    PROVE  /\ outbox[k] \in Seq(Card) /\ Len(outbox[k]) \in Nat
           /\ QueueGood(outbox[k], landed)
           /\ job[k].pc = "replay" => job[k].left \in Nat /\ job[k].left <= Len(outbox[k])
           /\ job[k].pc \in {"write", "force", "mirror", "mark"} =>
                /\ job[k] = [pc |-> job[k].pc, left |-> job[k].left, row |-> job[k].row]
                /\ job[k].left \in Nat /\ 0 < job[k].left /\ job[k].left <= Len(outbox[k])
                /\ job[k].row \in Card /\ job[k].row.active \in landed
  <1>1. outbox[k] \in Seq(Card) /\ QueueGood(outbox[k], landed)
    BY DEF QueuePart
  <1>2. Len(outbox[k]) \in Nat
    BY <1>1, LenProperties
  <1>3. job[k] \in JobState /\ JobGood(job[k], outbox[k], landed)
    BY DEF QueuePart
  <1> QED
    BY <1>1, <1>2, <1>3 DEF JobState, JobGood, NoJob

LEMMA NextHand ==
    ASSUME QueuePart, NEW k \in Terminals, job[k].pc \in {"write", "force", "mirror", "mark"},
           NEW pc \in {"write", "force", "mirror", "mark"}
    PROVE  JobGood([job[k] EXCEPT !.pc = pc], outbox[k], landed)
  <1>1. /\ job[k] = [pc |-> job[k].pc, left |-> job[k].left, row |-> job[k].row]
        /\ job[k].left \in Nat /\ 0 < job[k].left /\ job[k].left <= Len(outbox[k])
        /\ job[k].row \in Card /\ job[k].row.active \in landed
    BY JobParts
  <1>2. [job[k] EXCEPT !.pc = pc] = [pc |-> pc, left |-> job[k].left, row |-> job[k].row]
    BY <1>1
  <1>3. JobGood([pc |-> pc, left |-> job[k].left, row |-> job[k].row], outbox[k], landed)
    BY <1>1, HandGood
  <1> QED
    BY <1>2, <1>3

LEMMA JobOver ==
    ASSUME QueuePart, RestPart, NEW k \in Terminals, JobEnds(k), UNCHANGED <<outbox, landed>>
    PROVE  QueuePart' /\ ready' \in [Terminals -> BOOLEAN]
  <1>1. QueuePart'
    BY RestingGood, JobMoves DEF JobEnds
  <1> QED
    BY <1>1 DEF JobEnds, RestPart

LEMMA SyncBeginsKeeps == ASSUME IInv, NEW k \in Terminals, SyncBegins(k) PROVE IInv'
  <1> USE DEF SyncBegins
  <1>1. UNCHANGED <<outbox, landed>>
    BY DEF history
  <1>2. QueuePart' /\ ready' \in [Terminals -> BOOLEAN]
    <2>1. CASE online[k]
      <3>1. Len(outbox[k]) \in Nat /\ Len(outbox[k]) <= Len(outbox[k])
        BY JobParts DEF IInv
      <3>2. JobGood([pc |-> "replay", left |-> Len(outbox[k])], outbox[k], landed)
        BY <3>1, ReplayGood
      <3>3. JobGoes(k, [pc |-> "replay", left |-> Len(outbox[k])]) /\ UNCHANGED ready
        BY <2>1
      <3> QED
        BY <1>1, <3>2, <3>3, JobMoves DEF IInv, RestPart
    <2>2. CASE ~online[k]
      BY <1>1, <2>2, JobOver DEF IInv
    <2> QED
      BY <2>1, <2>2
  <1>3. ChipPart' /\ StorePart' /\ CmdPart'
    BY ChipStays, StoreStays, CmdsStay DEF IInv, history
  <1>4. RestPart'
    BY <1>2 DEF IInv, RestPart, history
  <1> QED
    BY <1>2, <1>3, <1>4 DEF IInv

LEMMA SyncComparesKeeps == ASSUME IInv, NEW k \in Terminals, SyncCompares(k) PROVE IInv'
  <1> DEFINE row == InHand(k)
             left == job[k].left
  <1> USE DEF SyncCompares
  <1>1. /\ left \in Nat /\ 0 < left /\ left <= Len(outbox[k])
        /\ outbox[k] \in Seq(Card) /\ QueueGood(outbox[k], landed) /\ Len(outbox[k]) \in Nat
    BY JobParts DEF IInv
  <1>2. row \in Card /\ row.active \in landed
    <2>1. 1 \in 1..Len(outbox[k])
      BY <1>1
    <2>2. row = outbox[k][1]
      BY DEF InHand
    <2>3. outbox[k][1] \in Card
      BY <1>1, <2>1, ElementOfSeq
    <2> QED
      BY <1>1, <2>1, <2>2, <2>3 DEF QueueGood
  <1>3. Blocked(row) \in Card /\ Blocked(row).active \in landed
    BY <1>2 DEF Blocked, Card
  <1>4. /\ JobGood([pc |-> "force", left |-> left, row |-> Blocked(row)], outbox[k], landed)
        /\ JobGood([pc |-> "write", left |-> left, row |-> row], outbox[k], landed)
    BY <1>1, <1>2, <1>3, HandGood
  <1>5. \/ JobGoes(k, [pc |-> "force", left |-> left, row |-> Blocked(row)])
        \/ JobGoes(k, [pc |-> "write", left |-> left, row |-> row])
    OBVIOUS
  <1>6. QueuePart'
    BY <1>4, <1>5, JobMoves DEF IInv
  <1>7. ChipPart' /\ StorePart' /\ CmdPart'
    BY ChipStays, StoreStays, CmdsStay DEF IInv
  <1>8. RestPart'
    BY DEF IInv, RestPart, linkVars
  <1> QED
    BY <1>6, <1>7, <1>8 DEF IInv

LEMMA SyncWritesKeeps == ASSUME IInv, NEW k \in Terminals, SyncWrites(k) PROVE IInv'
  <1> USE DEF SyncWrites
  <1>1. job[k].row \in Card /\ job[k].row.active \in landed
    BY JobParts DEF IInv
  <1>2. \A pc \in {"mirror", "mark"} : JobGood([job[k] EXCEPT !.pc = pc], outbox[k], landed)
    BY NextHand DEF IInv
  <1>3. \E pc \in {"mirror", "mark"} : JobGoes(k, [job[k] EXCEPT !.pc = pc])
    OBVIOUS
  <1>4. QueuePart'
    BY <1>2, <1>3, JobMoves DEF IInv
  <1>5. StorePart'
    BY <1>1 DEF IInv, StorePart, MaybeCard
  <1>6. ChipPart' /\ CmdPart'
    BY ChipStays, CmdsStay DEF IInv
  <1>7. RestPart'
    BY DEF IInv, RestPart, linkVars
  <1> QED
    BY <1>4, <1>5, <1>6, <1>7 DEF IInv

LEMMA SyncMirrorsKeeps == ASSUME IInv, NEW k \in Terminals, SyncMirrors(k) PROVE IInv'
  <1> USE DEF SyncMirrors
  <1>1. job[k].row \in Card /\ job[k].row.active \in landed
    BY JobParts DEF IInv
  <1>2. UNCHANGED landed
    BY DEF history
  <1>3. JobGood([job[k] EXCEPT !.pc = "mark"], outbox[k], landed)
    BY NextHand DEF IInv
  <1>4. QueuePart'
    BY <1>2, <1>3, JobMoves DEF IInv
  <1>5. StorePart'
    BY <1>1, <1>2 DEF IInv, StorePart, MaybeCard
  <1>6. ChipPart' /\ CmdPart'
    BY <1>2, ChipStays, CmdsStay DEF IInv
  <1>7. RestPart'
    BY DEF IInv, RestPart, linkVars, history
  <1> QED
    BY <1>4, <1>5, <1>6, <1>7 DEF IInv

LEMMA SyncMarksKeeps == ASSUME IInv, NEW k \in Terminals, SyncMarks(k) PROVE IInv'
  <1> DEFINE left == job[k].left
  <1> USE DEF SyncMarks
  <1>1. /\ left \in Nat /\ 0 < left /\ left <= Len(outbox[k])
        /\ outbox[k] \in Seq(Card) /\ QueueGood(outbox[k], landed) /\ Len(outbox[k]) \in Nat
    BY JobParts DEF IInv
  <1>2. UNCHANGED landed
    BY DEF history
  <1>3. /\ Tail(outbox[k]) \in Seq(Card) /\ Len(Tail(outbox[k])) = Len(outbox[k]) - 1
        /\ \A n \in 1..Len(Tail(outbox[k])) : Tail(outbox[k])[n] = outbox[k][n + 1]
    <2>1. outbox[k] # <<>>
      BY <1>1
    <2> QED
      BY <1>1, <2>1, HeadTailProperties
  <1>4. QueueGood(Tail(outbox[k]), landed)
    BY <1>1, <1>3 DEF QueueGood
  <1>5. JobGood([pc |-> "replay", left |-> left - 1], Tail(outbox[k]), landed)
    <2>1. left - 1 \in Nat /\ left - 1 <= Len(Tail(outbox[k]))
      BY <1>1, <1>3
    <2> QED
      BY <2>1, ReplayGood
  <1>6. /\ outbox' \in [Terminals -> Seq(Card)] /\ outbox'[k] = Tail(outbox[k])
        /\ \A l \in Terminals \ {k} : outbox'[l] = outbox[l]
    BY <1>3 DEF IInv, QueuePart
  <1>7. /\ job' \in [Terminals -> JobState] /\ job'[k] = [pc |-> "replay", left |-> left - 1]
        /\ \A l \in Terminals \ {k} : job'[l] = job[l]
    BY <1>5 DEF IInv, QueuePart, JobGoes, JobGood
  <1>8. \A l \in Terminals : QueueGood(outbox'[l], landed) /\ JobGood(job'[l], outbox'[l], landed)
    BY <1>4, <1>5, <1>6, <1>7 DEF IInv, QueuePart
  <1>9. QueuePart'
    BY <1>2, <1>6, <1>7, <1>8 DEF QueuePart
  <1>10. ChipPart' /\ StorePart' /\ CmdPart'
    BY <1>2, ChipStays, StoreStays, CmdsStay DEF IInv, history
  <1>11. RestPart'
    BY DEF IInv, RestPart, linkVars, history
  <1> QED
    BY <1>9, <1>10, <1>11 DEF IInv

LEMMA SyncFailsKeeps == ASSUME IInv, NEW k \in Terminals, SyncFails(k) PROVE IInv'
  <1> USE DEF SyncFails
  <1>1. UNCHANGED <<lite, outbox, landed>>
    BY DEF history
  <1>2. StorePart' /\ reach' \in [Terminals -> BOOLEAN]
    <2>1. CASE job[k].pc \in {"write", "force"}
      <3>1. job[k].row \in Card /\ job[k].row.active \in landed
        BY <2>1, JobParts DEF IInv
      <3>2. Loses(k, job[k].row) \/ (reach[k] /\ Refused(job[k].row))
        BY <2>1
      <3> QED
        BY <1>1, <3>1, <3>2, FailureKeeps DEF IInv
    <2>2. CASE job[k].pc \notin {"write", "force"}
      <3>1. UNCHANGED pg /\ (reach' = reach \/ reach' = [reach EXCEPT ![k] = FALSE])
        BY <2>2
      <3> QED
        BY <1>1, <3>1 DEF IInv, StorePart, RestPart
    <2> QED
      BY <2>1, <2>2
  <1>3. QueuePart' /\ ready' \in [Terminals -> BOOLEAN]
    BY <1>1, JobOver DEF IInv
  <1>4. ChipPart' /\ CmdPart'
    BY ChipStays, CmdsStay DEF IInv, history
  <1>5. RestPart'
    BY <1>2, <1>3 DEF IInv, RestPart, history
  <1> QED
    BY <1>2, <1>3, <1>4, <1>5 DEF IInv

LEMMA SyncEndsKeeps == ASSUME IInv, NEW k \in Terminals, SyncEnds(k) PROVE IInv'
  <1> USE DEF SyncEnds
  <1>1. QueuePart' /\ ready' \in [Terminals -> BOOLEAN]
    BY JobOver DEF IInv, history
  <1>2. ChipPart' /\ StorePart' /\ CmdPart'
    BY ChipStays, StoreStays, CmdsStay DEF IInv, history
  <1>3. RestPart'
    BY <1>1 DEF IInv, RestPart, history
  <1> QED
    BY <1>1, <1>2, <1>3 DEF IInv

-----------------------------------------------------------------------------
(* The watch loop, the process, PostgreSQL and the chips.                  *)

LEMMA WatchesKeeps == ASSUME IInv, NEW k \in Terminals, Watches(k) PROVE IInv'
  <1> USE DEF Watches
  <1>1. UNCHANGED <<outbox, landed>>
    BY DEF started
  <1>2. QueuePart'
    <2>1. CASE reach[k]
      BY <1>1, <2>1, RestingGood, JobMoves DEF IInv
    <2>2. CASE ~reach[k]
      BY <1>1, <2>2, QueuesStay DEF IInv
    <2> QED
      BY <2>1, <2>2
  <1>3. ChipPart' /\ StorePart' /\ CmdPart'
    BY ChipStays, StoreStays, CmdsStay DEF IInv, started
  <1>4. online' \in [Terminals -> BOOLEAN] /\ happened' \subseteq {"copy", "overlap"}
    BY DEF IInv, RestPart, Overlaps
  <1>5. RestPart'
    BY <1>4 DEF IInv, RestPart, started
  <1> QED
    BY <1>2, <1>3, <1>5 DEF IInv

LEMMA ReachChangesKeeps == ASSUME IInv, NEW k \in Terminals, ReachChanges(k) PROVE IInv'
  <1> USE DEF ReachChanges
  <1>1. ChipPart' /\ StorePart' /\ CmdPart' /\ QueuePart'
    BY ChipStays, StoreStays, CmdsStay, QueuesStay DEF IInv, history
  <1>2. reach' \in [Terminals -> BOOLEAN]
    BY DEF IInv, RestPart
  <1>3. RestPart'
    BY <1>2 DEF IInv, RestPart, history
  <1> QED
    BY <1>1, <1>3 DEF IInv

LEMMA RestartsKeeps == ASSUME IInv, NEW k \in Terminals, Restarts(k) PROVE IInv'
  <1> USE DEF Restarts
  <1>1. CmdPart'
    <2>1. Idle \in CmdState
      BY DEF CmdState
    <2>2. /\ cmd' \in [Commands -> CmdState]
          /\ \A c \in Commands : cmd'[c] \in {Idle, cmd[c]}
      BY <2>1 DEF IInv, CmdPart
    <2>3. \A c \in Commands : CmdGood(cmd'[c], landed)
      BY <2>2, IdleGood DEF IInv, CmdPart
    <2> QED
      BY <2>2, <2>3 DEF CmdPart
  <1>2. QueuePart'
    BY RestingGood, JobMoves DEF IInv
  <1>3. ChipPart' /\ StorePart'
    BY ChipStays, StoreStays DEF IInv
  <1>4. /\ ready' \in [Terminals -> BOOLEAN] /\ online' \in [Terminals -> BOOLEAN]
        /\ verdict' \in {"active", "blocked", "unsure"}
    BY DEF IInv, RestPart
  <1>5. RestPart'
    BY <1>4 DEF IInv, RestPart
  <1> QED
    BY <1>1, <1>2, <1>3, <1>5 DEF IInv

LEMMA CopyChipKeeps ==
    ASSUME IInv, NEW x \in Chips, NEW y \in Chips, CopyChip(x, y) PROVE IInv'
  <1> USE DEF CopyChip
  <1>1. ChipPart'
    BY DEF IInv, ChipPart
  <1>2. StorePart' /\ CmdPart' /\ QueuePart'
    BY StoreStays, CmdsStay, QueuesStay DEF IInv
  <1>3. RestPart'
    BY DEF IInv, RestPart, linkVars
  <1> QED
    BY <1>1, <1>2, <1>3 DEF IInv

LEMMA Stutters == ASSUME IInv, UNCHANGED vars PROVE IInv'
  <1>1. ChipPart' /\ StorePart' /\ CmdPart' /\ QueuePart'
    BY ChipStays, StoreStays, CmdsStay, QueuesStay DEF IInv, vars, history
  <1>2. RestPart'
    BY DEF IInv, RestPart, vars, linkVars, history
  <1> QED
    BY <1>1, <1>2 DEF IInv

-----------------------------------------------------------------------------
(* The theorems.                                                           *)

LEMMA Inductive == Spec => []IInv
  <1>1. IInv /\ [Next]_vars => IInv'
    <2> SUFFICES ASSUME IInv, [Next]_vars PROVE IInv'
      OBVIOUS
    <2>1. ASSUME NEW c \in Commands, CommandStarts(c) PROVE IInv'
      BY <2>1, TapStartsKeeps, ProvisionStartsKeeps, AdminStartsKeeps, UnprovisionStartsKeeps
      DEF CommandStarts
    <2>2. ASSUME NEW c \in Commands, CommandStep(c) PROVE IInv'
      BY <2>2, MirrorsKeeps, TapReadsKeeps, TapWritesKeeps, FormatsKeeps, WipesKeeps,
         CardMissingKeeps, DropsKeeps, PurgesKeeps, SavesKeeps, SendsKeeps, SendFailsKeeps,
         QueuesKeeps
      DEF CommandStep
    <2>3. ASSUME NEW k \in Terminals, SyncStep(k) PROVE IInv'
      BY <2>3, SyncBeginsKeeps, SyncComparesKeeps, SyncWritesKeeps, SyncMirrorsKeeps,
         SyncMarksKeeps, SyncFailsKeeps, SyncEndsKeeps
      DEF SyncStep
    <2> QED
      BY <2>1, <2>2, <2>3, WatchesKeeps, ReachChangesKeeps, RestartsKeeps, CopyChipKeeps, Stutters
      DEF Next
  <1> QED
    BY Initial, <1>1, PTL DEF Spec

\* Every state of the databases, the outboxes, the replays, the commands, the chips
\* and the histories is well typed.
THEOREM TypeCorrect == Spec => []TypeOK
  <1>1. IInv => TypeOK
    BY DEF IInv, ChipPart, StorePart, CmdPart, QueuePart, RestPart, TypeOK
  <1> QED
    BY <1>1, Inductive, PTL

\* A token becomes active only "after a verified card write": whatever the outages,
\* crashes, copies and commands that interleave or overlap a replay, no database has
\* an active token that was not on a chip.
THEOREM OnlyWrittenTokensActive == Spec => []ActiveWasWritten
  <1>1. IInv => ActiveWasWritten
    BY DEF IInv, StorePart, ActiveWasWritten
  <1> QED
    BY <1>1, Inductive, PTL

-----------------------------------------------------------------------------
(* What the only terminal promises. The first invariant is about its        *)
(* commands and the chips, and holds whatever overlaps a replay.            *)

Upserts(m) == m.pc \in {"save", "send", "queue", "write"}

\* A tap that will answer Ok for the token it has read.
Shows(m) == Upserts(m) /\ m.next \in {"write", "ok"}

OneCommand == \A c, d \in Commands : cmd[c] # Idle /\ cmd[d] # Idle => c = d

\* The one chip that holds a token shows it to the one tap there is, until that tap
\* replaces it by a token that nobody has seen.
TokenMoves(c) ==
    Shows(cmd[c]) =>
        /\ oks[cmd[c].shown] = 0
        /\ cmd[c].next = "write" =>
             /\ \A x \in Chips : chip[x] # Null => chip[x] = cmd[c].shown
             /\ oks[cmd[c].row.pending] = 0
        /\ cmd[c].next = "ok" => \A x \in Chips : chip[x] # cmd[c].shown

\* Of tokens that were not drawn yet nothing is known.
ShownBefore(c) ==
    Shows(cmd[c]) =>
        /\ cmd[c].shown \in 1..drawn
        /\ cmd[c].next = "write" =>
             cmd[c].row.pending \in 1..drawn /\ cmd[c].row.pending # cmd[c].shown

ChipsTrue ==
    /\ \A x \in Chips : chip[x] <= drawn
    /\ \A t \in Tokens : t > drawn => oks[t] = 0
    /\ \A c \in Commands : ShownBefore(c)
    /\ "copy" \notin happened =>
         /\ \A x, y \in Chips : chip[x] # Null /\ chip[y] # Null => x = y
         /\ \A x \in Chips : chip[x] # Null => oks[chip[x]] = 0
         /\ \A c \in Commands : TokenMoves(c)

(* The second is about the rows of the card, as long as no command          *)
(* overlapped a replay.                                                     *)

Knows(row, token) == token = row.active \/ token = row.pending

\* One row of a card is not newer than another.
Older(q, r) == q.id = r.id => q.counter <= r.counter

\* The central row once a queue is replayed over it.
LastOf(p, q) == IF q = <<>> THEN p ELSE q[Len(q)]
Central(k) == LastOf(pg, outbox[k])

\* A queue that is replayed over p never puts an older row over a newer one.
Ascends(p, q, d) ==
    /\ p # NoRow => p.id <= d
    /\ \A n \in 1..Len(q) :
        /\ q[n].id <= d
        /\ p # NoRow => Older(p, q[n])
        /\ \A m \in n..Len(q) : Older(q[n], q[m])

\* A row that may follow the central row p and the queue q: it is not older, knows no
\* token that was answered Ok, and knows every token of held.
Sound(r, p, q, d, answered, held) ==
    /\ r.id <= d
    /\ p # NoRow => Older(p, r)
    /\ \A n \in 1..Len(q) : Older(q[n], r)
    /\ \A t \in Tokens : Knows(r, t) => answered[t] = 0
    /\ \A t \in held : Knows(r, t)

\* No copy was made of the chip and the card is provisioned once.
Trusted == "recycle" \notin Env /\ happened = {}
MustKnow == IF Trusted THEN Held(chip) ELSE {}
SoundAt(r, k) == Sound(r, pg, outbox[k], drawn, oks, MustKnow)

Stored(k) ==
    /\ Ascends(pg, outbox[k], drawn)
    /\ lite[k] # NoRow => SoundAt(lite[k], k)
    /\ Central(k) # NoRow => SoundAt(Central(k), k)

\* Commands and replays exclude each other, and nothing waits while the terminal is
\* online. A replay has the first row of the queue in hand, and goes to the end.
Replaying(k) ==
    /\ job[k] # NoJob => \A c \in Commands : cmd[c] = Idle
    /\ job[k] = NoJob /\ online[k] => outbox[k] = <<>>
    /\ job[k].pc \notin {"force", "mirror"}
    /\ job[k].pc \in {"replay", "write", "mark"} => job[k].left = Len(outbox[k])
    /\ job[k].pc \in {"write", "mark"} => job[k].row = Head(outbox[k])
    /\ job[k].pc = "mark" => pg = job[k].row

\* A tap that goes on rotating the token.
Rotates(m) == m.pc = "read" \/ Shows(m)

InHands(c, k) ==
    /\ cmd[c].pc \in {"mirror", "read", "save", "send", "queue", "write"} => SoundAt(cmd[c].row, k)
    /\ cmd[c].pc \in {"send", "queue", "write"} => cmd[c].row = lite[k]
    /\ cmd[c].pc = "send" => online[k]
    /\ cmd[c].pc = "queue" => ~online[k]
    /\ cmd[c].pc = "write" => cmd[c].row = Central(k)
    /\ Shows(cmd[c]) =>
         /\ oks[cmd[c].shown] = 0
         /\ cmd[c].next = "ok" => ~Knows(cmd[c].row, cmd[c].shown)
    /\ verdict = "blocked" =>
         /\ ~Rotates(cmd[c])
         /\ cmd[c].pc = "mirror" => cmd[c].row.status = "blocked"
    /\ Trusted =>
         /\ cmd[c].pc = "format" => drawn = 0
         /\ cmd[c].pc = "mirror" /\ cmd[c].flow = "provision" => drawn = 0

\* A decision that has been saved and not acknowledged.
Decides(m) == m.pc \in {"send", "queue"} /\ m.next = "end"

Blocking(k) ==
    verdict = "blocked" /\ (\A c \in Commands : ~Decides(cmd[c])) =>
        /\ lite[k] # NoRow => lite[k].status = "blocked"
        /\ Central(k) # NoRow => Central(k).status = "blocked"

Kept(k) ==
    /\ Replaying(k)
    /\ Stored(k)
    /\ \A c \in Commands : InHands(c, k)
    /\ Blocking(k)
    /\ Trusted => ~alarmed

Once == happened # {"copy", "overlap"} => \A t \in Tokens : oks[t] <= 1

Only(k) == "concurrent" \notin Env /\ Terminals = {k}

OneAt(k) ==
    /\ OneCommand
    /\ ChipsTrue
    /\ Once
    /\ "overlap" \notin happened => Kept(k)

OneInv == \A k \in Terminals : Only(k) => OneAt(k)

-----------------------------------------------------------------------------
(* Rows against what is stored.                                             *)

LEMMA CardNumbers == \A r \in Card : r.id \in Nat /\ r.counter \in Nat
  BY CardTokenAssumption DEF Card, Tokens

\* Time passes: tokens are drawn, and a chip is emptied or given up on.
LEMMA SoundLater ==
    ASSUME NEW r \in Card, NEW p, NEW q, NEW d \in Nat, NEW e \in Nat, NEW answered,
           NEW held, NEW fewer \in SUBSET held, Sound(r, p, q, d, answered, held), d <= e
    PROVE  Sound(r, p, q, e, answered, fewer)
  BY DEF Sound, Card, Tokens

\* The central row is replaced by one that is not newer, or deleted.
LEMMA SoundOver ==
    ASSUME NEW r, NEW p, NEW new, NEW q, NEW d, NEW answered, NEW held,
           Sound(r, p, q, d, answered, held), new # NoRow => Older(new, r)
    PROVE  Sound(r, new, q, d, answered, held)
  BY DEF Sound

\* The first row leaves the queue.
LEMMA SoundTail ==
    ASSUME NEW r, NEW p, NEW q \in Seq(Card), q # <<>>, NEW d, NEW answered, NEW held,
           Sound(r, p, q, d, answered, held)
    PROVE  Sound(r, p, Tail(q), d, answered, held)
  <1>1. /\ Len(Tail(q)) = Len(q) - 1 /\ Len(q) \in Nat
        /\ \A n \in 1..Len(Tail(q)) : Tail(q)[n] = q[n + 1]
    BY HeadTailProperties, LenProperties
  <1>2. \A n \in 1..Len(Tail(q)) : n + 1 \in 1..Len(q)
    BY <1>1
  <1> QED
    BY <1>1, <1>2 DEF Sound

\* A row that is not newer is put at the end of the queue.
LEMMA SoundAppend ==
    ASSUME NEW r, NEW p, NEW q \in Seq(Card), NEW new \in Card, NEW d, NEW answered, NEW held,
           Sound(r, p, q, d, answered, held), Older(new, r)
    PROVE  Sound(r, p, Append(q, new), d, answered, held)
  <1>1. /\ Len(Append(q, new)) = Len(q) + 1 /\ Len(q) \in Nat
        /\ \A n \in 1..Len(q) : Append(q, new)[n] = q[n]
        /\ Append(q, new)[Len(q) + 1] = new
    BY AppendProperties, LenProperties
  <1>2. \A n \in 1..Len(Append(q, new)) : n \in 1..Len(q) \/ n = Len(q) + 1
    BY <1>1
  <1> QED
    BY <1>1, <1>2 DEF Sound

\* A token that the row does not know is answered Ok.
LEMMA SoundAnswered ==
    ASSUME NEW r, NEW p, NEW q, NEW d, NEW answered \in [Tokens -> Nat], NEW held,
           NEW t \in Tokens, Sound(r, p, q, d, answered, held), ~Knows(r, t)
    PROVE  Sound(r, p, q, d, [answered EXCEPT ![t] = @ + 1], held)
  BY DEF Sound

\* The same card with other tokens, that were not answered, and no lower counter.
LEMMA SoundRow ==
    ASSUME NEW r \in Card, NEW s \in Card, NEW p \in MaybeCard, NEW q \in Seq(Card), NEW d \in Nat,
           NEW e \in Nat, NEW answered, NEW held, NEW known, Sound(r, p, q, d, answered, held),
           d <= e, s.id = r.id, r.counter <= s.counter,
           \A t \in Tokens : Knows(s, t) => answered[t] = 0,
           \A t \in known : Knows(s, t)
    PROVE  Sound(s, p, q, e, answered, known)
  <1>1. s.id <= e
    BY DEF Sound, Card, Tokens
  <1>2. p # NoRow => Older(p, s)
    BY DEF Sound, Card, MaybeCard, Older
  <1>3. \A n \in 1..Len(q) : Older(q[n], s)
    <2> SUFFICES ASSUME NEW n \in 1..Len(q) PROVE Older(q[n], s)
      OBVIOUS
    <2>1. q[n] \in Card /\ Older(q[n], r)
      BY ElementOfSeq DEF Sound
    <2> QED
      BY <2>1 DEF Card, Older
  <1> QED
    BY <1>1, <1>2, <1>3 DEF Sound

\* A card that has just been provisioned.
LEMMA SoundNew ==
    ASSUME NEW p \in MaybeCard, NEW q \in Seq(Card), NEW d \in Nat,
           NEW answered \in [Tokens -> Nat], NEW held, NEW r \in Card, Ascends(p, q, d), r.id = d + 1,
           \A t \in Tokens : Knows(r, t) => answered[t] = 0,
           \A t \in held : Knows(r, t)
    PROVE  Sound(r, p, q, d + 1, answered, held)
  <1>0. d < r.id /\ r.id <= d + 1
    OBVIOUS
  <1>1. p # NoRow => p.id # r.id
    BY <1>0, CardNumbers DEF Ascends, MaybeCard
  <1>2. \A n \in 1..Len(q) : q[n].id # r.id
    <2> SUFFICES ASSUME NEW n \in 1..Len(q) PROVE q[n].id # r.id
      OBVIOUS
    <2>1. q[n] \in Card /\ q[n].id <= d
      BY ElementOfSeq DEF Ascends
    <2>2. q[n].id \in Nat /\ r.id \in Nat
      BY <2>1, CardNumbers
    <2> QED
      BY <1>0, <2>1, <2>2
  <1> QED
    BY <1>0, <1>1, <1>2 DEF Sound, Older

\* A row that is not newer may be put over the central row.
LEMMA AscendsOver ==
    ASSUME NEW p, NEW q \in Seq(Card), NEW d, Ascends(p, q, d), q # <<>>
    PROVE  /\ Ascends(Head(q), q, d) /\ Ascends(NoRow, q, d)
           /\ Head(q) \in Card
           /\ \A r, answered, held :
                Sound(r, p, q, d, answered, held) => Sound(r, Head(q), q, d, answered, held)
  <1>1. Head(q) = q[1] /\ 1 \in 1..Len(q) /\ Len(q) \in Nat
    BY LenProperties
  <1>2. q[1] \in Card
    BY <1>1, ElementOfSeq
  <1> QED
    BY <1>1, <1>2 DEF Ascends, Sound

LEMMA AscendsTail ==
    ASSUME NEW p, NEW q \in Seq(Card), NEW d, Ascends(p, q, d), q # <<>>
    PROVE  Ascends(p, Tail(q), d)
  <1>1. /\ Len(Tail(q)) = Len(q) - 1 /\ Len(q) \in Nat
        /\ \A n \in 1..Len(Tail(q)) : Tail(q)[n] = q[n + 1]
    BY HeadTailProperties, LenProperties
  <1>2. \A n \in 1..Len(Tail(q)) :
          /\ n + 1 \in 1..Len(q)
          /\ \A m \in n..Len(Tail(q)) : m \in 1..Len(Tail(q)) /\ m + 1 \in (n + 1)..Len(q)
    BY <1>1
  <1> QED
    BY <1>1, <1>2 DEF Ascends

LEMMA AscendsAppend ==
    ASSUME NEW p, NEW q \in Seq(Card), NEW d, NEW new \in Card, NEW answered, NEW held,
           Ascends(p, q, d), Sound(new, p, q, d, answered, held)
    PROVE  Ascends(p, Append(q, new), d)
  <1>1. /\ Len(Append(q, new)) = Len(q) + 1 /\ Len(q) \in Nat
        /\ \A n \in 1..Len(q) : Append(q, new)[n] = q[n]
        /\ Append(q, new)[Len(q) + 1] = new
    BY AppendProperties, LenProperties
  <1>2. \A n \in 1..Len(Append(q, new)) :
          /\ n \in 1..Len(q) \/ n = Len(q) + 1
          /\ \A m \in n..Len(Append(q, new)) :
               m = Len(q) + 1 \/ (m \in 1..Len(q) /\ n \in 1..Len(q) /\ m \in n..Len(q))
    BY <1>1
  <1>3. Older(new, new)
    BY DEF Older, Card
  <1>4. \A n \in 1..Len(Append(q, new)) : \A m \in n..Len(Append(q, new)) :
          Older(Append(q, new)[n], Append(q, new)[m])
    BY <1>1, <1>2, <1>3 DEF Ascends, Sound
  <1>5. \A n \in 1..Len(Append(q, new)) :
          /\ Append(q, new)[n].id <= d
          /\ p # NoRow => Older(p, Append(q, new)[n])
    BY <1>1, <1>2 DEF Ascends, Sound
  <1> QED
    BY <1>4, <1>5 DEF Ascends

LEMMA AscendsLater ==
    ASSUME NEW p \in MaybeCard, NEW q \in Seq(Card), NEW d \in Nat, NEW e \in Nat,
           Ascends(p, q, d), d <= e
    PROVE  Ascends(p, q, e)
  <1>1. p # NoRow => p.id <= e
    BY DEF Ascends, MaybeCard, Card, Tokens
  <1>2. \A n \in 1..Len(q) : q[n].id <= e
    <2> SUFFICES ASSUME NEW n \in 1..Len(q) PROVE q[n].id <= e
      OBVIOUS
    <2>1. q[n] \in Card /\ q[n].id <= d
      BY ElementOfSeq DEF Ascends
    <2> QED
      BY <2>1 DEF Card, Tokens
  <1> QED
    BY <1>1, <1>2 DEF Ascends

\* What a replay does to the queue does not change the central row it ends with.
LEMMA LastStays ==
    ASSUME NEW p, NEW q \in Seq(Card), q # <<>>
    PROVE  /\ LastOf(Head(q), Tail(q)) = LastOf(p, q)
           /\ \A new : LastOf(new, q) = LastOf(p, q)
           /\ LastOf(p, q) = q[Len(q)]
  <1> DEFINE t == Tail(q)
             h == Head(q)
  <1>1. /\ Len(t) = Len(q) - 1 /\ Len(q) \in Nat \ {0}
        /\ \A n \in 1..Len(t) : t[n] = q[n + 1]
        /\ t \in Seq(Card) /\ h = q[1]
    BY HeadTailProperties, LenProperties, EmptySeq
  <1>2. \A new : LastOf(new, q) = q[Len(q)]
    BY DEF LastOf
  <1> HIDE DEF t, h
  <1>3. LastOf(h, t) = q[Len(q)]
    <2>1. CASE t = <<>>
      <3>1. Len(q) = 1
        BY <1>1, <2>1
      <3> QED
        BY <1>1, <2>1, <3>1 DEF LastOf
    <2>2. CASE t # <<>>
      <3>1. Len(t) \in 1..Len(t)
        BY <1>1, <2>2, EmptySeq
      <3> QED
        BY <1>1, <2>2, <3>1 DEF LastOf
    <2> QED
      BY <2>1, <2>2
  <1> QED
    BY <1>2, <1>3 DEF t, h

LEMMA LastAppended ==
    ASSUME NEW p, NEW q \in Seq(Card), NEW new \in Card
    PROVE  LastOf(p, Append(q, new)) = new
  BY AppendProperties, LenProperties, EmptySeq DEF LastOf

-----------------------------------------------------------------------------
(* What the steps of the only terminal have in common.                      *)

LEMMA OnlyParts ==
    ASSUME IInv, NEW k \in Terminals
    PROVE  /\ outbox[k] \in Seq(Card) /\ pg \in MaybeCard /\ lite[k] \in MaybeCard
           /\ Central(k) \in MaybeCard
           /\ drawn \in Nat /\ oks \in [Tokens -> Nat] /\ chip \in [Chips -> MaybeToken]
           /\ \A r \in {pg, lite[k], Central(k)} : r # NoRow => r \in Card
  <1>1. /\ outbox[k] \in Seq(Card) /\ pg \in MaybeCard /\ lite[k] \in MaybeCard
        /\ drawn \in Nat /\ oks \in [Tokens -> Nat] /\ chip \in [Chips -> MaybeToken]
    BY CardTokenAssumption DEF IInv, QueuePart, StorePart, ChipPart, RestPart
  <1>2. Central(k) \in MaybeCard
    <2>1. CASE outbox[k] = <<>>
      BY <1>1, <2>1 DEF Central, LastOf
    <2>2. CASE outbox[k] # <<>>
      <3>1. Len(outbox[k]) \in 1..Len(outbox[k])
        BY <1>1, <2>2, EmptySeq
      <3>2. outbox[k][Len(outbox[k])] \in Card
        BY <1>1, <3>1, ElementOfSeq
      <3> QED
        BY <2>2, <3>2 DEF Central, LastOf, MaybeCard
    <2> QED
      BY <2>1, <2>2
  <1> QED
    BY <1>1, <1>2 DEF MaybeCard

\* The only command that is not idle takes a step.
LEMMA Turn ==
    ASSUME IInv, NEW k \in Terminals, Only(k), OneCommand, NEW c \in Commands,
           NEW s, Goto(c, s), cmd[c] # Idle \/ Starts(c)
    PROVE  /\ At(c) = k
           /\ cmd'[c] = s
           /\ \A d \in Commands \ {c} : cmd[d] = Idle /\ cmd'[d] = Idle
           /\ OneCommand'
  <1>1. At(c) = k
    BY DEF At, Commands, Only
  <1>2. \A d \in Commands \ {c} : cmd[d] = Idle
    BY DEF OneCommand, Starts, Only
  <1>3. /\ cmd'[c] = s
        /\ \A d \in Commands \ {c} : cmd'[d] = cmd[d]
    BY DEF Goto, IInv, CmdPart
  <1> QED
    BY <1>1, <1>2, <1>3 DEF OneCommand

LEMMA IdleInHands ==
    ASSUME NEW c, NEW k, cmd'[c] = Idle
    PROVE  InHands(c, k)' /\ ShownBefore(c)' /\ TokenMoves(c)' /\ ~Decides(cmd'[c])
  BY DEF InHands, ShownBefore, TokenMoves, Shows, Rotates, Decides, Upserts, Idle

\* The tokens on the chips and in hands stay as they are.
LEMMA TokensStay ==
    ASSUME IInv, IInv', ChipsTrue, UNCHANGED <<chip, oks>>, drawn <= drawn', happened \subseteq happened',
           \A c \in Commands : Shows(cmd'[c]) =>
              /\ Shows(cmd[c])
              /\ cmd'[c].next = cmd[c].next /\ cmd'[c].row = cmd[c].row /\ cmd'[c].shown = cmd[c].shown
    PROVE  ChipsTrue'
  <1>1. drawn \in Nat /\ drawn' \in Nat /\ \A x \in Chips : chip[x] \in Nat
    BY CardTokenAssumption DEF IInv, ChipPart, MaybeToken, Tokens, Null
  <1>2. /\ \A x \in Chips : chip'[x] <= drawn'
        /\ \A t \in Tokens : t > drawn' => oks'[t] = 0
    BY <1>1, CardTokenAssumption DEF ChipsTrue, Tokens
  <1>3. \A c \in Commands : ShownBefore(c)'
    BY <1>1 DEF ChipsTrue, ShownBefore
  <1>4. "copy" \notin happened' =>
          /\ \A x, y \in Chips : chip'[x] # Null /\ chip'[y] # Null => x = y
          /\ \A x \in Chips : chip'[x] # Null => oks'[chip'[x]] = 0
          /\ \A c \in Commands : TokenMoves(c)'
    BY DEF ChipsTrue, TokenMoves
  <1> QED
    BY <1>2, <1>3, <1>4 DEF ChipsTrue

\* What is stored stays; tokens may be drawn.
LEMMA StoredStays ==
    ASSUME IInv, NEW k \in Terminals, Stored(k), UNCHANGED <<pg, lite, outbox, oks>>, drawn' \in Nat,
           drawn <= drawn', MustKnow' \subseteq MustKnow
    PROVE  /\ Stored(k)'
           /\ \A r \in Card : SoundAt(r, k) => Sound(r, pg', outbox'[k], drawn', oks', MustKnow')
  <1>1. \A r \in Card : SoundAt(r, k) => Sound(r, pg, outbox[k], drawn', oks, MustKnow')
    BY OnlyParts, SoundLater DEF SoundAt
  <1>2. Ascends(pg, outbox[k], drawn')
    BY OnlyParts, AscendsLater DEF Stored
  <1>3. Central(k)' = Central(k)
    BY DEF Central
  <1> QED
    BY <1>1, <1>2, <1>3, OnlyParts DEF Stored, SoundAt

\* A command keeps what it did to the database, the queue and the card.
LEMMA CommandKeeps ==
    ASSUME NEW k \in Terminals, Only(k), Kept(k), NEW c \in Commands, cmd[c] # Idle \/ job[k] = NoJob,
           \A d \in Commands \ {c} : cmd'[d] = Idle, UNCHANGED job,
           online'[k] => online[k], outbox'[k] = outbox[k] \/ ~online'[k],
           Stored(k)', InHands(c, k)', Blocking(k)', Trusted' => ~alarmed'
    PROVE  Kept(k)'
  <1>1. job[k] = NoJob
    BY DEF Kept, Replaying
  <1>2. Replaying(k)'
    BY <1>1 DEF Kept, Replaying, NoJob
  <1>3. \A d \in Commands : InHands(d, k)'
    BY IdleInHands
  <1> QED
    BY <1>2, <1>3 DEF Kept

-----------------------------------------------------------------------------
(* Commands begin.                                                          *)

LEMMA AllIdle ==
    ASSUME NEW k \in Terminals, Only(k), NEW c \in Commands, Starts(c)
    PROVE  /\ \A d \in Commands : cmd[d] = Idle
           /\ happened \subseteq happened'
           /\ "overlap" \notin happened' => "overlap" \notin happened /\ job[k] = NoJob
  BY DEF Starts, Only, Overlaps

LEMMA StartKeepsOne ==
    ASSUME IInv, IInv', NEW k \in Terminals, Only(k), OneAt(k), NEW c \in Commands, NEW s,
           Goto(c, s), Starts(c), ~Shows(s), ~Decides(s),
           UNCHANGED <<linkVars, pg, lite, outbox, job, chip, drawn, started>>,
           "overlap" \notin happened' /\ Kept(k) => InHands(c, k)'
    PROVE  OneAt(k)'
  <1>1. /\ \A d \in Commands : cmd[d] = Idle
        /\ happened \subseteq happened'
        /\ "overlap" \notin happened' => "overlap" \notin happened /\ job[k] = NoJob
    BY AllIdle
  <1>2. /\ cmd'[c] = s
        /\ \A d \in Commands \ {c} : cmd'[d] = Idle
        /\ OneCommand'
    BY Turn DEF OneAt
  <1>3. ~Shows(Idle) /\ ~Decides(Idle)
    BY DEF Shows, Upserts, Decides, Idle
  <1>4. UNCHANGED <<oks, alarmed, verdict, online>>
    BY DEF started, linkVars
  <1>5. drawn <= drawn' /\ drawn' \in Nat
    BY OnlyParts
  <1>6. ChipsTrue'
    BY <1>1, <1>2, <1>3, <1>4, <1>5, TokensStay DEF OneAt
  <1>7. Once'
    BY <1>1, <1>4, IInv' DEF OneAt, Once, IInv, RestPart
  <1>8. ASSUME "overlap" \notin happened' PROVE Kept(k)'
    <2>1. Kept(k) /\ job[k] = NoJob
      BY <1>1, <1>8 DEF OneAt
    <2>2. MustKnow' \subseteq MustKnow /\ (Trusted' => Trusted)
      BY <1>1 DEF MustKnow, Trusted
    <2>3. Stored(k)'
      BY <1>4, <1>5, <2>1, <2>2, StoredStays DEF Kept
    <2>4. Blocking(k)'
      BY <1>1, <1>3, <1>4, <2>1 DEF Kept, Blocking, Central
    <2> QED
      BY <1>2, <1>4, <1>8, <2>1, <2>2, <2>3, <2>4, CommandKeeps DEF Kept, Replaying
  <1> QED
    BY <1>2, <1>6, <1>7, <1>8 DEF OneAt

\* What find_by_uid finds, and that a command may have it in its hands.
LEMMA FindsShape ==
    ASSUME IInv, NEW k \in Terminals, Only(k), NEW c \in Commands,
           NEW flow \in {"tap", "provision"}, NEW absent \in {Idle, [pc |-> "format"]},
           Finds(c, flow, absent), absent # Idle => flow = "provision"
    PROVE  /\ Goto(c, cmd'[c])
           /\ \/ cmd'[c] = Idle
              \/ flow = "provision" /\ cmd'[c] = [pc |-> "format"]
              \/ online[k] /\ pg # NoRow /\ cmd'[c] = [pc |-> "mirror", row |-> pg, flow |-> flow]
              \/ /\ lite[k] # NoRow /\ lite[k].status # "blocked"
                 /\ cmd'[c] = [pc |-> "read", row |-> lite[k]]
           /\ ~Shows(cmd'[c]) /\ ~Decides(cmd'[c])
  <1>1. At(c) = k
    BY DEF At, Commands, Only
  <1>2. \A s : Goto(c, s) => cmd'[c] = s /\ Goto(c, cmd'[c])
    BY DEF IInv, CmdPart, Goto
  <1>3. /\ Goto(c, cmd'[c])
        /\ \/ cmd'[c] = Idle
           \/ flow = "provision" /\ cmd'[c] = [pc |-> "format"]
           \/ online[k] /\ pg # NoRow /\ cmd'[c] = [pc |-> "mirror", row |-> pg, flow |-> flow]
           \/ /\ lite[k] # NoRow /\ lite[k].status # "blocked"
              /\ cmd'[c] = [pc |-> "read", row |-> lite[k]]
    BY <1>1, <1>2 DEF Finds
  <1> QED
    BY <1>3 DEF Shows, Upserts, Decides, Idle

LEMMA FindsInHands ==
    ASSUME IInv, IInv', NEW k \in Terminals, Only(k), Kept(k), NEW c \in Commands, Starts(c),
           "overlap" \notin happened', NEW flow \in {"tap", "provision"},
           NEW absent \in {Idle, [pc |-> "format"]}, Finds(c, flow, absent),
           absent # Idle => flow = "provision",
           flow = "provision" => drawn = 0 \/ "recycle" \in Env,
           UNCHANGED <<linkVars, pg, lite, outbox, job, chip, drawn, started>>
    PROVE  InHands(c, k)'
  <1>1. /\ \A d \in Commands : cmd[d] = Idle
        /\ happened \subseteq happened'
        /\ job[k] = NoJob
    BY AllIdle
  <1>2. UNCHANGED <<oks, alarmed, verdict, online>>
    BY DEF started, linkVars
  <1>3. MustKnow' \subseteq MustKnow /\ (Trusted' => Trusted)
    BY <1>1 DEF MustKnow, Trusted
  <1>4. \A r \in Card : SoundAt(r, k) => Sound(r, pg', outbox'[k], drawn', oks', MustKnow')
    BY <1>2, <1>3, OnlyParts, StoredStays DEF Kept
  <1>5. /\ lite[k] # NoRow => SoundAt(lite[k], k) /\ lite[k] \in Card
        /\ online[k] /\ pg # NoRow => SoundAt(pg, k) /\ pg \in Card
    BY <1>1, OnlyParts DEF Kept, Stored, Replaying, Central, LastOf
  <1>6. verdict = "blocked" =>
          /\ lite[k] # NoRow => lite[k].status = "blocked"
          /\ online[k] /\ pg # NoRow => pg.status = "blocked"
    BY <1>1 DEF Kept, Blocking, Replaying, Central, LastOf, Decides, Idle
  <1>7. CASE cmd'[c] = Idle
    BY <1>7, IdleInHands
  <1>8. CASE cmd'[c] = [pc |-> "format"] /\ flow = "provision"
    BY <1>8 DEF InHands, Shows, Rotates, Upserts, Trusted
  <1>9. CASE online[k] /\ pg # NoRow /\ cmd'[c] = [pc |-> "mirror", row |-> pg, flow |-> flow]
    <2>1. Trusted' /\ flow = "provision" => drawn' = 0
      BY DEF Trusted
    <2>2. cmd'[c].pc = "mirror" /\ cmd'[c].row = pg /\ cmd'[c].flow = flow
      BY <1>9
    <2>3. SoundAt(pg, k)' /\ (verdict' = "blocked" => pg.status = "blocked")
      BY <1>2, <1>4, <1>5, <1>6, <1>9 DEF SoundAt
    <2> QED
      BY <2>1, <2>2, <2>3 DEF InHands, SoundAt, Shows, Rotates, Upserts
  <1>10. CASE /\ lite[k] # NoRow /\ lite[k].status # "blocked"
              /\ cmd'[c] = [pc |-> "read", row |-> lite[k]]
    BY <1>2, <1>4, <1>5, <1>6, <1>10 DEF InHands, SoundAt, Shows, Rotates, Upserts
  <1> QED
    BY <1>7, <1>8, <1>9, <1>10, FindsShape

LEMMA TapStartsOne ==
    ASSUME IInv, IInv', NEW k \in Terminals, Only(k), OneAt(k), NEW c \in Commands, TapStarts(c)
    PROVE  OneAt(k)'
  <1> USE DEF TapStarts
  <1>1. Goto(c, cmd'[c]) /\ ~Shows(cmd'[c]) /\ ~Decides(cmd'[c])
    BY FindsShape
  <1>2. "overlap" \notin happened' /\ Kept(k) => InHands(c, k)'
    BY FindsInHands
  <1> QED
    BY <1>1, <1>2, StartKeepsOne

LEMMA ProvisionStartsOne ==
    ASSUME IInv, IInv', NEW k \in Terminals, Only(k), OneAt(k), NEW c \in Commands, ProvisionStarts(c)
    PROVE  OneAt(k)'
  <1> USE DEF ProvisionStarts
  <1>1. Goto(c, cmd'[c]) /\ ~Shows(cmd'[c]) /\ ~Decides(cmd'[c])
    BY FindsShape
  <1>2. "overlap" \notin happened' /\ Kept(k) => InHands(c, k)'
    BY FindsInHands
  <1> QED
    BY <1>1, <1>2, StartKeepsOne

LEMMA AdminStartsOne ==
    ASSUME IInv, IInv', NEW k \in Terminals, Only(k), OneAt(k), NEW c \in Commands,
           NEW s \in {"active", "blocked"}, AdminStarts(c, s)
    PROVE  OneAt(k)'
  <1> DEFINE row == IF online[At(c)] THEN pg ELSE lite[At(c)]
             changed == [row EXCEPT !.status = s]
             m == Saving(changed, "end", Null)
  <1> USE DEF AdminStarts
  <1>1. Starts(c) /\ Goto(c, m) /\ row # NoRow
    OBVIOUS
  <1>2. At(c) = k /\ cmd'[c] = m
    BY <1>1, Turn DEF OneAt
  <1>3. ~Shows(m) /\ ~Decides(m)
    BY DEF Shows, Upserts, Decides, Saving
  <1>4. ASSUME "overlap" \notin happened', Kept(k) PROVE InHands(c, k)'
    <2>1. job[k] = NoJob /\ happened \subseteq happened'
      BY <1>1, <1>4, AllIdle
    <2>2. UNCHANGED <<oks, alarmed, verdict, online>>
      BY DEF started, linkVars
    <2>3. MustKnow' \subseteq MustKnow
      BY <2>1 DEF MustKnow, Trusted
    <2>4. SoundAt(row, k) /\ row \in Card
      BY <1>1, <1>2, <1>4, <2>1, OnlyParts DEF Kept, Stored, Replaying, Central, LastOf
    <2>5. /\ changed \in Card /\ changed.id = row.id /\ changed.counter = row.counter
          /\ \A t : Knows(changed, t) => Knows(row, t)
          /\ \A t : Knows(row, t) => Knows(changed, t)
      BY <2>4 DEF Card, Knows
    <2> HIDE DEF row, changed
    <2>6. Sound(changed, pg, outbox[k], drawn, oks, MustKnow')
      <3>1. /\ \A t \in Tokens : Knows(changed, t) => oks[t] = 0
            /\ \A t \in MustKnow' : Knows(changed, t)
        BY <2>3, <2>4, <2>5 DEF SoundAt, Sound
      <3>2. row.counter <= changed.counter
        BY <2>4, <2>5, CardNumbers
      <3>3. pg \in MaybeCard /\ outbox[k] \in Seq(Card) /\ drawn \in Nat /\ drawn <= drawn
        BY OnlyParts
      <3>4. Sound(row, pg, outbox[k], drawn, oks, MustKnow)
        BY <2>4 DEF SoundAt
      <3> HIDE DEF AdminStarts
      <3> QED
        BY <2>4, <2>5, <3>1, <3>2, <3>3, <3>4, SoundRow
    <2>7. m.pc = "save" /\ m.row = changed /\ m.next = "end"
      BY DEF Saving
    <2> QED
      BY <1>2, <1>3, <2>2, <2>6, <2>7 DEF InHands, SoundAt, Rotates
  <1> QED
    BY <1>1, <1>3, <1>4, StartKeepsOne

LEMMA UnprovisionStartsOne ==
    ASSUME IInv, IInv', NEW k \in Terminals, Only(k), OneAt(k), NEW c \in Commands, UnprovisionStarts(c)
    PROVE  OneAt(k)'
  <1> DEFINE row == IF online[At(c)] THEN pg ELSE lite[At(c)]
             m == [pc |-> "wipe", id |-> row.id]
  <1> USE DEF UnprovisionStarts
  <1>1. Starts(c) /\ Goto(c, m)
    OBVIOUS
  <1>2. cmd'[c] = m
    BY <1>1, Turn DEF OneAt
  <1>3. ~Shows(m) /\ ~Decides(m) /\ m.pc = "wipe"
    BY DEF Shows, Upserts, Decides
  <1>4. InHands(c, k)'
    BY <1>2, <1>3 DEF InHands, Rotates
  <1> QED
    BY <1>1, <1>3, <1>4, StartKeepsOne

-----------------------------------------------------------------------------
(* The steps of a command.                                                  *)

LEMMA StepKeepsOne ==
    ASSUME IInv, NEW k \in Terminals, Only(k), OneAt(k), NEW c \in Commands, NEW s, Goto(c, s),
           cmd[c] # Idle, UNCHANGED job, happened \subseteq happened',
           online'[k] => online[k],
           "overlap" \notin happened' => outbox'[k] = outbox[k] \/ ~online'[k],
           ChipsTrue', Once',
           "overlap" \notin happened' /\ Kept(k) =>
              Stored(k)' /\ InHands(c, k)' /\ Blocking(k)' /\ (Trusted' => ~alarmed')
    PROVE  OneAt(k)'
  <1>1. (\A d \in Commands \ {c} : cmd'[d] = Idle) /\ OneCommand'
    BY Turn DEF OneAt
  <1>2. ASSUME "overlap" \notin happened' PROVE Kept(k)'
    <2>1. Kept(k)
      BY <1>2 DEF OneAt
    <2> QED
      BY <1>1, <1>2, <2>1, CommandKeeps
  <1> QED
    BY <1>1, <1>2 DEF OneAt

LEMMA Works ==
    ASSUME NEW k \in Terminals, Only(k), NEW c \in Commands, cmd[c].pc # "idle"
    PROVE  cmd[c] # Idle /\ At(c) = k
  BY DEF Idle, At, Commands, Only

\* A command that shows no token and leaves the chips alone.
LEMMA QuietStep ==
    ASSUME IInv, IInv', NEW k \in Terminals, Only(k), OneAt(k), NEW c \in Commands, NEW s, Goto(c, s),
           cmd[c] # Idle, ~Shows(s), UNCHANGED <<job, online, outbox, chip, drawn, history>>,
           "overlap" \notin happened' /\ Kept(k) => Stored(k)' /\ InHands(c, k)' /\ Blocking(k)'
    PROVE  OneAt(k)'
  <1>1. UNCHANGED <<landed, oks, alarmed, happened, verdict>>
    BY DEF history
  <1>2. cmd'[c] = s /\ (\A d \in Commands \ {c} : cmd'[d] = Idle) /\ ~Shows(Idle)
    BY Turn DEF OneAt, Shows, Upserts, Idle
  <1>3. \A d \in Commands : ~Shows(cmd'[d])
    BY <1>2
  <1>4. drawn <= drawn'
    BY OnlyParts
  <1>5. ChipsTrue'
    BY <1>1, <1>3, <1>4, TokensStay DEF OneAt
  <1>6. Once'
    BY <1>1 DEF OneAt, Once
  <1> QED
    BY <1>1, <1>5, <1>6, StepKeepsOne DEF Kept, Trusted

LEMMA MirrorsOne ==
    ASSUME IInv, IInv', NEW k \in Terminals, Only(k), OneAt(k), NEW c \in Commands, Mirrors(c)
    PROVE  OneAt(k)'
  <1> DEFINE row == cmd[c].row
  <1> USE DEF Mirrors
  <1>1. cmd[c].pc = "mirror" /\ row \in Card /\ cmd[c] # Idle /\ At(c) = k
    BY CmdParts, Works DEF IInv
  <1>2. UNCHANGED <<online, outbox, oks, verdict, happened>>
    BY DEF history, linkVars
  <1>3. /\ Goto(c, cmd'[c])
        /\ \/ cmd'[c] = Idle
           \/ /\ cmd'[c] = [pc |-> "read", row |-> row]
              /\ row.status = "active"
           \/ cmd'[c] = [pc |-> "format"] /\ cmd[c].flow = "provision"
        /\ lite' = lite \/ lite' = [lite EXCEPT ![k] = row]
    <2>1. \A s : Goto(c, s) => cmd'[c] = s /\ Goto(c, cmd'[c])
      BY DEF IInv, CmdPart, Goto
    <2> QED
      BY <1>1, <2>1
  <1>4. ~Shows(cmd'[c]) /\ ~Decides(cmd[c]) /\ ~Decides(cmd'[c])
    BY <1>1, <1>3 DEF Shows, Decides, Upserts, Idle
  <1>5. ASSUME "overlap" \notin happened', Kept(k) PROVE Stored(k)' /\ InHands(c, k)' /\ Blocking(k)'
    <2>1. /\ InHands(c, k) /\ SoundAt(row, k)
          /\ verdict = "blocked" => row.status = "blocked"
      BY <1>1, <1>5 DEF Kept, InHands
    <2>2. lite'[k] = lite[k] \/ lite'[k] = row
      BY <1>3 DEF IInv, StorePart
    <2>3. Central(k)' = Central(k) /\ MustKnow' = MustKnow /\ (Trusted' <=> Trusted)
      BY <1>2 DEF Central, MustKnow, Trusted
    <2>4. Stored(k)'
      BY <1>2, <1>5, <2>1, <2>2, <2>3 DEF Kept, Stored, SoundAt
    <2>5. InHands(c, k)'
      <3>1. CASE cmd'[c] = Idle
        BY <3>1, IdleInHands
      <3>2. CASE cmd'[c] = [pc |-> "read", row |-> row] /\ row.status = "active"
        BY <1>2, <2>1, <2>3, <3>2 DEF InHands, SoundAt, Shows, Rotates, Upserts
      <3>3. CASE cmd'[c] = [pc |-> "format"] /\ cmd[c].flow = "provision"
        BY <1>1, <1>2, <2>1, <2>3, <3>3 DEF InHands, Shows, Rotates, Upserts
      <3> QED
        BY <1>3, <3>1, <3>2, <3>3
    <2>6. Blocking(k)'
      <3>1. \A d \in Commands : ~Decides(cmd[d])
        BY <1>1, <1>3, <1>4, Turn DEF OneAt, Decides, Idle
      <3> QED
        BY <1>2, <1>5, <2>1, <2>2, <2>3, <3>1 DEF Kept, Blocking
    <2> QED
      BY <2>4, <2>5, <2>6
  <1> QED
    BY <1>1, <1>2, <1>3, <1>4, <1>5, QuietStep

\* A command that ends, or deletes the card's row.
LEMMA EndKeepsOne ==
    ASSUME IInv, IInv', NEW k \in Terminals, Only(k), OneAt(k), NEW c \in Commands, NEW s, Goto(c, s),
           cmd[c].pc \in {"read", "format", "wipe", "drop", "purge"},
           s = Idle \/ s.pc \in {"drop", "purge"},
           UNCHANGED <<linkVars, outbox, job, drawn, history>>,
           \A x \in Chips : chip'[x] \in {chip[x], Null},
           pg' \in {pg, NoRow}, lite'[k] \in {lite[k], NoRow}
    PROVE  OneAt(k)'
  <1>1. UNCHANGED <<landed, oks, alarmed, happened, verdict, online>>
    BY DEF history, linkVars
  <1>2. cmd[c] # Idle
    BY DEF Idle
  <1>3. cmd'[c] = s /\ (\A d \in Commands \ {c} : cmd[d] = Idle /\ cmd'[d] = Idle)
    BY <1>2, Turn DEF OneAt
  <1>4. \A d \in Commands : ~Shows(cmd'[d]) /\ ~Decides(cmd[d])
    BY <1>3 DEF Shows, Upserts, Decides, Idle
  <1>5. drawn \in Nat /\ \A x \in Chips : chip[x] \in Nat
    BY CardTokenAssumption DEF IInv, ChipPart, MaybeToken, Tokens, Null
  <1>6. ChipsTrue'
    <2>1. \A d \in Commands : ShownBefore(d)' /\ TokenMoves(d)'
      BY <1>4 DEF ShownBefore, TokenMoves
    <2>2. \A x \in Chips : chip'[x] <= drawn'
      BY <1>5 DEF OneAt, ChipsTrue, Null
    <2> QED
      BY <1>1, <2>1, <2>2 DEF OneAt, ChipsTrue
  <1>7. Once'
    BY <1>1 DEF OneAt, Once
  <1>8. ASSUME Kept(k) PROVE Stored(k)' /\ InHands(c, k)' /\ Blocking(k)'
    <2>1. MustKnow' \subseteq MustKnow /\ drawn <= drawn
      BY <1>1, <1>5 DEF MustKnow, Trusted, Held
    <2>2. /\ pg # NoRow => pg \in Card
          /\ lite[k] # NoRow => lite[k] \in Card
          /\ Central(k) # NoRow => Central(k) \in Card
      BY OnlyParts
    <2>3. \A r \in Card : SoundAt(r, k) => Sound(r, pg, outbox[k], drawn, oks, MustKnow')
      BY <1>5, <2>1, SoundLater DEF SoundAt
    <2>4. \A r : Sound(r, pg, outbox[k], drawn, oks, MustKnow') =>
                   Sound(r, pg', outbox[k], drawn, oks, MustKnow')
      BY SoundOver
    <2>5. Ascends(pg', outbox[k], drawn)
      BY <1>8 DEF Kept, Stored, Ascends
    <2>6. Central(k)' \in {Central(k), NoRow}
      BY DEF Central, LastOf
    <2>7. Stored(k)'
      BY <1>1, <1>8, <2>2, <2>3, <2>4, <2>5, <2>6 DEF Kept, Stored, SoundAt
    <2>8. InHands(c, k)'
      BY <1>3 DEF InHands, Shows, Rotates, Upserts, Idle
    <2>9. Blocking(k)'
      BY <1>1, <1>4, <1>8, <2>6 DEF Kept, Blocking
    <2> QED
      BY <2>7, <2>8, <2>9
  <1> QED
    BY <1>1, <1>2, <1>6, <1>7, <1>8, StepKeepsOne DEF Kept, Trusted

LEMMA CardMissingOne ==
    ASSUME IInv, IInv', NEW k \in Terminals, Only(k), OneAt(k), NEW c \in Commands, CardMissing(c)
    PROVE  OneAt(k)'
  BY EndKeepsOne DEF CardMissing

LEMMA WipesOne ==
    ASSUME IInv, IInv', NEW k \in Terminals, Only(k), OneAt(k), NEW c \in Commands, NEW x \in Chips,
           Wipes(c, x)
    PROVE  OneAt(k)'
  <1> DEFINE drop == [pc |-> "drop", id |-> cmd[c].id]
  <1>1. \A y \in Chips : chip'[y] \in {chip[y], Null}
    BY DEF Wipes, IInv, ChipPart
  <1>2. \E s \in {drop, Idle} : Goto(c, s)
    BY DEF Wipes
  <1> QED
    BY <1>1, <1>2, EndKeepsOne DEF Wipes

LEMMA DropsOne ==
    ASSUME IInv, IInv', NEW k \in Terminals, Only(k), OneAt(k), NEW c \in Commands, Drops(c)
    PROVE  OneAt(k)'
  <1> USE DEF Drops
  <1>1. At(c) = k
    BY Works
  <1>2. lite'[k] \in {lite[k], NoRow}
    BY <1>1 DEF IInv, StorePart
  <1>3. cmd[c] = [pc |-> "drop", id |-> cmd[c].id]
    BY CmdParts DEF IInv
  <1>4. [cmd[c] EXCEPT !.pc = "purge"].pc = "purge"
    BY <1>3
  <1>5. \E s \in {[cmd[c] EXCEPT !.pc = "purge"], Idle} : Goto(c, s)
    OBVIOUS
  <1> QED
    BY <1>2, <1>4, <1>5, EndKeepsOne

LEMMA PurgesOne ==
    ASSUME IInv, IInv', NEW k \in Terminals, Only(k), OneAt(k), NEW c \in Commands, Purges(c)
    PROVE  OneAt(k)'
  BY EndKeepsOne DEF Purges

\* The row that a tap stores before it writes the chip: the tokens it knows are the
\* new one and tokens that the row knew, the one that was read among them.
Rolled(row, token, new) ==
    [(IF Classify(token, row) = "Pending"
      THEN [row EXCEPT !.active = token, !.counter = @ + 1]
      ELSE row) EXCEPT !.pending = new]

LEMMA RolledRow ==
    ASSUME NEW row \in Card, NEW token \in Tokens, NEW new \in Tokens
    PROVE  /\ Classify(token, row) # "Clone" <=> Knows(row, token)
           /\ Knows(row, token) =>
                /\ Rolled(row, token, new) \in Card
                /\ Rolled(row, token, new).id = row.id
                /\ row.counter <= Rolled(row, token, new).counter
                /\ Rolled(row, token, new).pending = new
                /\ Knows(Rolled(row, token, new), token)
                /\ \A t : Knows(Rolled(row, token, new), t) => t = new \/ Knows(row, t)
  <1> DEFINE active == [row EXCEPT !.active = token]
             promoted == [active EXCEPT !.counter = @ + 1]
  <1>1. Classify(token, row) # "Clone" <=> Knows(row, token)
    BY DEF Classify, Knows
  <1>2. row.counter \in Nat
    BY CardNumbers
  <1>3. /\ active \in Card /\ active.id = row.id /\ active.active = token
        /\ active.pending = row.pending /\ active.counter = row.counter
    BY DEF Card
  <1> HIDE DEF active
  <1>4. /\ promoted \in Card /\ promoted.id = row.id /\ promoted.active = token
        /\ promoted.pending = row.pending /\ promoted.counter = row.counter + 1
    BY <1>2, <1>3 DEF Card
  <1> USE DEF active
  <1>5. [row EXCEPT !.active = token, !.counter = @ + 1] = promoted
    BY DEF Card
  <1> HIDE DEF promoted
  <1>6. \A r \in {row, promoted} :
          /\ [r EXCEPT !.pending = new] \in Card
          /\ [r EXCEPT !.pending = new].id = r.id
          /\ [r EXCEPT !.pending = new].active = r.active
          /\ [r EXCEPT !.pending = new].counter = r.counter
          /\ [r EXCEPT !.pending = new].pending = new
    BY <1>4 DEF Card, MaybeToken
  <1>7. CASE Classify(token, row) = "Pending"
    <2>1. Rolled(row, token, new) = [promoted EXCEPT !.pending = new] /\ token = row.pending
      BY <1>5, <1>7 DEF Rolled, Classify
    <2> QED
      BY <1>1, <1>2, <1>4, <1>6, <2>1 DEF Knows
  <1>8. CASE Classify(token, row) # "Pending"
    <2>1. Rolled(row, token, new) = [row EXCEPT !.pending = new]
      BY <1>8 DEF Rolled
    <2>2. Knows(row, token) => token = row.active
      BY <1>8 DEF Knows, Classify
    <2> QED
      BY <1>1, <1>2, <1>6, <2>1, <2>2 DEF Knows
  <1> QED
    BY <1>7, <1>8

LEMMA BlockedRow ==
    ASSUME NEW row \in Card
    PROVE  /\ Blocked(row) \in Card /\ Blocked(row).id = row.id
           /\ Blocked(row).counter = row.counter /\ Blocked(row).status = "blocked"
           /\ \A t : Knows(Blocked(row), t) <=> Knows(row, t)
  BY DEF Blocked, Card, Knows

LEMMA TapReadsOne ==
    ASSUME IInv, IInv', NEW k \in Terminals, Only(k), OneAt(k), NEW c \in Commands, NEW x \in Chips,
           TapReads(c, x)
    PROVE  OneAt(k)'
  <1> DEFINE row == cmd[c].row
             token == chip[x]
  <1>1. /\ cmd[c].pc = "read" /\ row \in Card /\ cmd[c] # Idle
        /\ token \in Tokens
        /\ drawn \in Nat /\ drawn < MaxTokens
    <2>1. cmd[c].pc = "read" /\ token # Null /\ MayDraw
      BY DEF TapReads
    <2>2. cmd[c] # Idle /\ row \in Card
      BY <2>1, CmdParts, Works DEF IInv
    <2>3. token \in Tokens /\ drawn \in Nat
      BY <2>1, OnlyParts DEF MaybeToken
    <2>4. drawn < MaxTokens
      BY <2>1, <2>3, CardTokenAssumption DEF MayDraw
    <2> QED
      BY <2>1, <2>2, <2>3, <2>4
  <1>2. /\ UNCHANGED <<pg, lite, outbox, job, online, chip, oks, happened, verdict>>
        /\ IF Classify(token, row) = "Clone"
           THEN Goto(c, Saving(Blocked(row), "end", Null)) /\ UNCHANGED drawn
           ELSE /\ drawn' = drawn + 1 /\ UNCHANGED alarmed
                /\ Goto(c, Saving(Rolled(row, token, drawn'), "write", token))
    BY DEF TapReads, linkVars, Rolled
  <1>3. Once'
    BY <1>2 DEF OneAt, Once
  <1>4. ASSUME "overlap" \notin happened', Kept(k)
        PROVE  /\ SoundAt(row, k) /\ verdict # "blocked"
               /\ Stored(k)' /\ Blocking(k)'
               /\ Trusted => Knows(row, token) /\ MustKnow = {token}
               /\ Trusted' <=> Trusted
    <2>1. SoundAt(row, k) /\ verdict # "blocked"
      BY <1>1, <1>4 DEF Kept, InHands, Rotates
    <2>2. MustKnow' = MustKnow /\ (Trusted' <=> Trusted)
      BY <1>2 DEF MustKnow, Trusted
    <2>3. drawn <= drawn' /\ drawn' \in Nat
      BY <1>1, <1>2
    <2>4. Stored(k)'
      BY <1>2, <1>4, <2>2, <2>3, StoredStays DEF Kept
    <2>5. ASSUME Trusted PROVE Knows(row, token) /\ MustKnow = {token}
      <3>1. MustKnow = Held(chip) /\ token \in Held(chip)
        BY <1>1, <2>5, CardTokenAssumption DEF MustKnow, Held, Tokens, Null
      <3>2. \A y \in Chips : chip[y] # Null => y = x
        BY <1>1, <2>5 DEF OneAt, ChipsTrue, Trusted, Tokens, Null
      <3>3. Held(chip) = {token}
        BY <3>1, <3>2 DEF Held
      <3> QED
        BY <2>1, <3>1, <3>3 DEF SoundAt, Sound
    <2> QED
      BY <1>2, <2>1, <2>2, <2>4, <2>5 DEF Blocking
  <1>5. CASE Classify(token, row) = "Clone"
    <2> DEFINE s == Saving(Blocked(row), "end", Null)
    <2>1. Goto(c, s) /\ s.pc = "save" /\ s.row = Blocked(row) /\ s.next = "end"
      BY <1>2, <1>5 DEF Saving
    <2>2. cmd'[c] = s /\ (\A d \in Commands \ {c} : cmd'[d] = Idle)
      BY <1>1, <2>1, Turn DEF OneAt
    <2> HIDE DEF s
    <2>3. \A d \in Commands : ~Shows(cmd'[d])
      BY <2>1, <2>2 DEF Shows, Upserts, Idle
    <2>4. ChipsTrue'
      BY <1>1, <1>2, <1>5, <2>3, TokensStay DEF OneAt
    <2>5. ASSUME "overlap" \notin happened', Kept(k)
          PROVE  InHands(c, k)' /\ (Trusted' => ~alarmed')
      <3>1. ~Trusted /\ ~Trusted'
        BY <1>1, <1>4, <1>5, <2>5, RolledRow
      <3>2. SoundAt(row, k) /\ pg \in MaybeCard /\ outbox[k] \in Seq(Card) /\ drawn <= drawn
        BY <1>1, <1>4, <2>5, OnlyParts
      <3>3. /\ \A t \in Tokens : Knows(Blocked(row), t) => oks[t] = 0
            /\ MustKnow = {} /\ MustKnow' = {}
        BY <1>1, <3>1, <3>2, BlockedRow DEF SoundAt, Sound, MustKnow
      <3>4. row.counter <= Blocked(row).counter
        BY <1>1, BlockedRow, CardNumbers
      <3>5. Sound(Blocked(row), pg, outbox[k], drawn, oks, MustKnow)
        BY <1>1, <3>2, <3>3, <3>4, BlockedRow, SoundRow DEF SoundAt
      <3> QED
        BY <1>2, <1>4, <1>5, <2>1, <2>2, <2>3, <2>5, <3>1, <3>3, <3>5
        DEF InHands, SoundAt, Rotates
    <2> QED
      BY <1>1, <1>2, <1>3, <1>4, <2>1, <2>4, <2>5, StepKeepsOne
  <1>6. CASE Classify(token, row) # "Clone"
    <2> DEFINE new == Rolled(row, token, drawn')
               s == Saving(new, "write", token)
    <2>1. /\ Goto(c, s) /\ s.pc = "save" /\ s.row = new /\ s.next = "write" /\ s.shown = token
          /\ drawn' = drawn + 1 /\ UNCHANGED alarmed
      BY <1>2, <1>6 DEF Saving
    <2>2. cmd'[c] = s /\ (\A d \in Commands \ {c} : cmd'[d] = Idle)
      BY <1>1, <2>1, Turn DEF OneAt
    <2> HIDE DEF s
    <2>3. drawn' \in Tokens
      BY <1>1, <2>1, CardTokenAssumption DEF Tokens
    <2>4. Knows(row, token)
      BY <1>1, <1>6, <2>3, RolledRow
    <2>5. /\ new \in Card /\ new.id = row.id /\ row.counter <= new.counter /\ new.pending = drawn'
          /\ Knows(new, token) /\ \A t : Knows(new, t) => t = drawn' \/ Knows(row, t)
      BY <1>1, <2>3, <2>4, RolledRow
    <2> HIDE DEF new
    <2>6. oks[drawn'] = 0 /\ token <= drawn /\ token \in 1..drawn' /\ drawn' # token
      BY <1>1, <2>1, <2>3 DEF OneAt, ChipsTrue, Tokens
    <2>7. ChipsTrue'
      <3>1. /\ \A y \in Chips : chip'[y] <= drawn'
            /\ \A t \in Tokens : t > drawn' => oks'[t] = 0
        <4>1. \A y \in Chips : chip[y] \in Nat
          BY CardTokenAssumption DEF IInv, ChipPart, MaybeToken, Tokens, Null
        <4> QED
          BY <1>1, <1>2, <2>1, <4>1 DEF OneAt, ChipsTrue, Tokens
      <3>2. ShownBefore(c)'
        BY <1>1, <2>1, <2>2, <2>3, <2>5, <2>6 DEF ShownBefore, Tokens
      <3>3. "copy" \notin happened' =>
              /\ \A y, z \in Chips : chip'[y] # Null /\ chip'[z] # Null => y = z
              /\ \A y \in Chips : chip'[y] # Null => oks'[chip'[y]] = 0
        BY <1>2 DEF OneAt, ChipsTrue
      <3>4. "copy" \notin happened' => TokenMoves(c)'
        BY <1>1, <1>2, <2>1, <2>2, <2>5, <2>6, <3>3 DEF TokenMoves, Tokens, Null
      <3> QED
        BY <2>2, <3>1, <3>2, <3>3, <3>4, IdleInHands DEF ChipsTrue
    <2>8. ASSUME "overlap" \notin happened', Kept(k)
          PROVE  InHands(c, k)' /\ (Trusted' => ~alarmed')
      <3>1. SoundAt(row, k) /\ pg \in MaybeCard /\ outbox[k] \in Seq(Card)
        BY <1>4, <2>8, OnlyParts
      <3>2. MustKnow' = MustKnow /\ (MustKnow = {token} \/ MustKnow = {})
        BY <1>2, <1>4, <2>8 DEF MustKnow, Trusted
      <3>3. /\ \A t \in Tokens : Knows(new, t) => oks[t] = 0
            /\ \A t \in MustKnow : Knows(new, t)
        BY <2>5, <2>6, <3>1, <3>2 DEF SoundAt, Sound
      <3>4. drawn <= drawn' /\ drawn' \in Nat
        BY <1>1, <2>1
      <3>5. Sound(new, pg, outbox[k], drawn', oks, MustKnow)
        BY <1>1, <2>5, <3>1, <3>3, <3>4, SoundRow DEF SoundAt
      <3>6. oks[token] = 0
        BY <1>1, <2>4, <3>1 DEF SoundAt, Sound
      <3> QED
        BY <1>2, <1>4, <2>1, <2>2, <2>8, <3>2, <3>5, <3>6 DEF InHands, SoundAt, Kept
    <2> QED
      BY <1>1, <1>2, <1>3, <1>4, <2>1, <2>7, <2>8, StepKeepsOne
  <1> QED
    BY <1>5, <1>6

\* The row after the write: the new token is the active one, no other is known.
Promoted(row) == [row EXCEPT !.active = row.pending, !.pending = Null, !.counter = @ + 1]

LEMMA PromotedKnows ==
    ASSUME NEW row \in Card, row.pending \in Tokens
    PROVE  /\ Promoted(row) \in Card
           /\ Promoted(row).id = row.id
           /\ row.counter <= Promoted(row).counter
           /\ \A t \in Tokens : Knows(Promoted(row), t) <=> t = row.pending
  <1> DEFINE token == row.pending
             active == [row EXCEPT !.active = token]
             cleared == [active EXCEPT !.pending = Null]
             promoted == [cleared EXCEPT !.counter = @ + 1]
  <1>1. active \in Card /\ active.id = row.id /\ active.active = token /\ active.counter = row.counter
    BY DEF Card
  <1> HIDE DEF active
  <1>2. /\ cleared \in Card /\ cleared.id = row.id /\ cleared.active = token
        /\ cleared.counter = row.counter /\ cleared.pending = Null
    BY <1>1 DEF Card, MaybeToken
  <1> HIDE DEF cleared
  <1>3. row.counter \in Nat
    BY CardNumbers
  <1>4. /\ promoted \in Card /\ promoted.id = row.id /\ promoted.active = token
        /\ promoted.counter = row.counter + 1 /\ promoted.pending = Null
    BY <1>2, <1>3 DEF Card
  <1> USE DEF cleared, active
  <1>5. Promoted(row) = promoted
    BY DEF Promoted, Card
  <1> HIDE DEF promoted
  <1>6. Null \notin Tokens
    BY CardTokenAssumption DEF Null, Tokens
  <1> QED
    BY <1>3, <1>4, <1>5, <1>6 DEF Knows

LEMMA TapWritesOne ==
    ASSUME IInv, IInv', NEW k \in Terminals, Only(k), OneAt(k), NEW c \in Commands, NEW x \in Chips,
           TapWrites(c, x)
    PROVE  OneAt(k)'
  <1> DEFINE row == cmd[c].row
             new == row.pending
             shown == cmd[c].shown
             s == Saving(Promoted(row), "ok", shown)
  <1>1. cmd[c].pc = "write" /\ chip[x] # Null
    BY DEF TapWrites
  <1>2. row \in Card /\ cmd[c] # Idle /\ Shows(cmd[c]) /\ cmd[c].next = "write"
    BY <1>1, CmdParts, Works DEF IInv, Shows, Upserts
  <1>3. /\ new \in 1..drawn /\ new # shown /\ shown \in 1..drawn
        /\ "copy" \notin happened =>
             /\ oks[shown] = 0 /\ oks[new] = 0
             /\ \A y \in Chips : chip[y] # Null => y = x
    BY <1>1, <1>2 DEF OneAt, ChipsTrue, ShownBefore, TokenMoves
  <1>4. /\ drawn \in Nat /\ drawn <= MaxTokens /\ chip \in [Chips -> MaybeToken]
        /\ \A y \in Chips : chip[y] \in Nat
        /\ MaxTokens \in Nat
    BY CardTokenAssumption DEF IInv, ChipPart, MaybeToken, Tokens, Null
  <1>5. new \in Tokens /\ shown \in Tokens /\ Null \notin Tokens
    BY <1>3, <1>4 DEF Tokens, Null
  <1>6. /\ UNCHANGED <<pg, lite, outbox, job, online, drawn, oks, alarmed, happened, verdict>>
        /\ \/ chip' = [chip EXCEPT ![x] = new] /\ (Goto(c, s) \/ Goto(c, Idle))
           \/ chip' = chip /\ Goto(c, Idle)
    BY DEF TapWrites, linkVars, Promoted, Goto
  <1>7. s.pc = "save" /\ s.row = Promoted(row) /\ s.next = "ok" /\ s.shown = shown
    BY DEF Saving
  <1> HIDE DEF s
  <1>8. /\ cmd'[c] = Idle \/ (cmd'[c] = s /\ chip' = [chip EXCEPT ![x] = new])
        /\ Goto(c, cmd'[c])
        /\ \A d \in Commands \ {c} : cmd'[d] = Idle
    BY <1>2, <1>6, Turn DEF OneAt
  <1>9. Once'
    BY <1>6 DEF OneAt, Once
  <1>10. \/ chip' = chip /\ cmd'[c] = Idle
         \/ chip'[x] = new /\ \A y \in Chips \ {x} : chip'[y] = chip[y]
    BY <1>4, <1>5, <1>6, <1>8
  <1>11. ChipsTrue'
    <2>1. /\ \A y \in Chips : chip'[y] <= drawn'
          /\ \A t \in Tokens : t > drawn' => oks'[t] = 0
      BY <1>3, <1>6, <1>10 DEF OneAt, ChipsTrue
    <2>2. ShownBefore(c)'
      <3>1. CASE cmd'[c] = Idle
        BY <3>1, IdleInHands
      <3>2. CASE cmd'[c] = s
        BY <1>3, <1>6, <1>7, <3>2 DEF ShownBefore
      <3> QED
        BY <1>8, <3>1, <3>2
    <2>3. "copy" \notin happened' =>
            /\ \A y, z \in Chips : chip'[y] # Null /\ chip'[z] # Null => y = z
            /\ \A y \in Chips : chip'[y] # Null => oks'[chip'[y]] = 0
      BY <1>3, <1>6, <1>10 DEF OneAt, ChipsTrue
    <2>4. "copy" \notin happened' => TokenMoves(c)'
      <3>1. CASE cmd'[c] = Idle
        BY <3>1, IdleInHands
      <3>2. CASE cmd'[c] = s /\ cmd'[c] # Idle
        BY <1>3, <1>5, <1>6, <1>7, <1>10, <3>2 DEF TokenMoves
      <3> QED
        BY <1>8, <3>1, <3>2
    <2> QED
      BY <1>8, <2>1, <2>2, <2>3, <2>4, IdleInHands DEF ChipsTrue
  <1>12. ASSUME "overlap" \notin happened', Kept(k)
         PROVE  Stored(k)' /\ InHands(c, k)' /\ Blocking(k)' /\ (Trusted' => ~alarmed')
    <2>1. /\ SoundAt(row, k) /\ row = lite[k] /\ row = Central(k)
          /\ verdict # "blocked" /\ oks[shown] = 0
      BY <1>1, <1>2, <1>12 DEF Kept, InHands, Rotates
    <2>2. /\ \A t \in MustKnow' : Knows(row, t)
          /\ cmd'[c] = s /\ cmd'[c] # Idle => MustKnow' \subseteq {new}
      <3>1. Trusted' <=> Trusted
        BY <1>6 DEF Trusted
      <3>2. CASE ~Trusted
        BY <3>1, <3>2 DEF MustKnow
      <3>3. CASE Trusted /\ chip' = chip /\ cmd'[c] = Idle
        BY <2>1, <3>1, <3>3 DEF MustKnow, SoundAt, Sound
      <3>4. CASE Trusted /\ chip'[x] = new /\ \A y \in Chips \ {x} : chip'[y] = chip[y]
        <4>1. "copy" \notin happened
          BY <3>4 DEF Trusted
        <4>2. \A y \in Chips : chip'[y] # Null => chip'[y] = new
          BY <1>3, <3>4, <4>1
        <4>3. MustKnow' \subseteq {new}
          BY <4>2 DEF MustKnow, Held
        <4> QED
          BY <4>3 DEF Knows
      <3> QED
        BY <1>10, <3>2, <3>3, <3>4
    <2>3. Sound(row, pg, outbox[k], drawn, oks, MustKnow')
      BY <2>1, <2>2 DEF SoundAt, Sound
    <2>4. Stored(k)'
      BY <1>6, <1>12, <2>1, <2>3 DEF Kept, Stored, SoundAt, Central
    <2>5. InHands(c, k)'
      <3>1. CASE cmd'[c] = Idle
        BY <3>1, IdleInHands
      <3>2. CASE cmd'[c] = s /\ cmd'[c] # Idle
        <4>1. /\ \A t \in Tokens : Knows(Promoted(row), t) => oks[t] = 0
              /\ \A t \in MustKnow' : Knows(Promoted(row), t)
              /\ ~Knows(Promoted(row), shown)
          BY <1>2, <1>3, <1>5, <2>1, <2>2, <3>2, PromotedKnows DEF SoundAt, Sound, Knows
        <4>2. pg \in MaybeCard /\ outbox[k] \in Seq(Card) /\ drawn <= drawn
          BY <1>4, OnlyParts
        <4>3. Sound(Promoted(row), pg, outbox[k], drawn, oks, MustKnow')
          BY <1>2, <1>4, <1>5, <2>3, <4>1, <4>2, PromotedKnows, SoundRow
        <4> QED
          BY <1>6, <1>7, <2>1, <3>2, <4>1, <4>3 DEF InHands, SoundAt
      <3> QED
        BY <1>8, <3>1, <3>2
    <2> QED
      BY <1>6, <1>12, <2>1, <2>4, <2>5 DEF Blocking, Kept, Trusted
  <1> QED
    BY <1>2, <1>6, <1>8, <1>9, <1>11, <1>12, StepKeepsOne

LEMMA FormatsOne ==
    ASSUME IInv, IInv', NEW k \in Terminals, Only(k), OneAt(k), NEW c \in Commands, NEW x \in Chips,
           Formats(c, x)
    PROVE  OneAt(k)'
  <1> DEFINE new == [id |-> drawn', active |-> drawn', pending |-> Null, counter |-> 0,
                     status |-> "active"]
             s == Saving(new, "end", Null)
  <1>1. cmd[c].pc = "format" /\ cmd[c] # Idle
    BY Works DEF Formats
  <1>2. /\ UNCHANGED <<pg, lite, outbox, job, online, oks, alarmed, verdict>>
        /\ drawn' = drawn + 1 /\ chip' = [chip EXCEPT ![x] = drawn']
        /\ Goto(c, s) \/ Goto(c, Idle)
        /\ happened \subseteq happened'
        /\ "copy" \notin happened' => \A y \in Chips \ {x} : chip[y] = Null
    BY DEF Formats, linkVars
  <1>3. /\ drawn \in Nat /\ drawn' \in Tokens /\ drawn <= drawn' /\ drawn' \in Nat
        /\ \A y \in Chips : chip[y] \in Nat
    <2>1. drawn < MaxTokens /\ drawn \in Nat
      BY OnlyParts, CardTokenAssumption DEF Formats, MayDraw
    <2> QED
      BY <1>2, <2>1, CardTokenAssumption DEF IInv, ChipPart, MaybeToken, Tokens, Null
  <1>4. new \in Card /\ \A t \in Tokens : Knows(new, t) <=> t = drawn'
    BY <1>3, CardTokenAssumption DEF Card, MaybeToken, Knows, Tokens, Null
  <1>5. s.pc = "save" /\ s.row = new /\ s.next = "end" /\ new.id = drawn'
    BY DEF Saving
  <1> HIDE DEF s, new
  <1>6. /\ cmd'[c] \in {s, Idle} /\ Goto(c, cmd'[c])
        /\ \A d \in Commands \ {c} : cmd[d] = Idle /\ cmd'[d] = Idle
    BY <1>1, <1>2, Turn DEF OneAt
  <1>7. \A d \in Commands : ~Shows(cmd'[d]) /\ ~Decides(cmd[d])
    BY <1>1, <1>5, <1>6 DEF Shows, Upserts, Decides, Idle
  <1>8. chip'[x] = drawn' /\ \A y \in Chips \ {x} : chip'[y] = chip[y]
    BY <1>2 DEF IInv, ChipPart
  <1>9. oks[drawn'] = 0
    BY <1>2, <1>3 DEF OneAt, ChipsTrue, Tokens
  <1>10. ChipsTrue'
    <2>1. /\ \A y \in Chips : chip'[y] <= drawn'
          /\ \A t \in Tokens : t > drawn' => oks'[t] = 0
      BY <1>2, <1>3, <1>8 DEF OneAt, ChipsTrue, Tokens
    <2>2. \A d \in Commands : ShownBefore(d)' /\ TokenMoves(d)'
      BY <1>7 DEF ShownBefore, TokenMoves
    <2>3. "copy" \notin happened' =>
            /\ \A y, z \in Chips : chip'[y] # Null /\ chip'[z] # Null => y = z
            /\ \A y \in Chips : chip'[y] # Null => oks'[chip'[y]] = 0
      BY <1>2, <1>8, <1>9
    <2> QED
      BY <2>1, <2>2, <2>3 DEF ChipsTrue
  <1>11. Once'
    BY <1>2 DEF OneAt, Once, IInv, RestPart
  <1>12. ASSUME "overlap" \notin happened', Kept(k)
         PROVE  Stored(k)' /\ InHands(c, k)' /\ Blocking(k)' /\ (Trusted' => ~alarmed')
    <2>1. Trusted' => Trusted /\ drawn = 0 /\ MustKnow' \subseteq {drawn'}
      <3>1. ASSUME Trusted' PROVE Trusted /\ MustKnow' \subseteq {drawn'}
        <4>1. Trusted /\ "copy" \notin happened'
          BY <1>2, <3>1 DEF Trusted
        <4>2. \A y \in Chips : chip'[y] # Null => chip'[y] = drawn'
          BY <1>2, <1>8, <4>1
        <4> QED
          BY <4>1, <4>2 DEF MustKnow, Held
      <3>2. InHands(c, k)
        BY <1>12 DEF Kept
      <3>3. Trusted => drawn = 0
        BY <1>1, <3>2 DEF InHands
      <3> QED
        BY <3>1, <3>3
    <2>2. ~Trusted' => MustKnow' = {}
      BY DEF MustKnow
    <2>3. /\ outbox[k] \in Seq(Card) /\ pg \in MaybeCard /\ oks \in [Tokens -> Nat]
          /\ \A r \in {lite[k], Central(k)} : r # NoRow => r \in Card
      BY OnlyParts
    <2>4. Ascends(pg, outbox[k], drawn) /\ Ascends(pg, outbox[k], drawn')
      BY <1>3, <1>12, <2>3, AscendsLater DEF Kept, Stored
    <2>5. \A r \in Card : SoundAt(r, k) => Sound(r, pg, outbox[k], drawn', oks, MustKnow')
      <3> SUFFICES ASSUME NEW r \in Card, SoundAt(r, k)
                   PROVE  Sound(r, pg, outbox[k], drawn', oks, MustKnow')
        OBVIOUS
      <3>1. CASE Trusted'
        <4>1. r.id <= 0 /\ r.id \in Tokens
          BY <2>1, <3>1 DEF SoundAt, Sound, Card
        <4> QED
          BY <4>1, CardTokenAssumption DEF Tokens
      <3>2. CASE ~Trusted'
        BY <1>3, <2>2, <3>2, SoundLater DEF SoundAt
      <3> QED
        BY <3>1, <3>2
    <2>6. Central(k)' = Central(k)
      BY <1>2 DEF Central
    <2>7. Stored(k)'
      BY <1>2, <1>12, <2>3, <2>4, <2>5, <2>6 DEF Kept, Stored, SoundAt
    <2>8. Sound(new, pg, outbox[k], drawn + 1, oks, MustKnow')
      <3>1. \A t \in MustKnow' : Knows(new, t)
        BY <1>3, <1>4, <2>1, <2>2
      <3>2. \A t \in Tokens : Knows(new, t) => oks[t] = 0
        BY <1>4, <1>9
      <3> QED
        BY <1>2, <1>3, <1>4, <1>5, <2>3, <2>4, <3>1, <3>2, SoundNew
    <2>9. InHands(c, k)'
      <3>1. CASE cmd'[c] = Idle
        BY <3>1, IdleInHands
      <3>2. CASE cmd'[c] = s
        BY <1>2, <1>5, <1>7, <2>8, <3>2 DEF InHands, SoundAt, Rotates
      <3> QED
        BY <1>6, <3>1, <3>2
    <2>10. Blocking(k)'
      BY <1>2, <1>7, <1>12, <2>6 DEF Kept, Blocking
    <2> QED
      BY <1>2, <1>12, <2>1, <2>7, <2>9, <2>10 DEF Kept
  <1> QED
    BY <1>1, <1>2, <1>6, <1>10, <1>11, <1>12, StepKeepsOne

\* An upsert that goes on keeps the row and what follows.
LEMMA Upserting ==
    ASSUME IInv, NEW c \in Commands, Upserts(cmd[c]), NEW pc
    PROVE  /\ [cmd[c] EXCEPT !.pc = pc].pc = pc
           /\ [cmd[c] EXCEPT !.pc = pc].row = cmd[c].row
           /\ [cmd[c] EXCEPT !.pc = pc].next = cmd[c].next
           /\ [cmd[c] EXCEPT !.pc = pc].shown = cmd[c].shown
           /\ cmd[c].row \in Card /\ cmd[c].next \in {"write", "ok", "end"}
           /\ cmd[c] # Idle
  <1>1. /\ cmd[c] = [pc |-> cmd[c].pc, row |-> cmd[c].row, next |-> cmd[c].next,
                     shown |-> cmd[c].shown]
        /\ cmd[c].row \in Card /\ cmd[c].next \in {"write", "ok", "end"}
    BY CmdParts DEF IInv, Upserts
  <1>2. cmd[c] # Idle
    BY DEF Upserts, Idle
  <1> QED
    BY <1>1, <1>2

LEMMA SavesOne ==
    ASSUME IInv, IInv', NEW k \in Terminals, Only(k), OneAt(k), NEW c \in Commands, Saves(c)
    PROVE  OneAt(k)'
  <1> DEFINE row == cmd[c].row
             s == [cmd[c] EXCEPT !.pc = IF online[k] THEN "send" ELSE "queue"]
  <1>1. cmd[c].pc = "save" /\ cmd[c] # Idle /\ At(c) = k /\ Upserts(cmd[c])
    BY Works DEF Saves, Upserts
  <1>2. /\ UNCHANGED <<pg, outbox, job, online, chip, drawn, oks, alarmed, happened, verdict>>
        /\ \/ Goto(c, Idle) /\ UNCHANGED lite
           \/ Goto(c, s) /\ lite' = [lite EXCEPT ![k] = row]
    BY <1>1 DEF Saves, linkVars, history
  <1>3. /\ s.pc = (IF online[k] THEN "send" ELSE "queue") /\ s.row = row
        /\ s.next = cmd[c].next /\ s.shown = cmd[c].shown
        /\ row \in Card /\ s.next \in {"write", "ok", "end"}
    BY <1>1, Upserting
  <1> HIDE DEF s
  <1>4. /\ Goto(c, cmd'[c])
        /\ \/ cmd'[c] = Idle /\ lite'[k] = lite[k]
           \/ cmd'[c] = s /\ lite'[k] = row
        /\ \A d \in Commands \ {c} : cmd[d] = Idle /\ cmd'[d] = Idle
    BY <1>1, <1>2, Turn DEF OneAt, IInv, StorePart
  <1>5. Shows(s) => Shows(cmd[c])
    BY <1>1, <1>3 DEF Shows, Upserts
  <1>6. ChipsTrue'
    <2>1. \A d \in Commands : Shows(cmd'[d]) =>
            /\ Shows(cmd[d])
            /\ cmd'[d].next = cmd[d].next /\ cmd'[d].row = cmd[d].row /\ cmd'[d].shown = cmd[d].shown
      BY <1>3, <1>4, <1>5 DEF Shows, Upserts, Idle
    <2> QED
      BY <1>2, <2>1, OnlyParts, TokensStay DEF OneAt
  <1>7. Once'
    BY <1>2 DEF OneAt, Once
  <1>8. ASSUME "overlap" \notin happened', Kept(k)
        PROVE  Stored(k)' /\ InHands(c, k)' /\ Blocking(k)' /\ (Trusted' => ~alarmed')
    <2>1. SoundAt(row, k) /\ InHands(c, k) /\ (Shows(cmd[c]) => verdict # "blocked")
      BY <1>1, <1>8 DEF Kept, InHands, Rotates
    <2>2. Central(k)' = Central(k) /\ MustKnow' = MustKnow /\ (Trusted' <=> Trusted)
      BY <1>2 DEF Central, MustKnow, Trusted
    <2>3. Stored(k)'
      BY <1>2, <1>4, <1>8, <2>1, <2>2 DEF Kept, Stored, SoundAt
    <2>4. InHands(c, k)'
      <3>1. CASE cmd'[c] = Idle
        BY <3>1, IdleInHands
      <3>2. CASE cmd'[c] = s /\ lite'[k] = row
        BY <1>2, <1>3, <1>5, <2>1, <2>2, <3>2 DEF InHands, SoundAt, Rotates
      <3> QED
        BY <1>4, <3>1, <3>2
    <2>5. Blocking(k)'
      <3>1. CASE cmd'[c] = Idle /\ lite'[k] = lite[k]
        <4>1. \A d \in Commands : ~Decides(cmd[d])
          BY <1>1, <1>4 DEF Decides, Idle
        <4> QED
          BY <1>2, <1>8, <2>2, <3>1, <4>1 DEF Kept, Blocking
      <3>2. CASE cmd'[c] = s
        <4>1. Shows(cmd[c]) \/ Decides(cmd'[c])
          BY <1>1, <1>3, <3>2 DEF Shows, Decides
        <4> QED
          BY <1>2, <2>1, <4>1 DEF Blocking
      <3> QED
        BY <1>4, <3>1, <3>2
    <2> QED
      BY <1>2, <1>8, <2>2, <2>3, <2>4, <2>5 DEF Kept
  <1> QED
    BY <1>1, <1>2, <1>4, <1>6, <1>7, <1>8, StepKeepsOne

\* The upsert is done, and the row is the last one of the queue or the central one.
LEMMA ProceedsOne ==
    ASSUME IInv, IInv', NEW k \in Terminals, Only(k), OneAt(k), NEW c \in Commands, Proceeds(c),
           cmd[c].pc \in {"send", "queue"},
           UNCHANGED <<linkVars, lite, job, chip, drawn>>,
           "overlap" \notin happened => outbox'[k] = outbox[k] \/ ~online'[k],
           "overlap" \notin happened /\ Kept(k) =>
              /\ Central(k)' = cmd[c].row
              /\ Ascends(pg, outbox[k], drawn)'
              /\ Sound(cmd[c].row, pg', outbox'[k], drawn, oks, MustKnow)
    PROVE  OneAt(k)'
  <1> DEFINE row == cmd[c].row
             shown == cmd[c].shown
             s == [cmd[c] EXCEPT !.pc = "write"]
  <1>1. cmd[c] # Idle /\ Upserts(cmd[c]) /\ row \in Card
    BY Works, CmdParts DEF Upserts, IInv
  <1>2. /\ s.pc = "write" /\ s.row = row /\ s.next = cmd[c].next /\ s.shown = shown
        /\ cmd[c].next \in {"write", "ok", "end"}
    BY <1>1, Upserting
  <1>3. /\ UNCHANGED <<online, alarmed, happened>>
        /\ Goto(c, IF cmd[c].next = "write" THEN s ELSE Idle)
        /\ oks' = IF cmd[c].next = "ok" THEN [oks EXCEPT ![shown] = @ + 1] ELSE oks
        /\ verdict' = IF cmd[c].next = "end" THEN row.status ELSE verdict
    BY DEF Proceeds, linkVars
  <1> HIDE DEF s
  <1>4. /\ cmd'[c] = IF cmd[c].next = "write" THEN s ELSE Idle
        /\ \A d \in Commands \ {c} : cmd[d] = Idle /\ cmd'[d] = Idle
    BY <1>1, <1>3, Turn DEF OneAt
  <1>5. drawn \in Nat /\ drawn <= MaxTokens /\ oks \in [Tokens -> Nat] /\ MaxTokens \in Nat
    BY CardTokenAssumption DEF IInv, ChipPart, RestPart
  <1>6. Shows(cmd[c]) => shown \in Tokens /\ shown <= drawn
    BY <1>5 DEF OneAt, ChipsTrue, ShownBefore, Tokens
  <1>7. CASE cmd[c].next = "ok"
    <2>1. /\ Shows(cmd[c]) /\ shown \in Tokens /\ shown <= drawn
          /\ oks'[shown] = oks[shown] + 1 /\ oks[shown] \in Nat
          /\ \A t \in Tokens \ {shown} : oks'[t] = oks[t]
          /\ verdict' = verdict
      BY <1>1, <1>3, <1>5, <1>6, <1>7 DEF Shows
    <2>2. Goto(c, Idle) /\ cmd'[c] = Idle
      BY <1>3, <1>4, <1>7
    <2>3. "copy" \notin happened => oks[shown] = 0 /\ \A x \in Chips : chip[x] # shown
      BY <1>7, <2>1 DEF OneAt, ChipsTrue, TokenMoves
    <2>4. "overlap" \notin happened => oks[shown] = 0 /\ ~Knows(row, shown) /\ verdict # "blocked"
      BY <1>1, <1>7, <2>1 DEF OneAt, Kept, InHands, Rotates
    <2>5. ChipsTrue'
      <3>1. /\ \A x \in Chips : chip'[x] <= drawn'
            /\ \A t \in Tokens : t > drawn' => oks'[t] = 0
        BY <1>5, <2>1 DEF OneAt, ChipsTrue, Tokens
      <3>2. \A d \in Commands : ShownBefore(d)' /\ TokenMoves(d)'
        BY <1>4, <2>2, IdleInHands
      <3>3. \A x \in Chips : chip[x] # Null => chip[x] \in Tokens
        BY DEF IInv, ChipPart, MaybeToken
      <3>4. "copy" \notin happened' =>
              /\ \A x, y \in Chips : chip'[x] # Null /\ chip'[y] # Null => x = y
              /\ \A x \in Chips : chip'[x] # Null => oks'[chip'[x]] = 0
        BY <1>3, <2>1, <2>3, <3>3 DEF OneAt, ChipsTrue
      <3> QED
        BY <3>1, <3>2, <3>4 DEF ChipsTrue
    <2>6. Once'
      <3>1. happened # {"copy", "overlap"} => oks[shown] = 0
        BY <2>3, <2>4 DEF IInv, RestPart
      <3> QED
        BY <1>3, <2>1, <3>1 DEF OneAt, Once
    <2>7. ASSUME "overlap" \notin happened', Kept(k)
          PROVE  Stored(k)' /\ InHands(c, k)' /\ Blocking(k)' /\ (Trusted' => ~alarmed')
      <3>1. "overlap" \notin happened /\ oks' = [oks EXCEPT ![shown] = @ + 1]
        BY <1>3, <1>7, <2>7
      <3>2. /\ Central(k)' = row /\ Ascends(pg, outbox[k], drawn)' /\ lite'[k] = row
            /\ Sound(row, pg', outbox'[k], drawn, oks, MustKnow)
        BY <2>7, <3>1 DEF Kept, InHands
      <3>3. Sound(row, pg', outbox'[k], drawn, oks', MustKnow')
        <4>1. MustKnow' = MustKnow
          BY <1>3 DEF MustKnow, Trusted
        <4> QED
          BY <1>5, <2>1, <2>4, <3>1, <3>2, <4>1, SoundAnswered
      <3>4. Stored(k)'
        BY <3>2, <3>3 DEF Stored, SoundAt
      <3> QED
        BY <1>3, <2>1, <2>2, <2>4, <2>7, <3>1, <3>4, IdleInHands DEF Blocking, Kept, Trusted
    <2> QED
      BY <1>1, <1>3, <2>2, <2>5, <2>6, <2>7, StepKeepsOne
  <1>8. CASE cmd[c].next # "ok"
    <2>1. /\ UNCHANGED oks
          /\ \/ cmd'[c] = Idle /\ cmd[c].next = "end" /\ verdict' = row.status
             \/ cmd'[c] = s /\ Shows(cmd[c]) /\ cmd[c].next = "write" /\ verdict' = verdict
          /\ Goto(c, cmd'[c])
      BY <1>1, <1>2, <1>3, <1>4, <1>8 DEF Shows
    <2>2. ChipsTrue'
      <3>1. \A d \in Commands : Shows(cmd'[d]) =>
              /\ Shows(cmd[d])
              /\ cmd'[d].next = cmd[d].next /\ cmd'[d].row = cmd[d].row
              /\ cmd'[d].shown = cmd[d].shown
        BY <1>2, <1>4, <2>1 DEF Shows, Upserts, Idle
      <3> QED
        BY <1>3, <1>5, <2>1, <3>1, TokensStay DEF OneAt
    <2>3. Once'
      BY <1>3, <2>1 DEF OneAt, Once
    <2>4. ASSUME "overlap" \notin happened', Kept(k)
          PROVE  Stored(k)' /\ InHands(c, k)' /\ Blocking(k)' /\ (Trusted' => ~alarmed')
      <3>1. "overlap" \notin happened /\ MustKnow' = MustKnow /\ (Trusted' <=> Trusted)
        BY <1>3, <2>4 DEF MustKnow, Trusted
      <3>2. /\ Central(k)' = row /\ Ascends(pg, outbox[k], drawn)' /\ lite'[k] = row
            /\ Sound(row, pg', outbox'[k], drawn', oks', MustKnow')
        BY <2>1, <2>4, <3>1 DEF Kept, InHands
      <3>3. Stored(k)'
        BY <3>2 DEF Stored, SoundAt
      <3>4. Shows(cmd[c]) => verdict # "blocked" /\ oks[shown] = 0
        BY <2>4 DEF Kept, InHands, Rotates
      <3>5. InHands(c, k)' /\ Blocking(k)'
        <4>1. CASE cmd'[c] = Idle /\ verdict' = row.status
          BY <3>2, <4>1, IdleInHands DEF Blocking
        <4>2. CASE cmd'[c] = s /\ Shows(cmd[c]) /\ cmd[c].next = "write" /\ verdict' = verdict
          BY <1>2, <2>1, <3>2, <3>4, <4>2 DEF InHands, SoundAt, Blocking
        <4> QED
          BY <2>1, <4>1, <4>2
      <3> QED
        BY <1>3, <2>4, <3>1, <3>3, <3>5 DEF Kept
    <2> QED
      BY <1>1, <1>3, <2>1, <2>2, <2>3, <2>4, StepKeepsOne
  <1> QED
    BY <1>7, <1>8

LEMMA SendsOne ==
    ASSUME IInv, IInv', NEW k \in Terminals, Only(k), OneAt(k), NEW c \in Commands, Sends(c)
    PROVE  OneAt(k)'
  <1> DEFINE row == cmd[c].row
  <1>1. /\ cmd[c].pc = "send" /\ cmd[c] # Idle /\ row \in Card
        /\ pg' = row /\ Proceeds(c) /\ UNCHANGED <<linkVars, lite, outbox, job, chip, drawn>>
    BY Works, CmdParts DEF IInv, Sends
  <1>2. ASSUME Kept(k)
        PROVE  /\ Central(k)' = row
               /\ Ascends(pg, outbox[k], drawn)'
               /\ Sound(row, pg', outbox'[k], drawn, oks, MustKnow)
    <2>1. InHands(c, k) /\ Replaying(k)
      BY <1>2 DEF Kept
    <2>2. online[k] /\ SoundAt(row, k) /\ outbox[k] = <<>>
      BY <1>1, <2>1 DEF InHands, Replaying
    <2>3. Older(row, row)
      BY <1>1, CardNumbers DEF Older
    <2>4. Sound(row, row, outbox[k], drawn, oks, MustKnow)
      BY <2>2, <2>3, SoundOver DEF SoundAt
    <2>5. Ascends(row, <<>>, drawn)
      BY <2>4 DEF Ascends, Sound
    <2> QED
      BY <1>1, <2>2, <2>4, <2>5 DEF Central, LastOf
  <1> QED
    BY <1>1, <1>2, ProceedsOne

LEMMA QueuesOne ==
    ASSUME IInv, IInv', NEW k \in Terminals, Only(k), OneAt(k), NEW c \in Commands, Queues(c)
    PROVE  OneAt(k)'
  <1> DEFINE row == cmd[c].row
  <1>1. /\ cmd[c].pc = "queue" /\ cmd[c] # Idle /\ row \in Card /\ At(c) = k
        /\ Proceeds(c) /\ UNCHANGED <<linkVars, pg, lite, job, chip, drawn>>
    BY Works, CmdParts DEF IInv, Queues
  <1>2. outbox'[k] = Append(outbox[k], row) /\ outbox[k] \in Seq(Card)
    BY <1>1, OnlyParts DEF IInv, QueuePart, Queues
  <1>3. ASSUME Kept(k)
        PROVE  /\ Central(k)' = row
               /\ Ascends(pg, outbox[k], drawn)'
               /\ Sound(row, pg', outbox'[k], drawn, oks, MustKnow)
    <2>1. SoundAt(row, k) /\ Ascends(pg, outbox[k], drawn)
      BY <1>1, <1>3 DEF Kept, InHands, Stored
    <2>2. Older(row, row)
      BY <1>1, CardNumbers DEF Older
    <2>3. Sound(row, pg, Append(outbox[k], row), drawn, oks, MustKnow)
      BY <1>1, <1>2, <2>1, <2>2, SoundAppend DEF SoundAt
    <2>4. Ascends(pg, Append(outbox[k], row), drawn)
      BY <1>1, <1>2, <2>1, AscendsAppend DEF SoundAt
    <2>5. LastOf(pg, Append(outbox[k], row)) = row
      BY <1>1, <1>2, LastAppended
    <2> QED
      BY <1>1, <1>2, <2>3, <2>4, <2>5 DEF Central
  <1>4. ASSUME "overlap" \notin happened PROVE ~online'[k]
    BY <1>1, <1>4 DEF OneAt, Kept, InHands, linkVars
  <1> QED
    BY <1>1, <1>3, <1>4, ProceedsOne

LEMMA SendFailsOne ==
    ASSUME IInv, IInv', NEW k \in Terminals, Only(k), OneAt(k), NEW c \in Commands, SendFails(c)
    PROVE  OneAt(k)'
  <1> DEFINE row == cmd[c].row
             s == [cmd[c] EXCEPT !.pc = "queue"]
  <1>1. cmd[c].pc = "send" /\ cmd[c] # Idle /\ At(c) = k /\ Upserts(cmd[c])
    BY Works DEF SendFails, Upserts
  <1>2. /\ UNCHANGED <<lite, outbox, job, chip, drawn, oks, alarmed, happened, verdict>>
        /\ Goto(c, s)
        /\ online' = [online EXCEPT ![k] = FALSE]
        /\ pg' = pg \/ pg' = row
    BY <1>1 DEF SendFails, Loses, Refused, history
  <1>3. ~online'[k]
    BY <1>2 DEF IInv, RestPart
  <1>4. /\ s.pc = "queue" /\ s.row = row /\ s.next = cmd[c].next /\ s.shown = cmd[c].shown
        /\ row \in Card /\ s.next \in {"write", "ok", "end"}
    BY <1>1, Upserting
  <1> HIDE DEF s
  <1>5. cmd'[c] = s /\ \A d \in Commands \ {c} : cmd[d] = Idle /\ cmd'[d] = Idle
    BY <1>1, <1>2, Turn DEF OneAt
  <1>6. Shows(s) <=> Shows(cmd[c])
    BY <1>1, <1>4 DEF Shows, Upserts
  <1>7. ChipsTrue'
    <2>1. \A d \in Commands : Shows(cmd'[d]) =>
            /\ Shows(cmd[d])
            /\ cmd'[d].next = cmd[d].next /\ cmd'[d].row = cmd[d].row /\ cmd'[d].shown = cmd[d].shown
      BY <1>4, <1>5, <1>6 DEF Shows, Upserts, Idle
    <2> QED
      BY <1>2, <2>1, OnlyParts, TokensStay DEF OneAt
  <1>8. Once'
    BY <1>2 DEF OneAt, Once
  <1>9. ASSUME "overlap" \notin happened', Kept(k)
        PROVE  Stored(k)' /\ InHands(c, k)' /\ Blocking(k)' /\ (Trusted' => ~alarmed')
    <2>1. /\ InHands(c, k) /\ SoundAt(row, k) /\ row = lite[k] /\ outbox[k] = <<>>
          /\ Shows(cmd[c]) => verdict # "blocked" /\ oks[cmd[c].shown] = 0
      BY <1>1, <1>9 DEF Kept, InHands, Rotates, Replaying
    <2>2. MustKnow' = MustKnow /\ (Trusted' <=> Trusted)
      BY <1>2 DEF MustKnow, Trusted
    <2>3. Older(row, row)
      BY <1>4, CardNumbers DEF Older
    <2>4. Sound(row, pg', outbox[k], drawn, oks, MustKnow)
      BY <1>2, <2>1, <2>3, SoundOver DEF SoundAt
    <2>5. Stored(k)'
      <3>1. Ascends(pg', outbox[k], drawn)
        BY <1>2, <1>9, <2>1 DEF Kept, Stored, Ascends, SoundAt, Sound
      <3>2. pg' # NoRow => Sound(pg', pg', outbox[k], drawn, oks, MustKnow)
        <4>1. CASE pg' = row
          BY <2>4, <4>1
        <4>2. CASE pg' = pg
          BY <1>9, <2>1, <4>2 DEF Kept, Stored, SoundAt, Central, LastOf
        <4> QED
          BY <1>2, <4>1, <4>2
      <3> QED
        BY <1>2, <2>1, <2>2, <2>4, <3>1, <3>2 DEF Stored, SoundAt, Central, LastOf
    <2>6. InHands(c, k)'
      BY <1>2, <1>3, <1>4, <1>5, <1>6, <2>1, <2>2, <2>4 DEF InHands, SoundAt, Rotates
    <2>7. Blocking(k)'
      <3>1. Shows(cmd[c]) \/ Decides(cmd'[c])
        BY <1>1, <1>4, <1>5 DEF Shows, Decides
      <3> QED
        BY <1>2, <2>1, <3>1 DEF Blocking
    <2> QED
      BY <1>2, <1>9, <2>2, <2>5, <2>6, <2>7 DEF Kept
  <1> QED
    BY <1>1, <1>2, <1>3, <1>7, <1>8, <1>9, StepKeepsOne

-----------------------------------------------------------------------------
(* The steps of a replay.                                                   *)

LEMMA JobKeepsOne ==
    ASSUME IInv, IInv', NEW k \in Terminals, Only(k), OneAt(k), job[k] # NoJob,
           UNCHANGED <<cmd, chip, drawn, oks, happened>>,
           "overlap" \notin happened /\ Kept(k) /\ (\A c \in Commands : cmd[c] = Idle) =>
              Replaying(k)' /\ Stored(k)' /\ Blocking(k)' /\ (Trusted' => ~alarmed')
    PROVE  OneAt(k)'
  <1>1. drawn <= drawn'
    BY OnlyParts
  <1>2. ChipsTrue'
    BY <1>1, TokensStay DEF OneAt
  <1>3. ASSUME "overlap" \notin happened' PROVE Kept(k)'
    <2>1. "overlap" \notin happened /\ Kept(k)
      BY <1>3 DEF OneAt
    <2>2. \A c \in Commands : cmd[c] = Idle
      BY <2>1 DEF Kept, Replaying
    <2>3. \A c \in Commands : InHands(c, k)'
      BY <2>2, IdleInHands
    <2> QED
      BY <2>1, <2>2, <2>3 DEF Kept
  <1> QED
    BY <1>2, <1>3 DEF OneAt, OneCommand, Once

\* The replay writes nothing, or the first row of the queue over the central row.
LEMMA ReplayStores ==
    ASSUME IInv, NEW k \in Terminals, Stored(k), Blocking(k), UNCHANGED <<cmd, chip, drawn, oks, happened>>,
           UNCHANGED <<lite, outbox, verdict>>,
           pg' = pg \/ (outbox[k] # <<>> /\ pg' = Head(outbox[k]))
    PROVE  Stored(k)' /\ Blocking(k)'
  <1>1. MustKnow' = MustKnow
    BY DEF MustKnow, Trusted
  <1>2. CASE pg' = pg
    BY <1>1, <1>2 DEF Stored, Blocking, SoundAt, Central
  <1>3. CASE outbox[k] # <<>> /\ pg' = Head(outbox[k])
    <2> DEFINE q == outbox[k]
    <2>1. q \in Seq(Card) /\ q # <<>> /\ Ascends(pg, q, drawn)
      BY <1>3, OnlyParts DEF Stored
    <2>2. /\ Ascends(Head(q), q, drawn)
          /\ \A r, answered, held :
               Sound(r, pg, q, drawn, answered, held) => Sound(r, Head(q), q, drawn, answered, held)
      BY <2>1, AscendsOver
    <2>3. Central(k)' = Central(k)
      BY <2>1, LastStays DEF Central
    <2> QED
      BY <1>1, <1>3, <2>2, <2>3 DEF Stored, Blocking, SoundAt
  <1> QED
    BY <1>2, <1>3

\* The row that a replay has in hand.
LEMMA RowInHand ==
    ASSUME IInv, NEW k \in Terminals, Replaying(k),
           job[k].pc \in {"write", "mark"} \/ (job[k].pc = "replay" /\ job[k].left > 0)
    PROVE  outbox[k] # <<>> /\ (job[k].pc # "replay" => job[k].row = Head(outbox[k]))
  <1>1. job[k].left > 0 /\ job[k].left \in Nat /\ job[k].left <= Len(outbox[k])
        /\ outbox[k] \in Seq(Card)
    BY JobParts DEF IInv
  <1> QED
    BY <1>1 DEF Replaying

LEMMA SyncBeginsOne ==
    ASSUME IInv, IInv', NEW k \in Terminals, Only(k), OneAt(k), SyncBegins(k)
    PROVE  OneAt(k)'
  <1>1. /\ job[k] # NoJob
        /\ UNCHANGED <<online, pg, lite, outbox, chip, cmd, drawn, oks, alarmed, happened, verdict>>
        /\ IF online[k] THEN JobGoes(k, [pc |-> "replay", left |-> Len(outbox[k])])
                        ELSE JobGoes(k, NoJob)
    BY DEF SyncBegins, JobEnds, NoJob, history
  <1>2. job'[k] = IF online[k] THEN [pc |-> "replay", left |-> Len(outbox[k])] ELSE NoJob
    BY <1>1 DEF IInv, QueuePart, JobGoes
  <1>3. ASSUME Kept(k), \A c \in Commands : cmd[c] = Idle
        PROVE  Replaying(k)' /\ Stored(k)' /\ Blocking(k)' /\ (Trusted' => ~alarmed')
    <2>1. Stored(k)' /\ Blocking(k)'
      BY <1>1, <1>3, ReplayStores DEF Kept
    <2>2. Replaying(k)'
      BY <1>1, <1>2, <1>3 DEF Replaying, NoJob
    <2> QED
      BY <1>1, <1>3, <2>1, <2>2 DEF Kept, Trusted
  <1> QED
    BY <1>1, <1>3, JobKeepsOne

LEMMA SyncComparesOne ==
    ASSUME IInv, IInv', NEW k \in Terminals, Only(k), OneAt(k), SyncCompares(k)
    PROVE  OneAt(k)'
  <1> DEFINE hand == [pc |-> "write", left |-> job[k].left, row |-> InHand(k)]
  <1>1. /\ job[k] # NoJob /\ job[k].pc = "replay" /\ job[k].left > 0
        /\ UNCHANGED <<online, pg, lite, outbox, chip, cmd, drawn, oks, happened, verdict>>
        /\ ~CentralIsNewer(InHand(k)) => JobGoes(k, hand) /\ UNCHANGED alarmed
    BY DEF SyncCompares, NoJob, linkVars
  <1>2. ASSUME Kept(k), \A c \in Commands : cmd[c] = Idle
        PROVE  Replaying(k)' /\ Stored(k)' /\ Blocking(k)' /\ (Trusted' => ~alarmed')
    <2>1. outbox[k] # <<>> /\ outbox[k] \in Seq(Card)
      BY <1>1, <1>2, RowInHand, OnlyParts DEF Kept
    <2>2. ~CentralIsNewer(InHand(k))
      <3>1. Head(outbox[k]) \in Card /\ Ascends(Head(outbox[k]), outbox[k], drawn)
        BY <1>2, <2>1, AscendsOver DEF Kept, Stored
      <3>2. pg # NoRow => Older(pg, Head(outbox[k])) /\ pg \in Card
        <4>1. 1 \in 1..Len(outbox[k]) /\ Head(outbox[k]) = outbox[k][1]
          BY <2>1, EmptySeq
        <4> QED
          BY <1>2, <4>1, OnlyParts DEF Kept, Stored, Ascends
      <3> QED
        BY <3>1, <3>2, CardNumbers DEF CentralIsNewer, InHand, Older
    <2>3. job'[k] = hand
      BY <1>1, <2>2 DEF IInv, QueuePart, JobGoes
    <2>4. hand.pc = "write" /\ hand.left = job[k].left /\ hand.row = Head(outbox[k])
      BY DEF InHand
    <2> HIDE DEF hand
    <2>5. Replaying(k)'
      BY <1>1, <1>2, <2>3, <2>4 DEF Kept, Replaying, NoJob
    <2>6. Stored(k)' /\ Blocking(k)'
      BY <1>1, <1>2, ReplayStores DEF Kept
    <2> QED
      BY <1>1, <1>2, <2>2, <2>5, <2>6 DEF Kept, Trusted
  <1> QED
    BY <1>1, <1>2, JobKeepsOne

LEMMA SyncWritesOne ==
    ASSUME IInv, IInv', NEW k \in Terminals, Only(k), OneAt(k), SyncWrites(k)
    PROVE  OneAt(k)'
  <1> DEFINE hand == [job[k] EXCEPT !.pc = "mark"]
  <1>1. /\ job[k] # NoJob /\ job[k].pc \in {"write", "force"}
        /\ UNCHANGED <<online, lite, outbox, chip, cmd, drawn, oks, alarmed, happened>>
        /\ pg' = job[k].row
        /\ job[k].pc = "write" => JobGoes(k, hand) /\ UNCHANGED verdict
    BY DEF SyncWrites, NoJob, linkVars
  <1>2. ASSUME Kept(k), \A c \in Commands : cmd[c] = Idle
        PROVE  Replaying(k)' /\ Stored(k)' /\ Blocking(k)' /\ (Trusted' => ~alarmed')
    <2>1. job[k].pc = "write" /\ Replaying(k)
      BY <1>1, <1>2 DEF Kept, Replaying
    <2>2. outbox[k] # <<>> /\ job[k].row = Head(outbox[k])
      BY <2>1, RowInHand
    <2>3. hand.pc = "mark" /\ hand.left = job[k].left /\ hand.row = job[k].row
      BY <2>1, JobParts DEF IInv
    <2>4. job'[k] = hand
      BY <1>1, <2>1 DEF IInv, QueuePart, JobGoes
    <2> HIDE DEF hand
    <2>5. Replaying(k)'
      BY <1>1, <1>2, <2>1, <2>2, <2>3, <2>4 DEF Replaying, NoJob
    <2>6. Stored(k)' /\ Blocking(k)'
      BY <1>1, <1>2, <2>1, <2>2, ReplayStores DEF Kept
    <2> QED
      BY <1>1, <1>2, <2>5, <2>6 DEF Kept, Trusted
  <1> QED
    BY <1>1, <1>2, JobKeepsOne

LEMMA SyncMirrorsOne ==
    ASSUME IInv, IInv', NEW k \in Terminals, Only(k), OneAt(k), SyncMirrors(k)
    PROVE  OneAt(k)'
  <1>1. /\ job[k] # NoJob /\ job[k].pc = "mirror"
        /\ UNCHANGED <<cmd, chip, drawn, oks, happened>>
    BY DEF SyncMirrors, NoJob, history
  <1>2. ~Kept(k)
    BY <1>1 DEF Kept, Replaying
  <1> QED
    BY <1>1, <1>2, JobKeepsOne

LEMMA SyncMarksOne ==
    ASSUME IInv, IInv', NEW k \in Terminals, Only(k), OneAt(k), SyncMarks(k)
    PROVE  OneAt(k)'
  <1> DEFINE q == outbox[k]
             next == [pc |-> "replay", left |-> job[k].left - 1]
  <1>1. /\ job[k] # NoJob /\ job[k].pc = "mark"
        /\ UNCHANGED <<online, pg, lite, chip, cmd, drawn, oks, alarmed, happened, verdict>>
        /\ job'[k] = next /\ outbox'[k] = Tail(q)
    BY DEF SyncMarks, NoJob, linkVars, history, JobGoes, IInv, QueuePart
  <1>2. ASSUME Kept(k), \A c \in Commands : cmd[c] = Idle
        PROVE  Replaying(k)' /\ Stored(k)' /\ Blocking(k)' /\ (Trusted' => ~alarmed')
    <2>1. q # <<>> /\ pg = Head(q) /\ q \in Seq(Card) /\ job[k].left = Len(q)
      BY <1>1, <1>2, RowInHand, OnlyParts DEF Kept, Replaying
    <2>2. Len(Tail(q)) = Len(q) - 1
      BY <2>1, HeadTailProperties
    <2>3. Replaying(k)'
      BY <1>1, <1>2, <2>1, <2>2 DEF Replaying, NoJob
    <2>4. Central(k)' = Central(k)
      BY <1>1, <2>1, LastStays DEF Central
    <2>5. MustKnow' = MustKnow
      BY <1>1 DEF MustKnow, Trusted
    <2>6. Ascends(pg, Tail(q), drawn)
      BY <1>2, <2>1, AscendsTail DEF Kept, Stored
    <2>7. \A r \in Card : SoundAt(r, k) => Sound(r, pg, Tail(q), drawn, oks, MustKnow)
      BY <2>1, SoundTail DEF SoundAt
    <2>8. /\ lite[k] # NoRow => lite[k] \in Card
          /\ Central(k) # NoRow => Central(k) \in Card
      BY OnlyParts
    <2>9. Stored(k)'
      BY <1>1, <1>2, <2>4, <2>5, <2>6, <2>7, <2>8 DEF Kept, Stored, SoundAt
    <2>10. Blocking(k)'
      BY <1>1, <1>2, <2>4 DEF Kept, Blocking
    <2> QED
      BY <1>1, <1>2, <2>3, <2>9, <2>10 DEF Kept, Trusted
  <1> QED
    BY <1>1, <1>2, JobKeepsOne

LEMMA SyncFailsOne ==
    ASSUME IInv, IInv', NEW k \in Terminals, Only(k), OneAt(k), SyncFails(k)
    PROVE  OneAt(k)'
  <1>1. /\ job[k] # NoJob /\ job[k].pc \in {"replay", "write", "force", "mirror"}
        /\ UNCHANGED <<lite, outbox, chip, cmd, drawn, oks, alarmed, happened, verdict>>
        /\ ~online'[k] /\ job'[k] = NoJob
        /\ pg' # pg => job[k].pc \in {"write", "force"} /\ pg' = job[k].row
    BY DEF SyncFails, Loses, Refused, JobEnds, JobGoes, NoJob, history, IInv, QueuePart, RestPart
  <1>2. ASSUME Kept(k), \A c \in Commands : cmd[c] = Idle
        PROVE  Replaying(k)' /\ Stored(k)' /\ Blocking(k)' /\ (Trusted' => ~alarmed')
    <2>1. Replaying(k)'
      BY <1>1 DEF Replaying, NoJob
    <2>2. pg' # pg => outbox[k] # <<>> /\ pg' = Head(outbox[k])
      <3>1. job[k].pc \notin {"force", "mirror"}
        BY <1>2 DEF Kept, Replaying
      <3> QED
        BY <1>1, <1>2, <3>1, RowInHand DEF Kept
    <2>3. Stored(k)' /\ Blocking(k)'
      BY <1>1, <1>2, <2>2, ReplayStores DEF Kept
    <2> QED
      BY <1>1, <1>2, <2>1, <2>3 DEF Kept, Trusted
  <1> QED
    BY <1>1, <1>2, JobKeepsOne

LEMMA SyncEndsOne ==
    ASSUME IInv, IInv', NEW k \in Terminals, Only(k), OneAt(k), SyncEnds(k)
    PROVE  OneAt(k)'
  <1>1. /\ job[k] # NoJob /\ job[k].pc = "replay" /\ job[k].left = 0
        /\ UNCHANGED <<online, pg, lite, outbox, chip, cmd, drawn, oks, alarmed, happened, verdict>>
        /\ job'[k] = NoJob
    BY DEF SyncEnds, JobEnds, JobGoes, NoJob, history, IInv, QueuePart
  <1>2. ASSUME Kept(k), \A c \in Commands : cmd[c] = Idle
        PROVE  Replaying(k)' /\ Stored(k)' /\ Blocking(k)' /\ (Trusted' => ~alarmed')
    <2>1. outbox[k] = <<>>
      BY <1>1, <1>2, OnlyParts, EmptySeq DEF Kept, Replaying
    <2>2. Replaying(k)'
      BY <1>1, <2>1 DEF Replaying, NoJob
    <2>3. Stored(k)' /\ Blocking(k)'
      BY <1>1, <1>2, ReplayStores DEF Kept
    <2> QED
      BY <1>1, <1>2, <2>2, <2>3 DEF Kept, Trusted
  <1> QED
    BY <1>1, <1>2, JobKeepsOne

-----------------------------------------------------------------------------
(* The watch loop, the process, PostgreSQL and the chips.                  *)

\* What is around the database changes; commands go on or end.
LEMMA OutsideKeepsOne ==
    ASSUME IInv, IInv', NEW k \in Terminals, Only(k), OneAt(k),
           UNCHANGED <<pg, lite, outbox, chip, drawn, oks, alarmed>>, happened \subseteq happened',
           cmd' = cmd \/ \A c \in Commands : cmd'[c] = Idle,
           verdict' = verdict \/ verdict' = "unsure",
           (\E c \in Commands : Decides(cmd[c])) =>
              (\E c \in Commands : Decides(cmd'[c])) \/ verdict' = "unsure",
           "overlap" \notin happened' /\ Kept(k) =>
              /\ Replaying(k)'
              /\ online'[k] = online[k] \/ \A c \in Commands : cmd'[c] = Idle
    PROVE  OneAt(k)'
  <1>1. OneCommand'
    BY DEF OneAt, OneCommand
  <1>2. drawn <= drawn' /\ drawn' \in Nat
    BY OnlyParts
  <1>3. ChipsTrue'
    <2>1. \A c \in Commands : Shows(cmd'[c]) =>
            /\ Shows(cmd[c])
            /\ cmd'[c].next = cmd[c].next /\ cmd'[c].row = cmd[c].row /\ cmd'[c].shown = cmd[c].shown
      BY DEF Shows, Upserts, Idle
    <2> QED
      BY <1>2, <2>1, TokensStay DEF OneAt
  <1>4. Once'
    BY DEF OneAt, Once, IInv, RestPart
  <1>5. ASSUME "overlap" \notin happened' PROVE Kept(k)'
    <2>1. Kept(k) /\ "overlap" \notin happened
      BY <1>5 DEF OneAt
    <2>2. (Trusted' => Trusted) /\ MustKnow' \subseteq MustKnow
      BY DEF MustKnow, Trusted
    <2>3. /\ Stored(k)'
          /\ \A r \in Card : SoundAt(r, k) => Sound(r, pg', outbox'[k], drawn', oks', MustKnow')
      BY <1>2, <2>1, <2>2, StoredStays DEF Kept
    <2>4. Central(k)' = Central(k)
      BY DEF Central
    <2>5. ASSUME NEW c \in Commands PROVE InHands(c, k)'
      <3>1. CASE cmd'[c] = Idle
        BY <3>1, IdleInHands
      <3>2. CASE cmd'[c] = cmd[c] /\ online'[k] = online[k]
        <4>1. InHands(c, k)
          BY <2>1 DEF Kept
        <4>2. cmd[c].pc \in {"mirror", "read", "save", "send", "queue", "write"} => cmd[c].row \in Card
          BY CmdParts DEF IInv
        <4>3. cmd[c].pc \in {"mirror", "read", "save", "send", "queue", "write"} =>
                Sound(cmd[c].row, pg', outbox'[k], drawn', oks', MustKnow')
          BY <2>3, <4>1, <4>2 DEF InHands
        <4> QED
          BY <2>2, <2>4, <3>2, <4>1, <4>3 DEF InHands, SoundAt
      <3> QED
        BY <1>5, <2>1, <3>1, <3>2
    <2>6. Blocking(k)'
      BY <2>1, <2>4 DEF Kept, Blocking
    <2> QED
      BY <1>5, <2>1, <2>2, <2>3, <2>5, <2>6 DEF Kept
  <1> QED
    BY <1>1, <1>3, <1>4, <1>5 DEF OneAt

LEMMA WatchesOne ==
    ASSUME IInv, IInv', NEW k \in Terminals, Only(k), OneAt(k), Watches(k)
    PROVE  OneAt(k)'
  <1>1. /\ UNCHANGED <<pg, lite, outbox, chip, drawn, oks, alarmed, cmd, verdict>>
        /\ happened \subseteq happened'
        /\ "overlap" \notin happened' => \A c \in Commands : cmd[c] = Idle
    BY DEF Watches, Overlaps, started
  <1>2. online'[k] = reach[k] /\ (reach[k] => job'[k] = [pc |-> "begin"])
    BY DEF Watches, JobGoes, IInv, QueuePart, RestPart
  <1>3. ASSUME "overlap" \notin happened', Kept(k) PROVE Replaying(k)'
    <2>1. CASE reach[k]
      BY <1>1, <1>2, <1>3, <2>1 DEF Replaying, NoJob
    <2>2. CASE ~reach[k]
      BY <1>1, <1>2, <1>3, <2>2 DEF Kept, Replaying, Watches
    <2> QED
      BY <2>1, <2>2
  <1> QED
    BY <1>1, <1>3, OutsideKeepsOne

LEMMA ReachChangesOne ==
    ASSUME IInv, IInv', NEW k \in Terminals, Only(k), OneAt(k), ReachChanges(k)
    PROVE  OneAt(k)'
  <1>1. /\ UNCHANGED <<pg, lite, outbox, chip, drawn, oks, alarmed, cmd, verdict, happened>>
        /\ UNCHANGED <<online, job>>
    BY DEF ReachChanges, history
  <1>2. Kept(k) => Replaying(k)'
    BY <1>1 DEF Kept, Replaying
  <1> QED
    BY <1>1, <1>2, OutsideKeepsOne

LEMMA RestartsOne ==
    ASSUME IInv, IInv', NEW k \in Terminals, Only(k), OneAt(k), Restarts(k)
    PROVE  OneAt(k)'
  <1>1. /\ UNCHANGED <<pg, lite, outbox, chip, drawn, oks, alarmed, happened>>
        /\ verdict' = verdict \/ verdict' = "unsure"
    BY DEF Restarts
  <1>2. \A c \in Commands : At(c) = k /\ cmd'[c] = Idle
    BY DEF Restarts, At, Commands, Only
  <1>3. (\E c \in Commands : Decides(cmd[c])) => verdict' = "unsure"
    BY <1>2 DEF Restarts, Decides
  <1>4. job'[k] = [pc |-> "begin"]
    BY DEF Restarts, JobGoes, IInv, QueuePart
  <1>5. Replaying(k)'
    BY <1>2, <1>4 DEF Replaying, NoJob
  <1> QED
    BY <1>1, <1>2, <1>3, <1>5, OutsideKeepsOne

LEMMA CopyChipOne ==
    ASSUME IInv, IInv', NEW k \in Terminals, Only(k), OneAt(k), NEW x \in Chips, NEW y \in Chips,
           CopyChip(x, y)
    PROVE  OneAt(k)'
  <1>1. /\ UNCHANGED <<online, pg, lite, outbox, job, cmd, drawn, oks, alarmed, verdict>>
        /\ happened' = happened \cup {"copy"}
        /\ chip' = [chip EXCEPT ![y] = chip[x]]
    BY DEF CopyChip, linkVars
  <1>2. \A z \in Chips : chip'[z] \in {chip[z], chip[x]}
    BY <1>1 DEF IInv, ChipPart
  <1>3. ChipsTrue'
    BY <1>1, <1>2 DEF OneAt, ChipsTrue, ShownBefore
  <1>4. OneCommand' /\ Once'
    BY <1>1 DEF OneAt, OneCommand, Once, IInv, RestPart
  <1>5. ASSUME "overlap" \notin happened' PROVE Kept(k)'
    <2>1. Kept(k) /\ ~Trusted'
      BY <1>1, <1>5 DEF OneAt, Trusted
    <2>2. MustKnow' \subseteq MustKnow /\ drawn' \in Nat /\ drawn <= drawn'
      BY <1>1, <2>1, OnlyParts DEF MustKnow
    <2>3. /\ Stored(k)'
          /\ \A r \in Card : SoundAt(r, k) => Sound(r, pg', outbox'[k], drawn', oks', MustKnow')
      BY <1>1, <2>1, <2>2, StoredStays DEF Kept
    <2>4. Central(k)' = Central(k)
      BY <1>1 DEF Central
    <2>5. ASSUME NEW c \in Commands PROVE InHands(c, k)'
      <3>1. InHands(c, k)
        BY <2>1 DEF Kept
      <3>2. cmd[c].pc \in {"mirror", "read", "save", "send", "queue", "write"} => cmd[c].row \in Card
        BY CmdParts DEF IInv
      <3>3. cmd[c].pc \in {"mirror", "read", "save", "send", "queue", "write"} =>
              Sound(cmd[c].row, pg', outbox'[k], drawn', oks', MustKnow')
        BY <2>3, <3>1, <3>2 DEF InHands
      <3> QED
        BY <1>1, <2>1, <2>4, <3>1, <3>3 DEF InHands, SoundAt
    <2> QED
      BY <1>1, <2>1, <2>3, <2>4, <2>5 DEF Kept, Replaying, Blocking
  <1> QED
    BY <1>3, <1>4, <1>5 DEF OneAt

-----------------------------------------------------------------------------
(* The theorems about the only terminal.                                    *)

LEMMA InitialOne == Init => OneInv
  <1> SUFFICES ASSUME Init, NEW k \in Terminals, Only(k) PROVE OneAt(k)
    BY DEF OneInv
  <1> USE DEF Init
  <1>1. /\ pg = NoRow /\ lite[k] = NoRow /\ outbox[k] = <<>> /\ job[k] = [pc |-> "begin"]
        /\ \A c \in Commands : cmd[c] = Idle
        /\ \A x \in Chips : chip[x] = 0
        /\ \A t \in Tokens : oks[t] = 0
    BY DEF Null
  <1>2. OneCommand /\ Once
    BY <1>1 DEF OneCommand, Once
  <1>3. ChipsTrue
    BY <1>1 DEF ChipsTrue, ShownBefore, TokenMoves, Shows, Upserts, Idle, Null
  <1>4. Replaying(k)
    BY <1>1 DEF Replaying, NoJob
  <1>5. Stored(k) /\ Blocking(k)
    BY <1>1 DEF Stored, Blocking, Central, LastOf, Ascends
  <1>6. \A c \in Commands : InHands(c, k)
    BY <1>1 DEF InHands, Shows, Rotates, Upserts, Idle
  <1> QED
    BY <1>2, <1>3, <1>4, <1>5, <1>6 DEF OneAt, Kept

LEMMA StutterOne ==
    ASSUME IInv, IInv', NEW k \in Terminals, Only(k), OneAt(k), UNCHANGED vars
    PROVE  OneAt(k)'
  <1>1. /\ UNCHANGED <<pg, lite, outbox, chip, drawn, oks, alarmed, cmd, verdict, happened>>
        /\ UNCHANGED <<online, job>>
    BY DEF vars, linkVars, history
  <1>2. Kept(k) => Replaying(k)'
    BY <1>1 DEF Kept, Replaying
  <1> QED
    BY <1>1, <1>2, OutsideKeepsOne

LEMMA InductiveOne == Spec => []OneInv
  <1>1. IInv /\ IInv' /\ OneInv /\ [Next]_vars => OneInv'
    <2> SUFFICES ASSUME IInv, IInv', [Next]_vars, NEW k \in Terminals, Only(k), OneAt(k)
                 PROVE  OneAt(k)'
      BY DEF OneInv
    <2>1. ASSUME NEW c \in Commands, CommandStarts(c) PROVE OneAt(k)'
      BY <2>1, TapStartsOne, ProvisionStartsOne, AdminStartsOne, UnprovisionStartsOne
      DEF CommandStarts
    <2>2. ASSUME NEW c \in Commands, CommandStep(c) PROVE OneAt(k)'
      BY <2>2, MirrorsOne, TapReadsOne, TapWritesOne, FormatsOne, WipesOne, CardMissingOne,
         DropsOne, PurgesOne, SavesOne, SendsOne, SendFailsOne, QueuesOne
      DEF CommandStep
    <2>3. \A l \in Terminals : l = k
      BY DEF Only
    <2>4. ASSUME NEW l \in Terminals, SyncStep(l) PROVE OneAt(k)'
      BY <2>3, <2>4, SyncBeginsOne, SyncComparesOne, SyncWritesOne, SyncMirrorsOne, SyncMarksOne,
         SyncFailsOne, SyncEndsOne
      DEF SyncStep
    <2>5. ASSUME NEW l \in Terminals, Watches(l) \/ ReachChanges(l) \/ Restarts(l) PROVE OneAt(k)'
      BY <2>3, <2>5, WatchesOne, ReachChangesOne, RestartsOne
    <2> QED
      BY <2>1, <2>2, <2>4, <2>5, CopyChipOne, StutterOne DEF Next
  <1> QED
    BY InitialOne, Inductive, <1>1, PTL DEF Spec

LEMMA TheOnly == OneByOne => \E k \in Terminals : Only(k)
  BY DEF OneByOne, Only

\* "A stale token means a clone diverged" (flows.rs): on the only terminal, whatever the
\* failures, crashes and outages in the middle of earlier rotations, neither a tap nor
\* a replay blocks a card that was not copied.
THEOREM NeverAFalseAlarm == Spec => []NoFalseAlarm
  <1>1. OneInv => NoFalseAlarm
    BY TheOnly DEF OneInv, OneAt, Kept, Trusted, NoFalseAlarm
  <1> QED
    BY <1>1, InductiveOne, PTL

\* "A token validates exactly once even if any single step fails" (tap): on the only
\* terminal no token is answered Ok twice, neither by a copy of the chip nor when a
\* command overlaps a replay, unless both happen.
THEOREM TokenValidatesOnce == Spec => []ValidatesOnce
  <1>1. OneInv => ValidatesOnce
    BY TheOnly DEF OneInv, OneAt, Once, ValidatesOnce
  <1> QED
    BY <1>1, InductiveOne, PTL

\* A card that was blocked stays blocked: on the only terminal, once everything under way
\* and queued is over, the central row is blocked unless it was unblocked, whatever was
\* lost, crashed or copied, as long as no command overlapped a replay.
THEOREM BlockedStaysBlocked == Spec => []BlockHolds
  <1>1. ASSUME OneInv PROVE BlockHolds
    <2> SUFFICES ASSUME OneByOne, "overlap" \notin happened, Settled, verdict = "blocked", pg # NoRow
                 PROVE  pg.status = "blocked"
      BY DEF BlockHolds, BlockLasts
    <2>1. PICK k \in Terminals : Only(k)
      BY TheOnly
    <2>2. Blocking(k)
      BY <1>1, <2>1 DEF OneInv, OneAt, Kept
    <2>3. Central(k) = pg
      BY DEF Settled, Central, LastOf
    <2>4. \A c \in Commands : ~Decides(cmd[c])
      BY DEF Settled, Decides, Idle
    <2> QED
      BY <2>2, <2>3, <2>4 DEF Blocking
  <1> QED
    BY <1>1, InductiveOne, PTL
=============================================================================
