----------------------------- MODULE AuditPage -----------------------------
(***************************************************************************)
(* The page of the audit trail (AuditLog.tsx) over AuditChain: it loads    *)
(* the trail page by page, newest entry first, while entries are written   *)
(* and pruned.  A page is two queries of the sidecar (listAudit), one for  *)
(* the rows, by their position, and one for their number.                  *)
(***************************************************************************)
EXTENDS AuditChain, SequencesExt

CONSTANTS
    PageSize,   \* PAGE_SIZE
    MaxLoads    \* bound: loads of a page, the one of its opening included

ASSUME AuditPageAssumption == {PageSize, MaxLoads} \subseteq Nat \ {0}

VARIABLES
    entries,    \* the table: the seq of each row, the first at the top
    total,      \* how many the page believes there are
    load,       \* the load under way
    loads       \* loads so far

page == <<entries, total, load, loads>>

NoLoad == [at |-> "none", offset |-> 0, rows |-> <<>>, total |-> 0]
Loading == load.at # "none"

PageTypeOK ==
    /\ TypeOK
    /\ entries \in Seq(Nat) /\ total \in Nat /\ loads \in 0..MaxLoads
    /\ load \in [at : {"none", "rows", "count", "answer"}, offset : Nat,
               rows : Seq(Nat), total : Nat]

\* load(offset), up to the query of the rows.
Begun(offset) == [NoLoad EXCEPT !.at = "rows", !.offset = offset]

PageInit ==
    /\ Init
    /\ entries = <<>> /\ total = 0 /\ loads = 1
    /\ load = Begun(0)

Asks(offset) ==
    /\ loads < MaxLoads
    /\ loads' = loads + 1
    /\ load' = Begun(offset)

-----------------------------------------------------------------------------
\* The tab is left and opened again: a new page, and the load of before is lost.
Reopens ==
    /\ Asks(0)
    /\ entries' = <<>> /\ total' = 0

\* The button "Atualizar".
Refreshes ==
    /\ ~Loading
    /\ Asks(0)
    /\ UNCHANGED <<entries, total>>

\* The button "Carregar mais" is there.
Offers == Len(entries) < total

LoadsMore ==
    /\ Offers /\ ~Loading
    /\ Asks(Len(entries))
    /\ UNCHANGED <<entries, total>>

\* ORDER BY seq DESC.
NewestFirst ==
    LET seqs == {r.seq : r \in log}
    IN  CHOOSE s \in [1..Cardinality(seqs) -> seqs] : \A i, j \in DOMAIN s : i < j => s[j] < s[i]

\* LIMIT PageSize OFFSET offset.
PageAt(offset) ==
    LET rows == NewestFirst
    IN  SubSeq(rows, offset + 1, Min({Len(rows), offset + PageSize}))

\* listAudit: the rows.
SelectsRows ==
    /\ load.at = "rows"
    /\ load' = [load EXCEPT !.at = "count",
                            !.rows = PageAt(load.offset)]
    /\ UNCHANGED <<entries, total, loads>>

\* listAudit: COUNT(*).
CountsRows ==
    /\ load.at = "count"
    /\ load' = [load EXCEPT !.at = "answer", !.total = Len(NewestFirst)]
    /\ UNCHANGED <<entries, total, loads>>

\* Mutant: the page counts what it was given.
AnswersGiven ==
    /\ load.at = "answer"
    /\ entries' = (IF load.offset = 0 THEN <<>> ELSE entries) \o load.rows
    /\ total' = load.offset + Len(load.rows)
    /\ load' = NoLoad
    /\ UNCHANGED loads

\* A first page replaces the table, a later one is put at its end.
Answers ==
    /\ load.at = "answer"
    /\ entries' = (IF load.offset = 0 THEN <<>> ELSE entries) \o load.rows
    /\ total' = load.total
    /\ load' = NoLoad
    /\ UNCHANGED loads

\* An error at any point is a toast.
LoadFails ==
    /\ Loading
    /\ load' = NoLoad
    /\ UNCHANGED <<entries, total, loads>>

PageStep ==
    \/ Reopens \/ Refreshes \/ LoadsMore
    \/ SelectsRows \/ CountsRows \/ Answers \/ LoadFails

PageNext ==
    \/ Next /\ UNCHANGED page
    \/ PageStep /\ UNCHANGED vars

PageSpec == PageInit /\ [][PageNext]_<<vars, page>>

-----------------------------------------------------------------------------
\* The table has a row for it.
Shows(r) == r.seq \in Range(entries)

\* Once the page offers no more, nothing between its newest row and the oldest entry
\* of the trail is missing from it, whatever was written or pruned between and during
\* its loads: positions only shift towards what was loaded already (listAudit by
\* OFFSET, "Carregar mais").
NothingSkipped ==
    orderly /\ ~Loading /\ ~Offers =>
        \A r \in log : Shows(r) \/ \A i \in DOMAIN entries : entries[i] < r.seq
=============================================================================
