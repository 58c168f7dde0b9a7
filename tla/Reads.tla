-------------------------------- MODULE Reads --------------------------------
(***************************************************************************)
(* What readers see while wallets move: the reconciliation of a wallet     *)
(* (ReconcileWallet over a repeatable-read snapshot) and its statement,    *)
(* page by page (WalletQueries.Ledger).  A movement is one transaction of  *)
(* the core, reduced to its lock, the seq its entry takes from the         *)
(* sequence, and its commit; two wallets share the sequence and commit in  *)
(* any order.  Somebody may also change a balance behind the service.      *)
(***************************************************************************)
EXTENDS Integers, Sequences, FiniteSets, Functions

CONSTANTS
    Opened,         \* per wallet: the amount it was opened with
    Movers,         \* transactions at work at the same time
    Deltas,         \* amounts they move, signed
    PageSize,       \* limit of a page
    MaxSeq,         \* bound: seq values taken
    MaxTampers      \* bound: changes behind the service

Books == DOMAIN Opened

ASSUME ReadsAssumption ==
    /\ \A w \in Books : Opened[w] \in Nat
    /\ Deltas \subseteq Int \ {0} /\ PageSize \in Nat \ {0}
    /\ MaxSeq \in Nat /\ MaxTampers \in Nat /\ IsFiniteSet(Books)

VARIABLES
    book,       \* committed wallets: balance, version
    entries,    \* committed wallet_ledger_entries
    lastSeq,    \* the sequence behind seq; rolled back by nothing
    mover,      \* per transaction at work
    tampered,   \* wallets changed behind the service
    audit,      \* a reconciliation: what its snapshot holds, what it reports
    pager       \* a client following a statement: what it has got, where it is, and
                \* how many entries there were when it began

readsVars == <<book, entries, lastSeq, mover, tampered, audit, pager>>

NoMove  == [stage |-> "idle", book |-> CHOOSE w \in Books : TRUE, delta |-> 0, seq |-> 0]
NoAudit == [stage |-> "idle", book |-> CHOOSE w \in Books : TRUE, stored |-> 0,
            version |-> 0, seen |-> {}, dirty |-> FALSE, difference |-> 0, count |-> 0]

-----------------------------------------------------------------------------
(* Movements.                                                               *)

\* Fault: nothing makes the movements of one wallet wait for each other.
BookFreeUnlocked(w) == TRUE

\* Nobody holds the wallet's row.
BookFree(w) == \A p \in Movers : mover[p].stage # "idle" => mover[p].book # w

\* FindByIDForUpdate.
LockBook(p, w, d) ==
    /\ mover[p].stage = "idle" /\ BookFree(w)
    /\ book[w].balance + d >= 0
    /\ mover' = [mover EXCEPT ![p] = [stage |-> "locked", book |-> w, delta |-> d, seq |-> 0]]
    /\ UNCHANGED <<book, entries, lastSeq, tampered, audit, pager>>

\* ledgerRepository.Append: the insert takes the next seq.
AppendEntry(p) ==
    /\ mover[p].stage = "locked" /\ lastSeq < MaxSeq
    /\ lastSeq' = lastSeq + 1
    /\ mover' = [mover EXCEPT ![p].stage = "appended", ![p].seq = lastSeq']
    /\ UNCHANGED <<book, entries, tampered, audit, pager>>

\* The wallet's new balance and version and the entry become visible together.
CommitMove(p) ==
    /\ mover[p].stage = "appended"
    /\ LET m == mover[p]  b == book[m.book]
       IN  /\ book' = [book EXCEPT ![m.book] = [balance |-> b.balance + m.delta,
                                                version |-> b.version + 1]]
           /\ entries' = entries \cup {[seq |-> m.seq, book |-> m.book,
                                        before |-> b.balance, after |-> b.balance + m.delta]}
    /\ mover' = [mover EXCEPT ![p] = NoMove]
    /\ UNCHANGED <<lastSeq, tampered, audit, pager>>

\* A rollback leaves a gap in the sequence.
AbandonMove(p) ==
    /\ mover[p].stage # "idle"
    /\ mover' = [mover EXCEPT ![p] = NoMove]
    /\ UNCHANGED <<book, entries, lastSeq, tampered, audit, pager>>

\* An update of the wallet's row that no operation made.
Tamper(w) ==
    /\ Cardinality(tampered) < MaxTampers /\ w \notin tampered /\ BookFree(w)
    /\ book' = [book EXCEPT ![w].balance = @ + 1]
    /\ tampered' = tampered \cup {w}
    /\ UNCHANGED <<entries, lastSeq, mover, audit, pager>>

-----------------------------------------------------------------------------
(* ReconcileWallet.Execute.                                                 *)

\* FindByID, the first statement of the snapshot, fixes what the whole of it sees.
AuditReadsWallet(w) ==
    /\ audit.stage # "reading"
    /\ audit' = [NoAudit EXCEPT !.stage = "reading", !.book = w,
                                !.stored = book[w].balance, !.version = book[w].version,
                                !.seen = entries, !.dirty = w \in tampered]
    /\ UNCHANGED <<book, entries, lastSeq, mover, tampered, pager>>

\* Fault: READ COMMITTED, every statement sees what is committed by then.
LedgerSeenLatest == entries

LedgerSeen == audit.seen

\* SumByWallet, the comparison and the report.
AuditSumsLedger ==
    /\ audit.stage = "reading"
    /\ LET es == {e \in LedgerSeen : e.book = audit.book}
       IN  audit' = [NoAudit EXCEPT !.stage = "done", !.book = audit.book,
                        !.version = audit.version, !.dirty = audit.dirty,
                        !.difference = audit.stored
                                         - SumFunction([e \in es |-> e.after - e.before]),
                        !.count = Cardinality(es)]
    /\ UNCHANGED <<book, entries, lastSeq, mover, tampered, pager>>

-----------------------------------------------------------------------------
(* WalletQueries.Ledger and ListByWallet.                                   *)

\* ORDER BY seq: the i-th row is the one that i rows do not come after.
Statement(w, after) ==
    LET es == {e \in entries : e.book = w /\ e.seq > after}
    IN  [i \in 1 .. Cardinality(es) |->
            CHOOSE e \in es : Cardinality({d \in es : d.seq <= e.seq}) = i]

\* One row past the page, to learn whether there is another.
RowsFetched == PageSize + 1

FirstPage(w) == [book |-> w, cursor |-> 0, got |-> << >>, more |-> TRUE,
                 began |-> Cardinality({e \in entries : e.book = w})]

\* A client starts on a statement.
OpenStatement(w) ==
    /\ pager' = FirstPage(w)
    /\ UNCHANGED <<book, entries, lastSeq, mover, tampered, audit>>

\* It asks for the page after the one it has.
PageThrough ==
    LET all  == Statement(pager.book, pager.cursor)
        rows == SubSeq(all, 1, IF Len(all) < RowsFetched THEN Len(all) ELSE RowsFetched)
        page == SubSeq(rows, 1, IF Len(rows) < PageSize THEN Len(rows) ELSE PageSize)
    IN  /\ pager' = [pager EXCEPT !.got = @ \o page,
                        !.cursor = IF page = << >> THEN @ ELSE page[Len(page)].seq,
                        !.more = Len(rows) > PageSize]
        /\ UNCHANGED <<book, entries, lastSeq, mover, tampered, audit>>

-----------------------------------------------------------------------------
\* Wallets opened with money.
Funded == {w \in Books : Opened[w] > 0}

\* Wallets are opened one after the other; an opening with money is an entry.
ReadsInit ==
    /\ book = [w \in Books |-> [balance |-> Opened[w], version |-> 1]]
    /\ \E order \in Bijection(1 .. Cardinality(Funded), Funded) :
          entries = {[seq |-> i, book |-> order[i], before |-> 0,
                      after |-> Opened[order[i]]] : i \in DOMAIN order}
    /\ lastSeq = Cardinality(Funded)
    /\ mover = [p \in Movers |-> NoMove]
    /\ tampered = {} /\ audit = NoAudit
    /\ pager = FirstPage(CHOOSE w \in Books : TRUE)

ReadsNext ==
    \/ \E p \in Movers, w \in Books, d \in Deltas : LockBook(p, w, d)
    \/ \E p \in Movers : AppendEntry(p) \/ CommitMove(p) \/ AbandonMove(p)
    \/ \E w \in Books : Tamper(w) \/ AuditReadsWallet(w) \/ OpenStatement(w)
    \/ AuditSumsLedger \/ PageThrough

ReadsSpec == ReadsInit /\ [][ReadsNext]_readsVars

-----------------------------------------------------------------------------
\* Seqs are taken once, and a wallet's version counts its committed entries.
ReadsTypeOK ==
    /\ \A d, e \in entries : d.seq = e.seq => d = e
    /\ \A e \in entries : e.seq \in 1 .. lastSeq
    /\ \A w \in Books :
          book[w].version = Cardinality({e \in entries : e.book = w})
                            + (IF Opened[w] = 0 THEN 1 ELSE 0)
    /\ lastSeq \in 0 .. MaxSeq + Cardinality(Books)

\* A reconciliation reports a drift exactly when somebody had changed the balance
\* behind the ledger when it started, never because a bet committed between its two
\* reads; and its version and entry count belong to the same moment.
ReportIsExact ==
    audit.stage = "done" =>
        /\ (audit.difference # 0) <=> audit.dirty
        /\ audit.version = audit.count + (IF Opened[audit.book] = 0 THEN 1 ELSE 0)

\* A client that follows the cursor has every entry up to it, once and in order, and
\* no entry ever turns up behind it: seqs are taken before commits, so this rests on
\* the wallet's lock.  Told that there is no more, it has all there was when it began.
\* Each entry begins where the one before it ended, as long as nobody changed the
\* balance by other means.
StatementIsComplete ==
    /\ {pager.got[i] : i \in DOMAIN pager.got}
           = {e \in entries : e.book = pager.book /\ e.seq <= pager.cursor}
    /\ pager.more \/ Len(pager.got) >= pager.began
    /\ \A i \in 1 .. Len(pager.got) - 1 :
          /\ pager.got[i].seq < pager.got[i + 1].seq
          /\ pager.book \notin tampered => pager.got[i].after = pager.got[i + 1].before
=============================================================================
