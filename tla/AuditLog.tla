------------------------------ MODULE AuditLog ------------------------------
(***************************************************************************)
(* The journal, packages/db/src/audit-events.ts and the routes of          *)
(* apps/api/src/audit-events.ts: the events of one organization, pages and *)
(* exports of them, the retention purge of apps/worker/src/index.ts.       *)
(* PostgreSQL dates an event with the microsecond at which its transaction *)
(* began; JavaScript reads dates, and a cursor carries them, in            *)
(* milliseconds.                                                           *)
(***************************************************************************)
EXTENDS Integers, Sequences, FiniteSets

CONSTANTS
    LastEvent,      \* bound: the events; their number is the order of their UUIDs
    LastTick,       \* bound: the clock of PostgreSQL
    Fractions,      \* ticks of that clock in a millisecond
    Retention,      \* AUDIT_RETENTION_DAYS, in ticks
    PageSize,       \* limit
    ExportCap       \* how many events an export collects before it stops

ASSUME AuditAssumption ==
    /\ {LastEvent, LastTick} \subseteq Nat
    /\ {Fractions, Retention, PageSize, ExportCap} \subseteq Nat \ {0}

VARIABLES
    tick,           \* now()
    journal,        \* audit_events that match the filters: [id, date]
    recording,      \* the dates of the transactions that have not committed
    mayRead,        \* the reader administers the organization
    listing,        \* the reader: what it does, its cursor, what it was given
    present,        \* history: the journal when the listing began
    purging         \* the cutoff of the purge under way, a set of one at most

varsAuditLog == <<tick, journal, recording, mayRead, listing, present, purging>>

EventIds == 1..LastEvent
Unused == EventIds \ {e.id : e \in journal}

NoCursor == [date |-> LastTick + 1, id |-> 0]
NoListing == [of |-> "none", at |-> "idle", now |-> 0, cursor |-> NoCursor,
              given |-> <<>>, whole |-> FALSE]

InitAuditLog ==
    /\ tick = 0 /\ journal = {} /\ recording = {} /\ mayRead = TRUE
    /\ listing = NoListing /\ present = {} /\ purging = {}

\* desc(createdAt), desc(id): the k-th row has k - 1 before it.
Newer(e, f) == e.date > f.date \/ (e.date = f.date /\ e.id > f.id)
Ahead(S, e) == {f \in S : Newer(f, e)}
Descending(S) ==
    [k \in 1..Cardinality(S) |-> CHOOSE e \in S : Cardinality(Ahead(S, e)) = k - 1]

\* encodeAuditCursor: toISOString of a Date.
Milliseconds(d) == (d \div Fractions) * Fractions
EncodeAuditCursor(e) == [date |-> Milliseconds(e.date), id |-> e.id]
Beyond(e, c) == e.date < c.date \/ (e.date = c.date /\ e.id < c.id)

RetentionCutoff(now) == now - Retention

Rows(now, c) == Descending({e \in journal : e.date >= RetentionCutoff(now) /\ Beyond(e, c)})
Page(rows) == SubSeq(rows, 1, IF Len(rows) < PageSize THEN Len(rows) ELSE PageSize)

Tick ==
    /\ tick < LastTick
    /\ tick' = tick + 1
    /\ UNCHANGED <<journal, recording, mayRead, listing, present, purging>>

\* A transaction that will insert events begins ...
BeginRecording ==
    /\ recording = {} /\ Unused # {}
    /\ recording' = {tick}
    /\ UNCHANGED <<tick, journal, mayRead, listing, present, purging>>

\* ... and commits one or two of them, all with the date it began at, or none.
CommitRecording ==
    /\ \E d \in recording, ids \in SUBSET Unused :
        /\ Cardinality(ids) <= 2
        /\ journal' = journal \cup {[id |-> i, date |-> d] : i \in ids}
    /\ recording' = {}
    /\ UNCHANGED <<tick, mayRead, listing, present, purging>>

\* The routes: a page at a time, or exportIamAuditEvents.
BeginListing(k) ==
    /\ listing.at = "idle"
    /\ listing' = [NoListing EXCEPT !.of = k, !.at = "authorize", !.now = tick]
    /\ present' = journal
    /\ UNCHANGED <<tick, journal, recording, mayRead, purging>>

\* Whoever gets nothing more, or nothing at all, is left out of account.
Dropped == [NoListing EXCEPT !.at = "ended"]

\* canReadOrganizationAudit, a statement of its own before every page.
CanRead ==
    /\ listing.at = "authorize"
    /\ \/ mayRead /\ listing' = [listing EXCEPT !.at = "query"] /\ UNCHANGED present
       \/ ~mayRead /\ listing.of = "export" /\ listing' = [listing EXCEPT !.at = "denied"]
                   /\ UNCHANGED present
       \/ ~mayRead /\ listing.of = "pages" /\ listing' = Dropped /\ present' = {}
    /\ UNCHANGED <<tick, journal, recording, mayRead, purging>>

\* The rows given so far, and the page that follows the cursor.
Given(rows) == listing.given \o Page(rows)

\* Mutant: the cursor is the row after the page.
ListIamAuditEventsAfter ==
    LET rows == Rows(listing.now, listing.cursor)
        more == Len(rows) > PageSize IN
    /\ listing.at = "query"
    /\ listing' = [listing EXCEPT
            !.given = Given(rows),
            !.cursor = IF more THEN EncodeAuditCursor(rows[PageSize + 1]) ELSE NoCursor,
            !.whole = ~more,
            !.at = IF listing.of = "export"
                   THEN IF more /\ Len(Given(rows)) < ExportCap THEN "authorize" ELSE "record"
                   ELSE IF more THEN "page" ELSE "ended"]
    /\ UNCHANGED <<tick, journal, recording, mayRead, present, purging>>

\* listIamAuditEvents: one row more than the page is read, and the cursor is
\* that of the last row of the page if there was one more.
ListIamAuditEvents ==
    LET rows == Rows(listing.now, listing.cursor)
        more == Len(rows) > PageSize IN
    /\ listing.at = "query"
    /\ listing' = [listing EXCEPT
            !.given = Given(rows),
            !.cursor = IF more THEN EncodeAuditCursor(rows[PageSize]) ELSE NoCursor,
            !.whole = ~more,
            !.at = IF listing.of = "export"
                   THEN IF more /\ Len(Given(rows)) < ExportCap THEN "authorize" ELSE "record"
                   ELSE IF more THEN "page" ELSE "ended"]
    /\ UNCHANGED <<tick, journal, recording, mayRead, present, purging>>

\* The reader asks for the next page, now; an export keeps the now it had.
NextPage ==
    /\ listing.at = "page"
    /\ listing' = [listing EXCEPT !.at = "authorize", !.now = tick]
    /\ UNCHANGED <<tick, journal, recording, mayRead, present, purging>>

\* The event iam.audit.export, of a success or of a denial.
RecordExport ==
    /\ listing.at \in {"record", "denied"}
    /\ \E i \in Unused : journal' = journal \cup {[id |-> i, date |-> tick]}
    /\ IF listing.at = "record"
       THEN listing' = [listing EXCEPT !.at = "ended"] /\ UNCHANGED present
       ELSE listing' = Dropped /\ present' = {}
    /\ UNCHANGED <<tick, recording, mayRead, purging>>

\* A statement throws, or the reader leaves.
LeaveListing ==
    /\ listing.at # "idle"
    /\ listing' = Dropped /\ present' = {}
    /\ UNCHANGED <<tick, journal, recording, mayRead, purging>>

\* While a listing is under way.
LoseRole ==
    /\ mayRead /\ mayRead' = FALSE
    /\ listing.at # "idle"
    /\ UNCHANGED <<tick, journal, recording, listing, present, purging>>

\* purgeExpiredAuditEvents takes the time, then deletes: at the start of the
\* worker and every 24 hours, so at any time (one that finds nothing to delete
\* is left out).
BeginPurge ==
    /\ purging = {}
    /\ \E e \in journal : e.date < RetentionCutoff(tick)
    /\ purging' = {RetentionCutoff(tick)}
    /\ UNCHANGED <<tick, journal, recording, mayRead, listing, present>>
Purge ==
    /\ purging # {}
    /\ journal' = {e \in journal : \A c \in purging : e.date >= c}
    /\ purging' = {}
    /\ UNCHANGED <<tick, recording, mayRead, listing, present>>

\* Bound: one listing, with which a behaviour ends.
NextAuditLog ==
    /\ listing.at # "ended"
    /\ \/ Tick \/ BeginRecording \/ CommitRecording
       \/ \E k \in {"pages", "export"} : BeginListing(k)
       \/ CanRead \/ ListIamAuditEvents \/ NextPage \/ RecordExport \/ LeaveListing
       \/ LoseRole \/ BeginPurge \/ Purge

SpecAuditLog == InitAuditLog /\ [][NextAuditLog]_varsAuditLog

-----------------------------------------------------------------------------
(* Properties *)

\* The journal and the listing have their types; an event has one row.
TypeOKAuditLog ==
    /\ tick \in 0..LastTick
    /\ journal \subseteq [id : EventIds, date : 0..LastTick]
    /\ \A e, f \in journal : e.id = f.id => e = f
    /\ Cardinality(recording) <= 1 /\ Cardinality(purging) <= 1
    /\ listing.at \in {"idle", "authorize", "query", "page", "record", "denied", "ended"}

\* What a listing that came to its end owes: the events that were there when
\* it began and are still within the retention.
Owed == {e \in present : e.date >= RetentionCutoff(tick)}
GivenEvents == {listing.given[i] : i \in DOMAIN listing.given}
ReadWhole == listing.at = "ended" /\ listing.whole

\* listIamAuditEvents, exportIamAuditEvents: "nextCursor ... ordonne les
\* événements par date puis UUID" (docs/iam/audit-events.md:39): following it
\* to the end gives every event, whatever is recorded and purged meanwhile.
PagesLeaveNothingOut == ReadWhole => Owed \subseteq GivenEvents

\* What holds of the pages: they descend strictly, so no event is given
\* twice, whatever is recorded, purged or expires between them; and an event
\* that is missing shares its millisecond with the last one of a page.
PagesMissOnlyWithinMillisecond ==
    /\ \A i, j \in DOMAIN listing.given :
            i < j => Newer(listing.given[i], listing.given[j])
    /\ ReadWhole => \A e \in Owed \ GivenEvents :
            \E f \in GivenEvents : Newer(f, e) /\ Milliseconds(f.date) = Milliseconds(e.date)
=============================================================================
