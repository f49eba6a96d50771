------------------------------ MODULE MailDelta ------------------------------
(***************************************************************************)
(* The per-folder delta synchronisation of outlook-knowledge: the walk of  *)
(* internal/mail/sync.go over the Graph delta feed, the rows and the       *)
(* cursors of internal/outlookstore, and the processes (the daemon and the *)
(* command line) that run it over one SQLite file.                         *)
(*                                                                         *)
(* The mailbox is external.  Every change to it gets the next number of    *)
(* one clock.  A delta link stands for "every change up to number n"; a    *)
(* nextLink stands for a walk opened at number upto, with the messages     *)
(* still to be listed in todo.  The content of a message is abstracted to  *)
(* the number of its last change, whether it matches a registered address, *)
(* and the Graph calls of their own that finding that out and storing it   *)
(* take.                                                                   *)
(***************************************************************************)
EXTENDS Naturals, FiniteSets

CONSTANTS
    Messages,   \* immutable message ids
    Folders,    \* the folders the configuration includes
    Elsewhere,  \* where a deleted message is, or one in an untracked folder
    Daemons,    \* processes in daemonCmd's loop: SyncAll, for ever
    Clis,       \* processes that run "mail sync", with or without --full
    Contents,   \* what a message may be like (Content)
    Faults,     \* the disturbances this instance admits (FaultKinds)
    MaxClock,   \* bound on the mailbox's changes
    MaxFaults   \* bound on the number of disturbances

Procs == Daemons \cup Clis
Places == Folders \cup {Elsewhere}
FaultKinds == {"error", "emptyBody", "expire", "crash", "full"}

\* The Graph calls of storeMatched beside the one that listed the message.
Lookups == {"headers", "attachments"}

\* Does the message match a registered address, and which lookups does storing it
\* take: "headers" when it matches by headers that the payload omits,
\* "attachments" when it has some.
Content == [match : BOOLEAN, asks : SUBSET Lookups]

ASSUME MailAssumption ==
    /\ Elsewhere \notin Folders
    /\ Daemons \cap Clis = {}
    /\ Contents \subseteq Content
    /\ Faults \subseteq FaultKinds
    /\ MaxClock \in Nat
    /\ MaxFaults \in Nat

VARIABLES
    \* the mailbox, behind Graph
    clock,     \* number of the last change
    box,       \* message -> where it is, its last change, what it is like
    gone,      \* folder -> message -> number of its last departure
    floor,     \* folder -> links up to this number answer 410 Gone
    \* the database
    rows,      \* mail_messages
    sync,      \* mail_sync_states
    \* a history of the rows, which the program does not keep
    lost,      \* message -> its version last applied with a lookup's answer lost
    \* the memory of each process
    pc,        \* where SyncFolder is
    queue,     \* folders this run has still to sync
    folder,    \* the folder being synced
    base,      \* st.DeltaLink as read at the start
    url,       \* pageURL
    page,      \* items of the fetched page not applied yet
    link,      \* the link that came with the page
    mayReset,  \* allowReset
    \* the environment
    faults     \* disturbances so far

mailbox == <<clock, box, gone, floor>>
database == <<rows, sync, lost>>
memory == <<pc, queue, folder, base, url, page, link, mayReset>>
vars == <<mailbox, database, memory, faults>>

-----------------------------------------------------------------------------
(* Data *)

Copy == [folder : Places, ver : Nat, content : Contents]
Item == [id : Messages, folder : Places, ver : Nat, content : Contents]

\* A row; ver = 0 is no row, a tombstone is a row that is not live, and a row that
\* is not whole lacks attachments its message has.
Row == [folder : Places, ver : Nat, live : BOOLEAN, whole : BOOLEAN]
NoRow == [folder |-> Elsewhere, ver |-> 0, live |-> FALSE, whole |-> TRUE]

\* A nextLink is paging; a delta link is not and has an empty todo; upto = 0 is
\* the empty string in a cursor column, and the init URL when it is fetched.
Link == [paging : BOOLEAN, upto : Nat, todo : SUBSET Messages]
DeltaLink(n) == [paging |-> FALSE, upto |-> n, todo |-> {}]
NoLink == DeltaLink(0)

\* A row of mail_sync_states; the reporting columns are reduced to "has the
\* folder failed since its last success".
SyncState == [next : Link, delta : Nat, failing : BOOLEAN]
NoState == [next |-> NoLink, delta |-> 0, failing |-> FALSE]

Steps == {"idle", "begin", "fetch", "apply"}

TypeOK ==
    /\ clock \in Nat
    /\ box \in [Messages -> Copy]
    /\ gone \in [Folders -> [Messages -> Nat]]
    /\ floor \in [Folders -> Nat]
    /\ rows \in [Messages -> Row]
    /\ sync \in [Folders -> SyncState]
    /\ lost \in [Messages -> Nat]
    /\ pc \in [Procs -> Steps]
    /\ queue \in [Procs -> SUBSET Folders]
    /\ folder \in [Procs -> Places]
    /\ base \in [Procs -> Nat]
    /\ url \in [Procs -> Link]
    /\ page \in [Procs -> SUBSET Item]
    /\ link \in [Procs -> Link]
    /\ mayReset \in [Procs -> BOOLEAN]
    /\ faults \in Nat
    /\ \A p \in Procs : pc[p] # "idle" => folder[p] \in Folders

Init ==
    /\ clock = 1
    /\ box \in [Messages -> [folder : Places, ver : {1}, content : Contents]]
    /\ gone = [f \in Folders |-> [m \in Messages |-> 0]]
    /\ floor = [f \in Folders |-> 0]
    /\ rows = [m \in Messages |-> NoRow]
    /\ sync = [f \in Folders |-> NoState]
    /\ lost = [m \in Messages |-> 0]
    /\ pc = [p \in Procs |-> "idle"]
    /\ queue = [p \in Procs |-> {}]
    /\ folder = [p \in Procs |-> Elsewhere]
    /\ base = [p \in Procs |-> 0]
    /\ url = [p \in Procs |-> NoLink]
    /\ page = [p \in Procs |-> {}]
    /\ link = [p \in Procs |-> NoLink]
    /\ mayReset = [p \in Procs |-> FALSE]
    /\ faults = 0

Disturb(kind) ==
    /\ kind \in Faults
    /\ faults < MaxFaults
    /\ faults' = faults + 1

-----------------------------------------------------------------------------
(* The mailbox (external) *)

\* A message arrives, is edited, moved or deleted.
MailboxChange(m, g, content) ==
    /\ clock < MaxClock
    /\ box[m].folder # Elsewhere \/ g # Elsewhere
    /\ clock' = clock + 1
    /\ box' = [box EXCEPT ![m] =
                 [folder |-> g, ver |-> clock + 1, content |-> content]]
    /\ gone' = [f \in Folders |->
                  IF f = box[m].folder /\ f # g
                  THEN [gone[f] EXCEPT ![m] = clock + 1]
                  ELSE gone[f]]
    /\ UNCHANGED <<floor, database, memory, faults>>

\* The server forgets the links of a folder handed out so far.
Expire(f) ==
    /\ Disturb("expire")
    /\ clock < MaxClock
    /\ clock' = clock + 1
    /\ floor' = [floor EXCEPT ![f] = clock]
    /\ UNCHANGED <<box, gone, database, memory>>

\* What a delta query since number n reports.  A full listing (n = 0) has no
\* @removed entry.
Changed(f, n) ==
    {m \in Messages :
        IF box[m].folder = f THEN box[m].ver > n
                             ELSE n > 0 /\ gone[f][m] > n}

Expired(f, u) == u.upto > 0 /\ u.upto <= floor[f]

\* A page shows its messages as they are when it is fetched; one that is no
\* longer in the folder is an @removed entry.
ItemOf(m) == [id      |-> m,
              folder  |-> box[m].folder,
              ver     |-> box[m].ver,
              content |-> box[m].content]

\* The walk a URL denotes: a nextLink continues one, any other link opens one.
Walk(f, u) ==
    IF u.paging THEN u
    ELSE [paging |-> TRUE, upto |-> clock, todo |-> Changed(f, u.upto)]

-----------------------------------------------------------------------------
(* Entry points *)

\* Mutant of Return: the loop goes on after the error.
ReturnMissing(p) ==
    /\ folder' = [folder EXCEPT ![p] = Elsewhere]
    /\ page' = [page EXCEPT ![p] = {}]
    /\ UNCHANGED <<pc, base, url, link, mayReset>>

\* SyncFolder returns: its locals are gone.
Return(p) ==
    /\ pc' = [pc EXCEPT ![p] = "idle"]
    /\ folder' = [folder EXCEPT ![p] = Elsewhere]
    /\ base' = [base EXCEPT ![p] = 0]
    /\ url' = [url EXCEPT ![p] = NoLink]
    /\ page' = [page EXCEPT ![p] = {}]
    /\ link' = [link EXCEPT ![p] = NoLink]
    /\ mayReset' = [mayReset EXCEPT ![p] = FALSE]

\* RecordMailSyncFailure
RecordMailSyncFailure(f) == sync' = [sync EXCEPT ![f].failing = TRUE]

\* ResetMailSyncState is an UPDATE: a folder without a row stays without one,
\* which is the same as one with empty links.
ResetMailSyncState(F) ==
    sync' = [f \in Folders |->
               IF f \in F THEN [sync[f] EXCEPT !.next = NoLink, !.delta = 0]
                          ELSE sync[f]]

\* The daemon's tick, or "mail sync": SyncAll over every folder.
SyncAll(p) ==
    /\ pc[p] = "idle"
    /\ queue[p] = {}
    /\ queue' = [queue EXCEPT ![p] = Folders]
    /\ UNCHANGED <<mailbox, database, pc, folder, base, url, page, link,
                   mayReset, faults>>

\* "mail sync --folder f": SyncOne.
SyncOne(p, f) ==
    /\ p \in Clis
    /\ pc[p] = "idle"
    /\ queue[p] = {}
    /\ queue' = [queue EXCEPT ![p] = {f}]
    /\ UNCHANGED <<mailbox, database, pc, folder, base, url, page, link,
                   mayReset, faults>>

\* "mail sync --full": the cursors of F are dropped before the folders sync.
SyncFull(p, F) ==
    /\ p \in Clis
    /\ pc[p] = "idle"
    /\ queue[p] = {}
    /\ Disturb("full")
    /\ ResetMailSyncState(F)
    /\ queue' = [queue EXCEPT ![p] = F]
    /\ UNCHANGED <<mailbox, rows, lost, pc, folder, base, url, page, link,
                   mayReset>>

\* SyncAll's loop takes the next folder; the order of the include list is free.
SyncFolder(p, f) ==
    /\ pc[p] = "idle"
    /\ f \in queue[p]
    /\ queue' = [queue EXCEPT ![p] = @ \ {f}]
    /\ pc' = [pc EXCEPT ![p] = "begin"]
    /\ folder' = [folder EXCEPT ![p] = f]
    /\ mayReset' = [mayReset EXCEPT ![p] = TRUE]
    /\ UNCHANGED <<mailbox, database, base, url, page, link, faults>>

-----------------------------------------------------------------------------
(* syncFolderDelta *)

\* GetMailSyncState and the choice of pageURL: nextLink, else deltaLink, else
\* the init URL.
Begin(p) ==
    /\ pc[p] = "begin"
    /\ LET st == sync[folder[p]] IN
         /\ base' = [base EXCEPT ![p] = st.delta]
         /\ url' = [url EXCEPT ![p] = IF st.next.paging THEN st.next
                                      ELSE DeltaLink(st.delta)]
    /\ pc' = [pc EXCEPT ![p] = "fetch"]
    /\ UNCHANGED <<mailbox, database, queue, folder, page, link, mayReset, faults>>

\* GetPage succeeds: the page lists some of the messages left in the walk; the
\* last page carries the delta link of the walk.
FetchPage(p) ==
    /\ pc[p] = "fetch"
    /\ ~Expired(folder[p], url[p])
    /\ LET walk == Walk(folder[p], url[p]) IN
       \E listed \in SUBSET walk.todo :
         /\ listed = {} => walk.todo = {}
         /\ page' = [page EXCEPT ![p] = {ItemOf(m) : m \in listed}]
         /\ link' = [link EXCEPT ![p] =
                       [walk EXCEPT !.paging = (listed # walk.todo),
                                    !.todo = @ \ listed]]
    /\ pc' = [pc EXCEPT ![p] = "apply"]
    /\ UNCHANGED <<mailbox, database, queue, folder, base, url, mayReset, faults>>

\* graph.do takes a 2xx answer whose body was lost for an empty one: a page
\* without items and without links.
FetchEmptyBody(p) ==
    /\ pc[p] = "fetch"
    /\ Disturb("emptyBody")
    /\ page' = [page EXCEPT ![p] = {}]
    /\ link' = [link EXCEPT ![p] = NoLink]
    /\ pc' = [pc EXCEPT ![p] = "apply"]
    /\ UNCHANGED <<mailbox, database, queue, folder, base, url, mayReset>>

\* Mutant of FetchGone: 410 is a failure like any other.
FetchGoneNoReset(p) ==
    /\ pc[p] = "fetch"
    /\ Expired(folder[p], url[p])
    /\ mayReset[p]
    /\ RecordMailSyncFailure(folder[p])
    /\ Return(p)
    /\ UNCHANGED <<mailbox, rows, lost, queue, faults>>

\* 410 Gone (IsSyncStateInvalid) with allowReset: the folder's cursors are
\* dropped and syncFolderDelta runs once more.
FetchGone(p) ==
    /\ pc[p] = "fetch"
    /\ Expired(folder[p], url[p])
    /\ mayReset[p]
    /\ ResetMailSyncState({folder[p]})
    /\ mayReset' = [mayReset EXCEPT ![p] = FALSE]
    /\ base' = [base EXCEPT ![p] = 0]
    /\ url' = [url EXCEPT ![p] = NoLink]
    /\ pc' = [pc EXCEPT ![p] = "begin"]
    /\ UNCHANGED <<mailbox, rows, lost, queue, folder, page, link, faults>>

\* 410 Gone once more: the second one is a failure like any other.
FetchGoneAgain(p) ==
    /\ pc[p] = "fetch"
    /\ Expired(folder[p], url[p])
    /\ ~mayReset[p]
    /\ RecordMailSyncFailure(folder[p])
    /\ Return(p)
    /\ UNCHANGED <<mailbox, rows, lost, queue, faults>>

\* Any other error of GetPage.
FetchFails(p) ==
    /\ pc[p] = "fetch"
    /\ Disturb("error")
    /\ RecordMailSyncFailure(folder[p])
    /\ Return(p)
    /\ UNCHANGED <<mailbox, rows, lost, queue>>

\* Mutant of TombstoneMail: the row is deleted.
TombstoneDeletesRow(m, f) ==
    rows' = [rows EXCEPT ![m] = IF @.folder = f THEN NoRow ELSE @]

\* TombstoneMail: the UPDATE touches only a row that is in folder f.
TombstoneMail(m, f) ==
    rows' = [rows EXCEPT ![m] = IF @.folder = f THEN [@ EXCEPT !.live = FALSE]
                                                ELSE @]

\* Mutant of UpsertMailMessage: folder_id is left out of the ON CONFLICT list.
UpsertKeepsFolder(item, whole) ==
    rows' = [rows EXCEPT ![item.id] =
               [folder |-> IF @.ver = 0 THEN item.folder ELSE @.folder,
                ver    |-> item.ver,
                live   |-> TRUE,
                whole  |-> whole]]

\* UpsertMailMessage: one row per message id, whatever it held before, with the
\* attachments that came.
UpsertMailMessage(item, whole) ==
    rows' = [rows EXCEPT ![item.id] =
               [folder |-> item.folder, ver |-> item.ver, live |-> TRUE,
                whole  |-> whole]]

\* Mutant of LeftOf: a message that is not stored ends the loop over the page.
LeftAfterUnmatched(p, item) ==
    IF item.content.match THEN page[p] \ {item} ELSE {}

\* The items of the page left to apply after this one.
LeftOf(p, item) == page[p] \ {item}

\* applyDeltaItem, each lookup answered in full: @removed tombstones in the synced
\* folder; a message that matches no registered address is not stored; any other
\* is upserted under the parentFolderId of its payload.
ApplyItem(p) ==
    /\ pc[p] = "apply"
    /\ \E item \in page[p] :
         /\ page' = [page EXCEPT ![p] = LeftOf(p, item)]
         /\ \/ /\ item.folder # folder[p]
               /\ TombstoneMail(item.id, folder[p])
               /\ UNCHANGED lost
            \/ /\ item.folder = folder[p]
               /\ item.content.match
               /\ UpsertMailMessage(item, TRUE)
               /\ lost' = [lost EXCEPT ![item.id] = 0]
            \/ /\ item.folder = folder[p]
               /\ ~item.content.match
               /\ UNCHANGED <<rows, lost>>
    /\ UNCHANGED <<mailbox, sync, pc, queue, folder, base, url, link,
                   mayReset, faults>>

\* The answer to a lookup of storeMatched is a 2xx whose body was lost, which
\* graph.do takes for an empty one.  Without its headers the message is taken for
\* one that does not match, and is not stored; without (some of) its attachments
\* it is stored without them.  Neither is an error, and the walk goes on.
LookupLost(p) ==
    /\ pc[p] = "apply"
    /\ Disturb("emptyBody")
    /\ \E item \in page[p] :
         /\ item.folder = folder[p]
         /\ item.content.match
         /\ page' = [page EXCEPT ![p] = LeftOf(p, item)]
         /\ lost' = [lost EXCEPT ![item.id] = item.ver]
         /\ \/ /\ "headers" \in item.content.asks
               /\ UNCHANGED rows
            \/ /\ "attachments" \in item.content.asks
               /\ UpsertMailMessage(item, FALSE)
    /\ UNCHANGED <<mailbox, sync, pc, queue, folder, base, url, link, mayReset>>

\* Mutant of ItemFails: the failed item is skipped and the loop goes on.
ItemSkipped(p) ==
    /\ pc[p] = "apply"
    /\ Disturb("error")
    /\ \E item \in page[p] : page' = [page EXCEPT ![p] = @ \ {item}]
    /\ UNCHANGED <<mailbox, database, pc, queue, folder, base, url, link, mayReset>>

\* An item fails (parsing, fetchHeaders, fetchAttachments, the database): the
\* rest of its page is dropped.
ItemFails(p) ==
    /\ pc[p] = "apply"
    /\ page[p] # {}
    /\ Disturb("error")
    /\ RecordMailSyncFailure(folder[p])
    /\ Return(p)
    /\ UNCHANGED <<mailbox, rows, lost, queue>>

\* Mutant of PageApplied: the checkpoint is written before the items are applied.
PageFetched(p) == pc[p] = "apply"

\* The loop over the items of the page is through.
PageApplied(p) == pc[p] = "apply" /\ page[p] = {}

\* A nextLink came with the page: SaveMailNextLink, and on to the next page.
SaveMailNextLink(p) ==
    /\ PageApplied(p)
    /\ link[p].paging
    /\ sync' = [sync EXCEPT ![folder[p]].next = link[p]]
    /\ url' = [url EXCEPT ![p] = link[p]]
    /\ link' = [link EXCEPT ![p] = NoLink]
    /\ pc' = [pc EXCEPT ![p] = "fetch"]
    /\ UNCHANGED <<mailbox, rows, lost, queue, folder, base, page, mayReset,
                   faults>>

\* The committed link: the one of the page, or the one read at the start when the
\* page has none.
CommittedLink(p) == IF link[p].upto > 0 THEN link[p].upto ELSE base[p]

\* Mutant of CommittedState: the error of an earlier attempt stays.
CommittedStateInError(p) ==
    [next |-> NoLink, delta |-> CommittedLink(p), failing |-> sync[folder[p]].failing]

CommittedState(p) ==
    [next |-> NoLink, delta |-> CommittedLink(p), failing |-> FALSE]

\* The last page is applied: CommitMailDeltaLink.
CommitMailDeltaLink(p) ==
    /\ PageApplied(p)
    /\ ~link[p].paging
    /\ sync' = [sync EXCEPT ![folder[p]] = CommittedState(p)]
    /\ Return(p)
    /\ UNCHANGED <<mailbox, rows, lost, queue, faults>>

\* The database fails when the cursors are read (GetMailSyncState), dropped
\* (ResetMailSyncState) or written: the error is returned and not recorded.
CursorFails(p) ==
    /\ Disturb("error")
    /\ \/ pc[p] = "begin"
       \/ pc[p] = "fetch" /\ Expired(folder[p], url[p]) /\ mayReset[p]
       \/ PageApplied(p)
    /\ Return(p)
    /\ UNCHANGED <<mailbox, database, queue>>

\* The process is killed; what is left is the database.
Crash(p) ==
    /\ pc[p] # "idle" \/ queue[p] # {}
    /\ Disturb("crash")
    /\ Return(p)
    /\ queue' = [queue EXCEPT ![p] = {}]
    /\ UNCHANGED <<mailbox, database>>

-----------------------------------------------------------------------------
(* The system *)

\* What a running process does next when nothing disturbs it.
Work(p) ==
    \/ SyncAll(p)
    \/ \E f \in Folders : SyncFolder(p, f)
    \/ Begin(p)
    \/ FetchPage(p)
    \/ FetchGone(p)
    \/ FetchGoneAgain(p)
    \/ ApplyItem(p)
    \/ SaveMailNextLink(p)
    \/ CommitMailDeltaLink(p)

Failure(p) ==
    \/ FetchEmptyBody(p)
    \/ FetchFails(p)
    \/ LookupLost(p)
    \/ ItemFails(p)
    \/ CursorFails(p)
    \/ Crash(p)

Operator(p) ==
    \/ \E f \in Folders : SyncOne(p, f)
    \/ \E F \in {Folders} \cup {{f} : f \in Folders} : SyncFull(p, F)

Mailbox ==
    \/ \E m \in Messages, g \in Places, content \in Contents :
         MailboxChange(m, g, content)
    \/ \E f \in Folders : Expire(f)

Next ==
    \/ Mailbox
    \/ \E p \in Procs : Work(p) \/ Failure(p) \/ Operator(p)

Spec == Init /\ [][Next]_vars

\* The daemon's loop never stops running; the mailbox and the operator owe
\* nothing.
Fairness == \A p \in Daemons : WF_vars(Work(p))
FairSpec == Spec /\ Fairness

-----------------------------------------------------------------------------
(* Properties *)

\* The row of m is a live copy of all that the mailbox holds.
Current(m) ==
    /\ rows[m].live
    /\ rows[m].whole
    /\ rows[m].folder = box[m].folder
    /\ rows[m].ver = box[m].ver

\* Message m belongs to the copy of folder f.
Wanted(m, f) == box[m].folder = f /\ box[m].content.match

\* When the present version of m was applied, the answer to a lookup was lost.
Spoiled(m) == lost[m] = box[m].ver

\* Every wanted message of f that last changed by number n, those of todo and
\* those spoiled by a lost answer apart, is current.
Covered(f, n, todo) ==
    \A m \in Messages \ todo :
        Wanted(m, f) /\ box[m].ver <= n /\ ~Spoiled(m) => Current(m)

\* The committed delta link never runs ahead of the rows: whatever changed by
\* its number is stored, so the next delta query, which reports only later
\* changes, misses nothing but the versions whose own lookup lost its answer.
\* (SyncFolder: "The deltaLink is committed only after every page has been
\* applied".)
NothingMissed == \A f \in Folders : Covered(f, sync[f].delta, {})

\* A walk resumed from the stored nextLink after a failure or a crash skips only
\* pages whose items are in the database.  (SaveMailNextLink.)
ResumeSkipsNothing ==
    \A f \in Folders :
        sync[f].next.paging => Covered(f, sync[f].next.upto, sync[f].next.todo)

\* The row of m is live in folder f, the message has left f, and f's delta link
\* is past its departure: no @removed entry will ever come for it.
DeletionLost(f, m) ==
    /\ rows[m].live /\ rows[m].folder = f
    /\ box[m].folder # f
    /\ sync[f].delta > 0
    /\ gone[f][m] <= sync[f].delta

\* Deletions and moves out of a folder reach the database.  (The plan of the mail
\* synchroniser; a full listing has no @removed entry, so what left the folder
\* between an interrupted or expired walk and the next one is never heard of.)
DeletionsReflected == \A f \in Folders, m \in Messages : ~DeletionLost(f, m)

\* While a folder has a delta link no deletion is lost, whatever fails and
\* wherever the walk is interrupted: only a full initialization loses one.
\* (TombstoneMail's folder guard, and applying every page before committing.)
DeltaLosesNoDeletion ==
    [][\A f \in Folders, m \in Messages :
         sync[f].delta > 0 /\ DeletionLost(f, m)' => DeletionLost(f, m)]_vars

\* No step replaces a row by an older version of its message: a page that
\* waited in memory never overwrites what a later page brought.
RowsOnlyAdvance == [][\A m \in Messages : rows'[m].ver >= rows[m].ver]_vars

\* A message that moved into folder f is not tombstoned once f's delta link is
\* past the move: nothing would ever bring it back.  (The comment of
\* TombstoneMail: a move never clobbers the moved message.)
MovedMessageKept ==
    \A f \in Folders, m \in Messages :
        Wanted(m, f) /\ box[m].ver <= sync[f].delta /\ rows[m].ver > 0
            => rows[m].live

\* Once the mailbox and the faults are quiet the daemon brings every wanted
\* message of every folder into the database and keeps it there, those apart
\* whose own lookup lost its answer: no delta query lists these again.
EventuallyMirrored ==
    <>[](\A f \in Folders, m \in Messages :
           Wanted(m, f) /\ ~Spoiled(m) => Current(m))

\* Once the faults stop no folder stays in error.  (An expired link, a stored
\* nextLink of an interrupted walk and an item that failed are all got over.)
FailuresClear == <>[](\A f \in Folders : ~sync[f].failing)

-----------------------------------------------------------------------------
(* The inductive invariant behind NothingMissed, for one process.  Covered has *)
(* to be carried through the memory of the walk: by the links read (Cursors),  *)
(* by the URL about to be fetched and by the page being applied; and a page in *)
(* memory must not be able to spoil what any committed link covers (Fresh).    *)

\* Every link was handed out by the mailbox, and a delta link lists nothing.
LinksIssued ==
    /\ clock >= 1
    /\ \A m \in Messages : box[m].ver >= 1 /\ box[m].ver <= clock
    /\ \A f \in Folders : sync[f].delta <= clock /\ sync[f].next.upto <= clock
    /\ \A p \in Procs :
         /\ base[p] <= clock /\ url[p].upto <= clock /\ link[p].upto <= clock
         /\ ~url[p].paging => url[p].todo = {}
         /\ ~link[p].paging => link[p].todo = {}

Ids(items) == {item.id : item \in items}

\* What the walk of process p may rely on.
WalkCovers(p) ==
    /\ pc[p] \in {"fetch", "apply"} => Covered(folder[p], base[p], {})
    /\ pc[p] = "fetch" => Covered(folder[p], url[p].upto, url[p].todo)
    /\ pc[p] = "apply" => Covered(folder[p], link[p].upto,
                                  link[p].todo \cup Ids(page[p]))

\* An item in memory is what the mailbox holds, or its message has changed since
\* and no link covers the change.
Fresh(p, item) ==
    \/ ItemOf(item.id) = item
    \/ /\ \A f \in Folders : /\ box[item.id].ver > sync[f].delta
                             /\ box[item.id].ver > sync[f].next.upto
       /\ box[item.id].ver > base[p]
       /\ box[item.id].ver > link[p].upto

MailInv ==
    /\ TypeOK
    /\ LinksIssued
    /\ NothingMissed
    /\ ResumeSkipsNothing
    /\ \A p \in Procs : WalkCovers(p)
    /\ \A p \in Procs : \A item \in page[p] : Fresh(p, item)

-----------------------------------------------------------------------------
(* The replica that this is: a message that matches is in the feed of its      *)
(* folder, any other in none, and so is a row that is a tombstone.             *)

ReplicaSource ==
    [m \in Messages |->
       [feed  |-> IF box[m].content.match THEN box[m].folder ELSE Elsewhere,
        ver   |-> box[m].ver,
        whole |-> TRUE]]
ReplicaCopy ==
    [m \in Messages |->
       [feed  |-> IF rows[m].live THEN rows[m].folder ELSE Elsewhere,
        ver   |-> rows[m].ver,
        whole |-> rows[m].whole]]
Replica == INSTANCE DeltaReplica WITH
    Keys <- Messages, Feeds <- Folders, Outside <- Elsewhere,
    source <- ReplicaSource, copy <- ReplicaCopy, spoilt <- lost,
    cursor <- [f \in Folders |-> sync[f].delta]

\* One process that walks the folders is a delta replica: with its pages, resumed
\* walks, resets, failures and crashes it does nothing that DeltaReplica does not
\* allow.  (syncFolderDelta.)
IsReplica == Replica!Spec

=============================================================================
