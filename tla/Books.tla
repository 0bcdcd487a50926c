-------------------------------- MODULE Books --------------------------------
(***************************************************************************)
(* BookService as the running program executes it: every HTTP request is a *)
(* coroutine with a database session of its own, each SQL statement is an  *)
(* atomic step, and the steps of concurrent requests interleave at every   *)
(* await.  Transactions are READ COMMITTED (the engine sets no isolation   *)
(* level): a statement sees what has been committed before it; a flushed   *)
(* write stays invisible, and locks its row, until the commit.             *)
(*                                                                         *)
(* pc names the statement a request executes next.  A request that has     *)
(* been answered stays "done", with its status code, until Finish frees    *)
(* its slot.                                                               *)
(***************************************************************************)
EXTENDS BookRules

CONSTANTS
  Asked,              \* the calls clients make
  KeepsBook,          \* the filing handler holds on to check_filing's Book
  DocumentsKeepBook,  \* documents.book_id is a foreign key that restricts
  DocumentsFeature,   \* app.features.documents can be imported
  Superseding,        \* documents get new versions
  Faults              \* connections break and the process crashes

CreateCall == [op: {"create"}, user: User, number: Number, year: Year,
               status: BookStatus]
BookCall   == [op: {"close", "delete"}, user: User, book: Book]
\* checked: the filing handler runs check_filing before claim_entry.
FileCall   == [op: {"file"}, user: User, book: Book,
               doc_no: Int \cup {Nil}, page_no: Int \cup {Nil},
               checked: BOOLEAN]

\* A flushed change: the row the book is to have, Nil for a deletion.
Write == [book: Book, row: Row \cup {Nil}]

ASSUME CallAssumption ==
  /\ Asked \subseteq CreateCall \cup BookCall \cup FileCall
  /\ Nil \notin CreateCall \cup BookCall \cup FileCall \cup Write
  /\ KeepsBook \in BOOLEAN /\ DocumentsKeepBook \in BOOLEAN
  /\ DocumentsFeature \in BOOLEAN /\ Superseding \in BOOLEAN
  /\ Faults \in BOOLEAN

VARIABLES
  books,    \* committed rows of books
  docs,     \* committed rows of documents
  lock,     \* Book -> the request whose transaction holds the row lock
  pc,       \* Request -> the statement it executes next
  call,     \* Request -> the call it serves
  view,     \* Request -> the Book in its session's identity map
  write,    \* Request -> the flushed, uncommitted change of one book row
  entry,    \* Request -> the document it has claimed an entry for
  answer,   \* Request -> the HTTP status it was answered with
  minted,   \* the uuids already given to a book row
  held      \* history: the book of the call held a document when it began

vars == <<books, docs, lock, pc, call, view, write, entry, answer, minted, held>>

CreatePc == {"find_number", "find_open", "insert", "commit_create"}
BookPc   == {"get_close", "update", "commit_close", "refresh",
             "get_delete", "has_documents", "delete", "commit_delete"}
FilePc   == {"check", "lock", "claim", "commit_file"}
Running  == CreatePc \cup BookPc \cup FilePc

Status == {200, 201, 204, 400, 404, 409, 500}

TypeOK ==
  /\ books \in [Book -> Row \cup {Nil}]
  /\ docs \subseteq Document
  /\ lock \in [Book -> Request \cup {Nil}]
  /\ pc \in [Request -> Running \cup {"idle", "done"}]
  /\ call \in [Request -> CreateCall \cup BookCall \cup FileCall \cup {Nil}]
  /\ view \in [Request -> Row \cup {Nil}]
  /\ write \in [Request -> Write \cup {Nil}]
  /\ entry \in [Request -> Document \cup {Nil}]
  /\ answer \in [Request -> Status \cup {Nil}]
  /\ minted \subseteq Book
  /\ held \in [Request -> BOOLEAN]
  /\ \A r \in Request :
       /\ pc[r] \in CreatePc => call[r] \in CreateCall
       /\ pc[r] \in BookPc   => call[r] \in BookCall
       /\ pc[r] \in FilePc   => call[r] \in FileCall
       /\ pc[r] = "done"     => call[r] # Nil /\ answer[r] # Nil

Init ==
  /\ books = [b \in Book |-> Nil]
  /\ docs = {}
  /\ lock = [b \in Book |-> Nil]
  /\ pc = [r \in Request |-> "idle"]
  /\ call = [r \in Request |-> Nil]
  /\ view = [r \in Request |-> Nil]
  /\ write = [r \in Request |-> Nil]
  /\ entry = [r \in Request |-> Nil]
  /\ answer = [r \in Request |-> Nil]
  /\ minted = {}
  /\ held = [r \in Request |-> FALSE]

-----------------------------------------------------------------------------
(* One transaction.                                                        *)

Goto(r, label) == pc' = [pc EXCEPT ![r] = label] /\ UNCHANGED answer

Answer(r, status) ==
  /\ pc' = [pc EXCEPT ![r] = "done"]
  /\ answer' = [answer EXCEPT ![r] = status]

EndTransaction_KeepsLock(r) ==
  /\ write' = [write EXCEPT ![r] = Nil]
  /\ entry' = [entry EXCEPT ![r] = Nil]
  /\ UNCHANGED lock

\* Commit or rollback: the write set and the row locks are gone.  The loaded
\* Book is not (expire_on_commit is off).
EndTransaction(r) ==
  /\ write' = [write EXCEPT ![r] = Nil]
  /\ entry' = [entry EXCEPT ![r] = Nil]
  /\ lock' = [b \in Book |-> IF lock[b] = r THEN Nil ELSE lock[b]]

\* An exception leaves the handler: get_db rolls back and a handler of main.py
\* turns the exception into the status.
Refuse(r, status) ==
  /\ EndTransaction(r)
  /\ Answer(r, status)
  /\ UNCHANGED <<books, docs, call, view, minted, held>>

\* The flushed row and the claimed document become visible, both at once.
Apply(r) ==
  /\ books' = IF write[r] = Nil THEN books
              ELSE [books EXCEPT ![write[r].book] = write[r].row]
  /\ docs' = IF entry[r] = Nil THEN docs ELSE docs \cup {entry[r]}

Commit(r) ==
  /\ Apply(r)
  /\ EndTransaction(r)
  /\ UNCHANGED <<call, view, minted, held>>

\* A statement that needs the row lock waits while another transaction has it.
Unlocked(b) == Live(books, b) => lock[b] = Nil

\* The row lock is taken and the changed row flushed.
Flush(r, b, row) ==
  /\ lock' = [lock EXCEPT ![b] = r]
  /\ write' = [write EXCEPT ![r] = [book |-> b, row |-> row]]
  /\ UNCHANGED <<books, docs, call, view, entry, minted, held>>

\* A statement that changes nothing and needs no lock.
ReadOnly == UNCHANGED <<books, docs, lock, call, view, write, entry, minted, held>>

Closed_Toggle(row, r) ==
  [row EXCEPT !.status = IF row.status = "OPEN" THEN "CLOSED" ELSE "OPEN",
              !.closed_at = r]

\* repo.update(book, status=BOOK_CLOSED, closed_at=now): only these columns.
Closed(row, r) == [row EXCEPT !.status = "CLOSED", !.closed_at = r]

-----------------------------------------------------------------------------
(* create_book                                                             *)

NewRow(r) ==
  [user |-> call[r].user, number |-> call[r].number, year |-> call[r].year,
   status |-> call[r].status,
   closed_at |-> IF call[r].status = "CLOSED" THEN r ELSE Nil]

\* Guard 1: duplicate number.
FindByNumber(r) ==
  /\ pc[r] = "find_number"
  /\ \/ /\ \E b \in Book : Live(books, b) /\ SameNumber(books[b], NewRow(r))
        /\ Refuse(r, 400)
     \/ /\ \A b \in Book : Live(books, b) => ~SameNumber(books[b], NewRow(r))
        /\ Goto(r, IF call[r].status = "OPEN" THEN "find_open" ELSE "insert")
        /\ ReadOnly

\* Guard 2: one register in use per year.
FindOpen(r) ==
  /\ pc[r] = "find_open"
  /\ \/ /\ \E b \in Book : Live(books, b) /\ BothOpen(books[b], NewRow(r))
        /\ Refuse(r, 400)
     \/ /\ \A b \in Book : Live(books, b) => ~BothOpen(books[b], NewRow(r))
        /\ Goto(r, "insert")
        /\ ReadOnly

\* The uncommitted change of q touches an index key of row: the insertion
\* waits to learn whether q commits.
InsertWaitsFor(q, row) ==
  /\ write[q] # Nil
  /\ \/ write[q].row # Nil /\ Conflicting(write[q].row, row)
     \/ Live(books, write[q].book) /\ Conflicting(books[write[q].book], row)

InsertBook(r) ==
  /\ pc[r] = "insert"
  /\ \A q \in Request : ~InsertWaitsFor(q, NewRow(r))
  /\ \/ /\ \E b \in Book : Live(books, b) /\ Conflicting(books[b], NewRow(r))
        /\ Refuse(r, 400)
     \/ /\ \A b \in Book : Live(books, b) => ~Conflicting(books[b], NewRow(r))
        /\ \E b \in Book \ minted :
             /\ write' = [write EXCEPT ![r] = [book |-> b, row |-> NewRow(r)]]
             /\ minted' = minted \cup {b}
        /\ Goto(r, "commit_create")
        /\ UNCHANGED <<books, docs, lock, call, view, entry, held>>

CommitCreate(r) ==
  /\ pc[r] = "commit_create"
  /\ Commit(r)
  /\ Answer(r, 201)

-----------------------------------------------------------------------------
(* close_book                                                              *)

GetForClose(r) ==
  LET c == call[r] IN
  /\ pc[r] = "get_close"
  /\ \/ ~Owned(books, c.user, c.book) /\ Refuse(r, 404)
     \/ /\ Owned(books, c.user, c.book)
        /\ books[c.book].status = "CLOSED"
        /\ Refuse(r, 409)
     \/ /\ Owned(books, c.user, c.book)
        /\ books[c.book].status = "OPEN"
        /\ Goto(r, "update")
        /\ ReadOnly

\* UPDATE ... WHERE id: no row left to update is a StaleDataError.
UpdateStatus(r) ==
  LET b == call[r].book IN
  /\ pc[r] = "update"
  /\ Unlocked(b)
  /\ \/ ~Live(books, b) /\ Refuse(r, 500)
     \/ /\ Live(books, b)
        /\ Flush(r, b, Closed(books[b], r))
        /\ Goto(r, "commit_close")

CommitClose(r) ==
  /\ pc[r] = "commit_close"
  /\ Commit(r)
  /\ Goto(r, "refresh")

\* session.refresh needs the row, register_stats the documents feature.
RefreshClosed(r) ==
  /\ pc[r] = "refresh"
  /\ Answer(r, IF Live(books, call[r].book) /\ DocumentsFeature
               THEN 200 ELSE 500)
  /\ ReadOnly

-----------------------------------------------------------------------------
(* delete_book                                                             *)

GetForDelete(r) ==
  LET c == call[r] IN
  /\ pc[r] = "get_delete"
  /\ \/ ~Owned(books, c.user, c.book) /\ Refuse(r, 404)
     \/ /\ Owned(books, c.user, c.book)
        /\ Goto(r, "has_documents")
        /\ ReadOnly

CheckDocuments(r) ==
  LET b == call[r].book IN
  /\ pc[r] = "has_documents"
  /\ \/ /\ ~DocumentsFeature \/ HasDocuments(docs, b)
        /\ Refuse(r, IF DocumentsFeature THEN 409 ELSE 500)
     \/ /\ DocumentsFeature /\ ~HasDocuments(docs, b)
        /\ Goto(r, "delete")
        /\ ReadOnly

\* DELETE ... WHERE id.  A row that is gone already is only a warning.
DeleteRow(r) ==
  LET b == call[r].book IN
  /\ pc[r] = "delete"
  /\ Unlocked(b)
  /\ \/ ~Live(books, b) /\ Goto(r, "commit_delete") /\ ReadOnly
     \/ /\ Live(books, b)
        /\ DocumentsKeepBook /\ InBook(docs, b) # {}
        /\ Refuse(r, 500)
     \/ /\ Live(books, b)
        /\ DocumentsKeepBook => InBook(docs, b) = {}
        /\ Flush(r, b, Nil)
        /\ Goto(r, "commit_delete")

CommitDelete_Forgotten(r) ==
  /\ pc[r] = "commit_delete"
  /\ Answer(r, 204)
  /\ ReadOnly

CommitDelete(r) ==
  /\ pc[r] = "commit_delete"
  /\ Commit(r)
  /\ Answer(r, 204)

-----------------------------------------------------------------------------
(* Filing a document: check_filing, then claim_entry, then the caller's    *)
(* insert of the document and its commit.                                  *)

CheckFiling(r) ==
  LET c == call[r] IN
  /\ pc[r] = "check"
  /\ \/ ~Owned(books, c.user, c.book) /\ Refuse(r, 404)
     \/ /\ Owned(books, c.user, c.book)
        /\ NumbersRefused(books[c.book], c.doc_no, c.page_no)
        /\ Refuse(r, 400)
     \/ /\ Owned(books, c.user, c.book)
        /\ ~NumbersRefused(books[c.book], c.doc_no, c.page_no)
        /\ view' = [view EXCEPT ![r] = IF KeepsBook THEN books[c.book] ELSE Nil]
        /\ Goto(r, "lock")
        /\ UNCHANGED <<books, docs, lock, call, write, entry, minted, held>>

\* The Book claim_entry works with: SELECT ... FOR UPDATE returns the object
\* already in the session's identity map without refreshing it.
Loaded(r) == IF view[r] # Nil THEN view[r] ELSE books[call[r].book]

LockBook_NoLock(r) ==
  LET c == call[r] IN
  /\ pc[r] = "lock"
  /\ \/ ~Owned(books, c.user, c.book) /\ Refuse(r, 404)
     \/ /\ Owned(books, c.user, c.book)
        /\ NumbersRefused(Loaded(r), c.doc_no, c.page_no)
        /\ Refuse(r, 400)
     \/ /\ Owned(books, c.user, c.book)
        /\ ~NumbersRefused(Loaded(r), c.doc_no, c.page_no)
        /\ view' = [view EXCEPT ![r] = Loaded(r)]
        /\ Goto(r, "claim")
        /\ UNCHANGED <<books, docs, lock, call, write, entry, minted, held>>

LockBook_NoRecheck(r) ==
  LET c == call[r] IN
  /\ pc[r] = "lock"
  /\ \/ ~Owned(books, c.user, c.book) /\ Refuse(r, 404)
     \/ /\ Owned(books, c.user, c.book)
        /\ lock[c.book] = Nil
        /\ lock' = [lock EXCEPT ![c.book] = r]
        /\ view' = [view EXCEPT ![r] = Loaded(r)]
        /\ Goto(r, "claim")
        /\ UNCHANGED <<books, docs, call, write, entry, minted, held>>

LockBook(r) ==
  LET c == call[r] IN
  /\ pc[r] = "lock"
  /\ \/ ~Owned(books, c.user, c.book) /\ Refuse(r, 404)
     \/ /\ Owned(books, c.user, c.book)
        /\ lock[c.book] = Nil
        /\ NumbersRefused(Loaded(r), c.doc_no, c.page_no)
        /\ Refuse(r, 400)
     \/ /\ Owned(books, c.user, c.book)
        /\ lock[c.book] = Nil
        /\ ~NumbersRefused(Loaded(r), c.doc_no, c.page_no)
        /\ lock' = [lock EXCEPT ![c.book] = r]
        /\ view' = [view EXCEPT ![r] = Loaded(r)]
        /\ Goto(r, "claim")
        /\ UNCHANGED <<books, docs, call, write, entry, minted, held>>

\* The entry asked for, each number the caller left out taken from the
\* suggestion.
EntryDocNo(r) ==
  IF call[r].doc_no # Nil THEN call[r].doc_no ELSE NextDocNo(docs, call[r].book)
EntryPageNo(r) ==
  IF call[r].page_no # Nil THEN call[r].page_no ELSE NextPageNo(docs, call[r].book)

\* Why claim_entry turns a filing away once it has the lock, in its order.
NoEntryLeft(r) ==
  /\ call[r].doc_no = Nil \/ call[r].page_no = Nil
  /\ NoPagesLeft(docs, call[r].book)
DocNoTooLarge(r) == EntryDocNo(r) \notin DocNo
EntryTaken(r) ==
  \/ IsDocNoTaken(docs, call[r].book, EntryDocNo(r))
  \/ PageFull(docs, call[r].book, EntryPageNo(r))

ClaimStatus(r) ==
  CASE ~DocumentsFeature -> 500
    [] DocumentsFeature /\ NoEntryLeft(r) -> 400
    [] DocumentsFeature /\ ~NoEntryLeft(r) /\ DocNoTooLarge(r) -> 500
    [] OTHER -> 409

\* The document number, the page, and the book it closes if it is the last.
ClaimEntry(r) ==
  LET b == call[r].book
      refused == \/ ~DocumentsFeature \/ NoEntryLeft(r)
                 \/ DocNoTooLarge(r) \/ EntryTaken(r)
  IN
  /\ pc[r] = "claim"
  /\ \/ refused /\ Refuse(r, ClaimStatus(r))
     \/ /\ ~refused
        /\ entry' = [entry EXCEPT ![r] =
             [book |-> b, doc_no |-> EntryDocNo(r), page_no |-> EntryPageNo(r),
              latest |-> TRUE, by |-> r]]
        /\ write' = [write EXCEPT ![r] =
             IF view[r].status = "OPEN" /\ UsesUpLastPage(docs, b, EntryPageNo(r))
             THEN [book |-> b, row |-> Closed(books[b], r)]
             ELSE Nil]
        /\ Goto(r, "commit_file")
        /\ UNCHANGED <<books, docs, lock, call, view, minted, held>>

\* External: the caller inserts the document row and commits once for both.
CommitFile(r) ==
  /\ pc[r] = "commit_file"
  /\ Commit(r)
  /\ Answer(r, 201)

\* External: the caller gives up after the claim.
AbandonFile(r) ==
  /\ pc[r] = "commit_file"
  /\ Refuse(r, 500)

\* External: a new version of a document takes over elsewhere.
Supersede(d) ==
  /\ Superseding
  /\ d.latest
  /\ docs' = Superseded(docs, d)
  /\ UNCHANGED <<books, lock, pc, call, view, write, entry, answer, minted, held>>

-----------------------------------------------------------------------------
(* Requests come and go; connections and the process fail.                 *)

FirstPc(c) ==
  CASE c.op = "create" -> "find_number"
    [] c.op = "close"  -> "get_close"
    [] c.op = "delete" -> "get_delete"
    [] c.op = "file"   -> IF c.checked THEN "check" ELSE "lock"

\* Bound: a uuid is never given twice and the model has only Book of them.
UuidLeft ==
  Cardinality({r \in Request : pc[r] \in CreatePc \ {"commit_create"}})
    < Cardinality(Book \ minted)

Begin(r) ==
  /\ pc[r] = "idle"
  /\ \E c \in Asked :
       /\ c.op = "create" => UuidLeft
       /\ call' = [call EXCEPT ![r] = c]
       /\ pc' = [pc EXCEPT ![r] = FirstPc(c)]
       /\ held' = [held EXCEPT ![r] =
            c.op # "create" /\ InBook(docs, c.book) # {}]
  /\ UNCHANGED <<books, docs, lock, view, write, entry, answer, minted>>

\* The response is out and the session closed.
Finish(r) ==
  /\ pc[r] = "done"
  /\ pc' = [pc EXCEPT ![r] = "idle"]
  /\ call' = [call EXCEPT ![r] = Nil]
  /\ view' = [view EXCEPT ![r] = Nil]
  /\ answer' = [answer EXCEPT ![r] = Nil]
  /\ held' = [held EXCEPT ![r] = FALSE]
  /\ UNCHANGED <<books, docs, lock, write, entry, minted>>

\* The connection breaks under a statement: an SQLAlchemyError.
StatementFails(r) ==
  /\ Faults
  /\ pc[r] \in Running
  /\ Refuse(r, 500)

CommitPc == {"commit_create", "commit_close", "commit_delete", "commit_file"}

\* The connection breaks under a COMMIT the server has carried out.
CommitAnswerLost(r) ==
  /\ Faults
  /\ pc[r] \in CommitPc
  /\ Commit(r)
  /\ Answer(r, 500)

\* The one uvicorn process dies: PostgreSQL rolls every transaction back.
Crash ==
  /\ Faults
  /\ pc' = [r \in Request |-> "idle"]
  /\ call' = [r \in Request |-> Nil]
  /\ view' = [r \in Request |-> Nil]
  /\ write' = [r \in Request |-> Nil]
  /\ entry' = [r \in Request |-> Nil]
  /\ answer' = [r \in Request |-> Nil]
  /\ held' = [r \in Request |-> FALSE]
  /\ lock' = [b \in Book |-> Nil]
  /\ UNCHANGED <<books, docs, minted>>

\* The statements that may wait for another transaction.
LockStep(r) == InsertBook(r) \/ UpdateStatus(r) \/ DeleteRow(r) \/ LockBook(r)

OtherStep(r) ==
  \/ FindByNumber(r) \/ FindOpen(r) \/ CommitCreate(r)
  \/ GetForClose(r) \/ CommitClose(r) \/ RefreshClosed(r)
  \/ GetForDelete(r) \/ CheckDocuments(r) \/ CommitDelete(r)
  \/ CheckFiling(r) \/ ClaimEntry(r) \/ CommitFile(r)

Next ==
  \/ \E r \in Request :
       \/ Begin(r) \/ LockStep(r) \/ OtherStep(r) \/ Finish(r)
       \/ AbandonFile(r) \/ StatementFails(r) \/ CommitAnswerLost(r)
  \/ \E d \in docs : Supersede(d)
  \/ Crash

Spec == Init /\ [][Next]_vars

\* A statement is executed once nothing holds it back; PostgreSQL queues the
\* waiters of a lock, so one that is free again and again is granted.
Fairness ==
  \A r \in Request : WF_vars(OtherStep(r)) /\ SF_vars(LockStep(r))

FairSpec == Spec /\ Fairness

-----------------------------------------------------------------------------
(* Properties.                                                             *)

\* No two books of a lawyer carry the same number in the same year, even when
\* two create_book calls pass Guard 1 together (books/models.py:21).
UniqueNumbers ==
  \A b, c \in Book :
    b # c /\ Live(books, b) /\ Live(books, c) => ~SameNumber(books[b], books[c])

\* At most one book of a lawyer is open in a year, even when two create_book
\* calls pass Guard 2 together (books/service.py:56).
OneOpenPerYear ==
  \A b, c \in Book :
    b # c /\ Live(books, b) /\ Live(books, c) => ~BothOpen(books[b], books[c])

\* A closed book is never open again, whatever closes and filings race
\* ("One-way", books/router.py:95).
ClosedStaysClosed ==
  [][\A b \in Book :
       Live(books, b) /\ books[b].status = "CLOSED" /\ Live(books, b)' =>
         books'[b].status = "CLOSED"]_vars

\* Within a book no two current documents share a Doc. No.: concurrent filings
\* see each other through the row lock (books/service.py:151-153).
DistinctDocNos ==
  \A d, e \in docs :
    d # e /\ d.latest /\ e.latest /\ d.book = e.book => d.doc_no # e.doc_no

\* No page holds more than MAX_ENTRIES_PER_PAGE current documents.
PageCapacity ==
  \A b \in Book, p \in Page : CountOnPage(docs, b, p) <= MaxEntriesPerPage

\* A book whose last page is full is closed: the entry that fills it closes it
\* in the same commit (books/service.py:175), so an open book always has a
\* next entry to suggest.
FullRegisterIsClosed ==
  \A b \in Book :
    Live(books, b) /\ CountOnPage(docs, b, MaxPages) >= MaxEntriesPerPage =>
      books[b].status = "CLOSED"

Filing(r) == pc[r] = "commit_file" /\ docs' # docs /\ pc'[r] # "commit_file"

\* A document filed without explicit numbers goes into a book that is open at
\* that moment (books/service.py:195).
AutoNumbersNeedOpenBook ==
  [][\A r \in Request :
       Filing(r) /\ (call[r].doc_no = Nil \/ call[r].page_no = Nil) =>
         books[call[r].book].status = "OPEN"]_vars

\* A suggested Doc. No. comes after every current one, and a suggested page is
\* never before the last page in use, at the moment the document is filed.
AutoNumbersFollow ==
  [][\A r \in Request : Filing(r) =>
       \A d \in Latest(docs, call[r].book) :
         /\ call[r].doc_no = Nil => entry[r].doc_no > d.doc_no
         /\ call[r].page_no = Nil => entry[r].page_no >= d.page_no]_vars

\* A register without a gap: every Doc. No. before a current one is in use, a
\* page is begun when those before it are full, and later numbers are not on
\* earlier pages.
Unbroken(D, b) ==
  /\ \A d \in Latest(D, b) : \A n \in 1 .. d.doc_no : IsDocNoTaken(D, b, n)
  /\ \A d \in Latest(D, b) : \A p \in 1 .. (d.page_no - 1) : PageFull(D, b, p)
  /\ \A d, e \in Latest(D, b) : d.doc_no <= e.doc_no => d.page_no <= e.page_no

\* A document filed without explicit numbers leaves no gap behind it: between
\* the suggestion and the commit nobody else files in the book
\* (books/service.py:151-153).
SuggestionsLeaveNoGap ==
  [][\A r \in Request :
       /\ Filing(r) /\ call[r].doc_no = Nil /\ call[r].page_no = Nil
       /\ Unbroken(docs, call[r].book)
       => Unbroken(docs', call[r].book)]_vars

\* A delete_book that comes upon a document in its book is refused: 409, "Book
\* still holds documents" (books/router.py:122-131).
FiledBooksAreRefused ==
  \A r \in Request :
    /\ pc[r] = "done" /\ call[r].op = "delete"
    /\ InBook(docs, call[r].book) # {}
    => answer[r] \in {404, 409}

\* A book that held a document, in whatever version, when a delete began is
\* not what that delete removes (books/service.py:113).
DeleteSparesFiled ==
  \A r \in Request : pc[r] = "commit_delete" /\ held[r] => write[r] = Nil

\* A change of a book row is the work of a request of its owner.
OwnersOnly ==
  [][\A b \in Book : Live(books, b) /\ books'[b] # books[b] =>
       \E r \in Request : /\ pc[r] \in CommitPc
                          /\ write[r] # Nil /\ write[r].book = b
                          /\ call[r].user = books[b].user]_vars

\* What an answer says has been committed by the time it is given.
AnswersHold ==
  \A r \in Request : pc[r] = "done" =>
    /\ call[r].op = "delete" /\ answer[r] = 204 => ~Live(books, call[r].book)
    /\ call[r].op = "close" /\ answer[r] \in {200, 409} /\ Live(books, call[r].book)
         => books[call[r].book].status = "CLOSED"

\* Two concurrent closes do not both report that they closed the book: the
\* second finds it "already closed" (409, books/router.py:103).
CloseAnsweredOnce ==
  \A r, q \in Request :
    /\ r # q /\ pc[r] = "done" /\ pc[q] = "done"
    /\ call[r].op = "close" /\ call[q].op = "close"
    /\ call[r].book = call[q].book
    => ~(answer[r] = 200 /\ answer[q] = 200)

\* A book a request has closed is reported closed: 200 (books/router.py:100).
CommittedCloseIsReported ==
  \A r \in Request :
    pc[r] = "done" /\ call[r].op = "close" /\ answer[r] = 500 /\ Live(books, call[r].book)
      => books[call[r].book].closed_at # r

\* Every call is answered, unless the process dies first: no handler waits
\* forever for the locks of the others.
EveryCallAnswered ==
  \A r \in Request : pc[r] \in Running ~> pc[r] \in {"done", "idle"}

\* q holds what the next statement of r waits for: a row lock, or the
\* uncommitted entry of a unique index.
Blocks(q, r) ==
  \/ pc[r] = "insert" /\ InsertWaitsFor(q, NewRow(r))
  \/ /\ pc[r] \in {"update", "delete", "lock"}
     /\ Live(books, call[r].book) /\ lock[call[r].book] = q

\* Requests cannot wait for each other in a circle: whoever holds what another
\* request waits for has its locks together and goes on to its commit without
\* waiting, so the lock of claim_entry adds no deadlock (books/service.py:153).
HoldersNeverWait ==
  \A q, r \in Request : q # r /\ Blocks(q, r) => pc[q] \in CommitPc \cup {"claim"}

\* The committed tables behave like the register that serves one request at a
\* time.
Rg == INSTANCE Register
ImplementsRegister == Rg!Spec

\* Where a call stands for the client who made it.
Standing(r) ==
  CASE pc[r] = "idle" -> "free"
    [] pc[r] \in Running \ {"refresh"} -> "asked"
    [] pc[r] = "refresh" -> "served"
    [] pc[r] = "done" /\ answer[r] \in {200, 201, 204} -> "success"
    [] pc[r] = "done" /\ answer[r] \in {400, 404, 409} -> "refused"
    [] OTHER -> "error"

\* A call takes effect in one moment between its beginning and its answer, and
\* the answer tells: a 2xx that it has, a 4xx that at some moment in between it
\* could not and that it never will; a 500 tells nothing (books/service.py:41-110,
\* 142-190, main.py:41).
Dk == INSTANCE Desk WITH desk <- [r \in Request |-> Standing(r)]
ImplementsDesk == Dk!DeskSpec
=============================================================================
