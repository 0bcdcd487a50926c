----------------------------- MODULE BooksProofs -----------------------------
(***************************************************************************)
(* What Books promises for every number of requests, books, users, pages   *)
(* and lines, with DocumentsKeepBook, KeepsBook, DocumentsFeature,         *)
(* Superseding and Faults either way.                                      *)
(*                                                                         *)
(* The argument: a transaction that is about to commit still has the       *)
(* ground its decision stood on.  An insertion conflicts with no committed *)
(* row and no other pending insertion (the unique indexes make the second  *)
(* one wait); an update, a deletion and a filing hold the lock of a row    *)
(* that is still there and has not changed since.                          *)
(***************************************************************************)
EXTENDS Books, TLAPS, FiniteSetTheorems, WellFoundedInduction

-----------------------------------------------------------------------------
(* The inductive invariant.                                                *)

HoldsNothing(r) ==
  /\ write[r] = Nil
  /\ entry[r] = Nil
  /\ \A b \in Book : lock[b] # r

\* The transaction of r holds the lock of b, and the row is there.
Holds(r, b) == lock[b] = r /\ Live(books, b)

CreatePending(r) ==
  /\ write[r] # Nil /\ entry[r] = Nil
  /\ write[r].row = NewRow(r)
  /\ books[write[r].book] = Nil
  /\ write[r].book \in minted
  /\ InBook(docs, write[r].book) = {}
  /\ \A b \in Book : Live(books, b) => ~Conflicting(books[b], write[r].row)
  /\ \A q \in Request : q # r /\ pc[q] = "commit_create" =>
       /\ write[q].book # write[r].book
       /\ ~Conflicting(write[q].row, write[r].row)
  /\ \A q \in Request : pc[q] = "lock" /\ view[q] # Nil =>
       call[q].book # write[r].book

ClosePending(r) ==
  /\ entry[r] = Nil
  /\ Holds(r, call[r].book)
  /\ write[r] = [book |-> call[r].book, row |-> Closed(books[call[r].book], r)]

DeletePending(r) ==
  \/ HoldsNothing(r)
  \/ /\ entry[r] = Nil
     /\ Holds(r, call[r].book)
     /\ write[r] = [book |-> call[r].book, row |-> Nil]
     /\ DocumentsKeepBook => InBook(docs, call[r].book) = {}

ByItself(r) == call[r].doc_no = Nil \/ call[r].page_no = Nil

Claiming(r) ==
  /\ write[r] = Nil /\ entry[r] = Nil
  /\ Holds(r, call[r].book)
  /\ view[r] # Nil
  /\ view[r].status = "CLOSED" => books[call[r].book].status = "CLOSED"
  /\ call[r].page_no \in Page \cup {Nil}
  /\ ~KeepsBook /\ ByItself(r) => books[call[r].book].status = "OPEN"

FilePending(r) ==
  LET b == call[r].book
      e == entry[r]
  IN
  /\ e # Nil
  /\ e.book = b /\ e.latest /\ e.by = r
  /\ Holds(r, b)
  /\ \A d \in Latest(docs, b) :
       /\ d.doc_no # e.doc_no
       /\ call[r].doc_no = Nil => d.doc_no < e.doc_no
       /\ call[r].page_no = Nil => d.page_no <= e.page_no
  /\ CountOnPage(docs, b, e.page_no) < MaxEntriesPerPage
  /\ \/ /\ write[r] = Nil
        /\ \/ books[b].status = "CLOSED"
           \/ e.page_no # MaxPages
           \/ CountOnPage(docs, b, e.page_no) + 1 < MaxEntriesPerPage
     \/ /\ write[r] = [book |-> b, row |-> Closed(books[b], r)]
        /\ e.page_no = MaxPages
  /\ ~KeepsBook /\ ByItself(r) => books[b].status = "OPEN"

\* What the Book in the session's identity map may say of the row.
ViewInv(r) ==
  /\ pc[r] \in {"idle", "check"} => view[r] = Nil
  /\ pc[r] = "lock" /\ view[r] # Nil =>
       /\ KeepsBook
       /\ call[r].book \in minted
       /\ Live(books, call[r].book) /\ view[r].status = "CLOSED" =>
            books[call[r].book].status = "CLOSED"

RequestInv(r) ==
  /\ pc[r] \notin CommitPc \cup {"claim"} => HoldsNothing(r)
  /\ pc[r] = "commit_create" => CreatePending(r)
  /\ pc[r] = "commit_close"  => ClosePending(r)
  /\ pc[r] = "commit_delete" => DeletePending(r)
  /\ pc[r] = "claim"         => Claiming(r)
  /\ pc[r] = "commit_file"   => FilePending(r)
  /\ ViewInv(r)

BooksInv ==
  /\ \A b \in Book : Live(books, b) => b \in minted
  /\ \A b, c \in Book : b # c /\ Live(books, b) /\ Live(books, c) =>
       ~Conflicting(books[b], books[c])

DocsInv ==
  /\ IsFiniteSet(docs)
  /\ \A d \in docs : d.book \in minted
  /\ DistinctDocNos
  /\ PageCapacity
  /\ FullRegisterIsClosed

IInv == TypeOK /\ BooksInv /\ DocsInv /\ \A r \in Request : RequestInv(r)

-----------------------------------------------------------------------------
(* Facts about the tables.                                                 *)

\* The highest of some numbers up to N exists and is one of them.
LEMMA HighestExists ==
  ASSUME NEW N \in Nat, NEW S \in SUBSET (1 .. N), S # {}
  PROVE  Highest(S) \in S /\ \A m \in S : m <= Highest(S)
<1> DEFINE T == {k \in Nat : N - k \in S}
<1>1. T \subseteq Nat
  OBVIOUS
<1>2. T # {}
  <2>1. PICK s \in S : TRUE
    OBVIOUS
  <2>2. s \in 1 .. N
    BY <2>1
  <2>3. N - s \in Nat /\ N - (N - s) = s
    BY <2>2
  <2> QED BY <2>3
<1>3. PICK x \in T : \A y \in T : <<y, x>> \notin OpToRel(<, Nat)
  <2> HIDE DEF T
  <2> QED BY <1>1, <1>2, WFMin, NatLessThanWellFounded, Zenon
<1>4. x \in Nat /\ N - x \in S
  BY <1>3
<1>5. \A y \in T : y \in Nat /\ ~(y < x)
  BY <1>1, <1>3, <1>4, Zenon DEF OpToRel
<1>6. \A m \in S : m <= N - x
  <2>1. TAKE m \in S
  <2>2. m \in 1 .. N
    OBVIOUS
  <2>3. N - m \in Nat /\ N - (N - m) = m
    BY <2>2
  <2>4. ~(N - m < x)
    BY <2>3, <1>5
  <2> QED BY <2>2, <2>4, <1>4
<1> HIDE DEF T
<1> QED BY <1>4, <1>6 DEF Highest

\* The last Doc. No. and page of a book that has entries.
LEMMA LastEntry ==
  ASSUME NEW D \in SUBSET Document, NEW b \in Book, Latest(D, b) # {}
  PROVE  /\ LastDocNo(D, b) \in DocNo
         /\ LastPageNo(D, b) \in Page
         /\ \A d \in Latest(D, b) :
              d.doc_no <= LastDocNo(D, b) /\ d.page_no <= LastPageNo(D, b)
<1> DEFINE N == {d.doc_no : d \in Latest(D, b)}
           P == {d.page_no : d \in Latest(D, b)}
<1>1. N \in SUBSET (1 .. MaxDocNo) /\ N # {} /\ MaxDocNo \in Nat
  BY CapacityAssumption DEF Latest, Document, DocNo
<1>2. P \in SUBSET (1 .. MaxPages) /\ P # {} /\ MaxPages \in Nat
  BY CapacityAssumption DEF Latest, Document, Page
<1>3. Highest(N) \in N /\ \A m \in N : m <= Highest(N)
  BY <1>1, HighestExists
<1>4. Highest(P) \in P /\ \A m \in P : m <= Highest(P)
  BY <1>2, HighestExists
<1> QED BY <1>1, <1>2, <1>3, <1>4 DEF LastDocNo, LastPageNo, DocNo, Page

\* The suggestion of _next_entry: after every current Doc. No., on the last
\* page in use or the one after it.
LEMMA NextEntry ==
  ASSUME NEW D \in SUBSET Document, NEW b \in Book
  PROVE  /\ NextDocNo(D, b) \in Nat \ {0}
         /\ \A d \in Latest(D, b) : d.doc_no < NextDocNo(D, b)
         /\ NextPageNo(D, b) \in Nat \ {0}
         /\ \A d \in Latest(D, b) : d.page_no <= NextPageNo(D, b)
         /\ ~NoPagesLeft(D, b) => NextPageNo(D, b) \in Page
<1>1. CASE Latest(D, b) = {}
  BY <1>1, CapacityAssumption DEF NextDocNo, NextPageNo, NoPagesLeft, Page
<1>2. CASE Latest(D, b) # {}
  <2>1. /\ LastDocNo(D, b) \in Nat \ {0} /\ LastPageNo(D, b) \in Nat \ {0}
        /\ \A d \in Latest(D, b) : /\ d.doc_no \in Nat /\ d.page_no \in Nat
                                   /\ d.doc_no <= LastDocNo(D, b)
                                   /\ d.page_no <= LastPageNo(D, b)
    BY <1>2, LastEntry, CapacityAssumption DEF DocNo, Page, Latest, Document
  <2>2. /\ NextDocNo(D, b) = LastDocNo(D, b) + 1
        /\ NextPageNo(D, b) \in {LastPageNo(D, b), LastPageNo(D, b) + 1}
    BY <1>2 DEF NextDocNo, NextPageNo
  <2> QED BY <2>1, <2>2, CapacityAssumption DEF NoPagesLeft, Page
<1> QED BY <1>1, <1>2

\* Pages are counted in natural numbers.
LEMMA CountType ==
  ASSUME NEW D, IsFiniteSet(D), NEW b, NEW p
  PROVE  /\ IsFiniteSet(OnPage(D, b, p))
         /\ CountOnPage(D, b, p) \in Nat
<1>1. OnPage(D, b, p) \in SUBSET D
  BY DEF OnPage, Latest
<1>2. IsFiniteSet(OnPage(D, b, p))
  BY <1>1, FS_Subset
<1> QED BY <1>2, FS_CardinalityType DEF CountOnPage

\* A page with fewer entries has a smaller count.
LEMMA CountMonotone ==
  ASSUME NEW D, IsFiniteSet(D), NEW E, NEW b, NEW p,
         OnPage(E, b, p) \subseteq OnPage(D, b, p)
  PROVE  /\ CountOnPage(E, b, p) \in Nat
         /\ CountOnPage(E, b, p) <= CountOnPage(D, b, p)
<1>1. IsFiniteSet(OnPage(D, b, p))
  BY CountType
<1>2. OnPage(E, b, p) \in SUBSET OnPage(D, b, p)
  OBVIOUS
<1>3. /\ IsFiniteSet(OnPage(E, b, p))
      /\ Cardinality(OnPage(E, b, p)) <= Cardinality(OnPage(D, b, p))
  BY <1>1, <1>2, FS_Subset
<1> QED BY <1>3, FS_CardinalityType DEF CountOnPage

\* Filing e adds one line to its page, to no other.
LEMMA CountAfterFiling ==
  ASSUME NEW D, IsFiniteSet(D), NEW e, e.latest, NEW b, NEW p
  PROVE  /\ IsFiniteSet(D \cup {e})
         /\ CountOnPage(D \cup {e}, b, p) \in Nat
         /\ CountOnPage(D \cup {e}, b, p) <= CountOnPage(D, b, p) + 1
         /\ (e.book # b \/ e.page_no # p) =>
              CountOnPage(D \cup {e}, b, p) = CountOnPage(D, b, p)
<1>1. IsFiniteSet(D \cup {e})
  BY FS_AddElement
<1>2. IsFiniteSet(OnPage(D, b, p)) /\ CountOnPage(D, b, p) \in Nat
  BY CountType
<1>3. CASE e.book = b /\ e.page_no = p
  <2>1. OnPage(D \cup {e}, b, p) = OnPage(D, b, p) \cup {e}
    BY <1>3 DEF OnPage, Latest
  <2>2. \/ Cardinality(OnPage(D, b, p) \cup {e}) = Cardinality(OnPage(D, b, p))
        \/ Cardinality(OnPage(D, b, p) \cup {e}) = Cardinality(OnPage(D, b, p)) + 1
    BY <1>2, FS_AddElement
  <2>3. CountOnPage(D \cup {e}, b, p) \in {CountOnPage(D, b, p), CountOnPage(D, b, p) + 1}
    BY <2>1, <2>2 DEF CountOnPage
  <2> QED BY <1>1, <1>2, <1>3, <2>3
<1>4. CASE e.book # b \/ e.page_no # p
  <2>1. OnPage(D \cup {e}, b, p) = OnPage(D, b, p)
    BY <1>4 DEF OnPage, Latest
  <2> QED BY <1>1, <1>2, <2>1, <1>4 DEF CountOnPage
<1> QED BY <1>3, <1>4

\* A closed row is a row that no index refuses where the open one stood.
LEMMA ClosedRow ==
  ASSUME NEW row \in Row, NEW r \in Request
  PROVE  /\ Closed(row, r) \in Row
         /\ Closed(row, r).status = "CLOSED"
         /\ Closed(row, r).closed_at = r
         /\ Closed(row, r).user = row.user
         /\ \A x \in Row : /\ Conflicting(Closed(row, r), x) => Conflicting(row, x)
                           /\ Conflicting(x, Closed(row, r)) => Conflicting(x, row)
BY DEF Closed, Row, BookStatus, Conflicting, SameNumber, BothOpen

-----------------------------------------------------------------------------
(* The kinds of step.  Most statements of most handlers do one of three    *)
(* things: they roll back, they go on, they commit.                        *)

Rollback(r) == pc[r] \in Running /\ \E s \in Status : Refuse(r, s)

Advance(r) ==
  /\ ReadOnly
  /\ \E l \in {"find_open", "insert", "update", "has_documents", "delete",
               "commit_delete", "done"} :
       /\ pc' = [pc EXCEPT ![r] = l]
       /\ pc[r] \in Running \ (CommitPc \cup FilePc)
       /\ pc[r] \in CreatePc <=> l \in {"find_open", "insert"}
       /\ l = "done" => \E s \in Status : answer' = [answer EXCEPT ![r] = s]
       /\ l # "done" => UNCHANGED answer

Settle(r) ==
  /\ pc[r] \in CommitPc
  /\ Commit(r)
  /\ \/ pc[r] = "commit_close" /\ Goto(r, "refresh")
     \/ \E s \in Status : Answer(r, s)

Insert(r) ==
  /\ pc[r] = "insert"
  /\ \A q \in Request : ~InsertWaitsFor(q, NewRow(r))
  /\ \A b \in Book : Live(books, b) => ~Conflicting(books[b], NewRow(r))
  /\ \E b \in Book \ minted :
       /\ write' = [write EXCEPT ![r] = [book |-> b, row |-> NewRow(r)]]
       /\ minted' = minted \cup {b}
  /\ Goto(r, "commit_create")
  /\ UNCHANGED <<books, docs, lock, call, view, entry, held>>

FlushClose(r) ==
  LET b == call[r].book IN
  /\ pc[r] = "update" /\ lock[b] = Nil /\ Live(books, b)
  /\ Flush(r, b, Closed(books[b], r))
  /\ Goto(r, "commit_close")

FlushDelete(r) ==
  LET b == call[r].book IN
  /\ pc[r] = "delete" /\ lock[b] = Nil /\ Live(books, b)
  /\ DocumentsKeepBook => InBook(docs, b) = {}
  /\ Flush(r, b, Nil)
  /\ Goto(r, "commit_delete")

Check(r) ==
  /\ pc[r] = "check"
  /\ Live(books, call[r].book)
  /\ view' = [view EXCEPT ![r] = IF KeepsBook THEN books[call[r].book] ELSE Nil]
  /\ Goto(r, "lock")
  /\ UNCHANGED <<books, docs, lock, call, write, entry, minted, held>>

Lock(r) ==
  LET c == call[r] IN
  /\ pc[r] = "lock"
  /\ Live(books, c.book) /\ lock[c.book] = Nil
  /\ ~NumbersRefused(Loaded(r), c.doc_no, c.page_no)
  /\ lock' = [lock EXCEPT ![c.book] = r]
  /\ view' = [view EXCEPT ![r] = Loaded(r)]
  /\ Goto(r, "claim")
  /\ UNCHANGED <<books, docs, call, write, entry, minted, held>>

Claim(r) ==
  LET b == call[r].book IN
  /\ pc[r] = "claim"
  /\ ~NoEntryLeft(r) /\ ~DocNoTooLarge(r) /\ ~EntryTaken(r)
  /\ entry' = [entry EXCEPT ![r] =
       [book |-> b, doc_no |-> EntryDocNo(r), page_no |-> EntryPageNo(r),
        latest |-> TRUE, by |-> r]]
  /\ write' = [write EXCEPT ![r] =
       IF view[r].status = "OPEN" /\ UsesUpLastPage(docs, b, EntryPageNo(r))
       THEN [book |-> b, row |-> Closed(books[b], r)] ELSE Nil]
  /\ Goto(r, "commit_file")
  /\ UNCHANGED <<books, docs, lock, call, view, minted, held>>

\* Every step of Books is of one of these kinds.
LEMMA StepKinds ==
  ASSUME Next
  PROVE  \/ \E r \in Request :
              \/ Begin(r) \/ Finish(r) \/ Rollback(r) \/ Advance(r) \/ Settle(r)
              \/ Insert(r) \/ FlushClose(r) \/ FlushDelete(r)
              \/ Check(r) \/ Lock(r) \/ Claim(r)
         \/ \E d \in docs : Supersede(d)
         \/ Crash
<1> USE DEF Running, CreatePc, BookPc, FilePc, CommitPc, Status
<1>1. ASSUME NEW r \in Request, LockStep(r)
      PROVE  \/ Rollback(r) \/ Advance(r) \/ Insert(r) \/ FlushClose(r)
             \/ FlushDelete(r) \/ Lock(r)
  <2>1. CASE InsertBook(r)
    BY <2>1 DEF InsertBook, Rollback, Insert
  <2>2. CASE UpdateStatus(r)
    BY <2>2 DEF UpdateStatus, Rollback, FlushClose, Unlocked
  <2>3. CASE DeleteRow(r)
    <3>1. CASE ~Live(books, call[r].book)
      BY <2>3, <3>1 DEF DeleteRow, Advance, Goto
    <3>2. CASE Live(books, call[r].book)
      BY <2>3, <3>2 DEF DeleteRow, Rollback, FlushDelete, Unlocked
    <3> QED BY <3>1, <3>2
  <2>4. CASE LockBook(r)
    BY <2>4 DEF LockBook, Rollback, Lock, Owned
  <2> QED BY <1>1, <2>1, <2>2, <2>3, <2>4 DEF LockStep
<1>2. ASSUME NEW r \in Request, OtherStep(r)
      PROVE  Rollback(r) \/ Advance(r) \/ Settle(r) \/ Check(r) \/ Claim(r)
  <2>1. CASE FindByNumber(r)
    BY <2>1 DEF FindByNumber, Rollback, Advance, Goto
  <2>2. CASE FindOpen(r)
    BY <2>2 DEF FindOpen, Rollback, Advance, Goto
  <2>3. CASE CommitCreate(r)
    BY <2>3 DEF CommitCreate, Settle
  <2>4. CASE GetForClose(r)
    BY <2>4 DEF GetForClose, Rollback, Advance, Goto
  <2>5. CASE CommitClose(r)
    BY <2>5 DEF CommitClose, Settle
  <2>6. CASE RefreshClosed(r)
    <3>1. PICK s \in {200, 500} : Answer(r, s)
      BY <2>6 DEF RefreshClosed
    <3>2. s \in Status /\ answer' = [answer EXCEPT ![r] = s]
      BY <3>1 DEF Answer
    <3>3. pc[r] = "refresh" /\ pc' = [pc EXCEPT ![r] = "done"] /\ ReadOnly
      BY <2>6, <3>1 DEF RefreshClosed, Answer
    <3>4. \E a \in Status : answer' = [answer EXCEPT ![r] = a]
      <4>1. s \in Status
        BY <3>2
      <4> HIDE DEF Status
      <4> WITNESS s \in Status
      <4> QED BY <3>2
    <3> HIDE DEF Status
    <3> QED BY <3>3, <3>4 DEF Advance
  <2>7. CASE GetForDelete(r)
    BY <2>7 DEF GetForDelete, Rollback, Advance, Goto
  <2>8. CASE CheckDocuments(r)
    BY <2>8 DEF CheckDocuments, Rollback, Advance, Goto
  <2>9. CASE CommitDelete(r)
    BY <2>9 DEF CommitDelete, Settle
  <2>10. CASE CheckFiling(r)
    BY <2>10 DEF CheckFiling, Rollback, Check, Owned
  <2>11. CASE ClaimEntry(r)
    BY <2>11 DEF ClaimEntry, ClaimStatus, Rollback, Claim
  <2>12. CASE CommitFile(r)
    BY <2>12 DEF CommitFile, Settle
  <2> QED BY <1>2, <2>1, <2>2, <2>3, <2>4, <2>5, <2>6, <2>7, <2>8, <2>9, <2>10,
             <2>11, <2>12 DEF OtherStep
<1>3. ASSUME NEW r \in Request,
             AbandonFile(r) \/ StatementFails(r) \/ CommitAnswerLost(r)
      PROVE  Rollback(r) \/ Settle(r)
  BY <1>3 DEF AbandonFile, StatementFails, CommitAnswerLost, Rollback, Settle
<1> QED BY <1>1, <1>2, <1>3 DEF Next

-----------------------------------------------------------------------------
(* What a commit publishes.                                                *)

CreateSettles(r) ==
  LET b == write[r].book IN
  /\ pc[r] = "commit_create" /\ CreatePending(r)
  /\ b \in Book /\ books' = [books EXCEPT ![b] = NewRow(r)]
  /\ docs' = docs

CloseSettles(r) ==
  LET b == call[r].book IN
  /\ pc[r] = "commit_close" /\ ClosePending(r)
  /\ b \in Book /\ books' = [books EXCEPT ![b] = Closed(books[b], r)]
  /\ docs' = docs

DeleteSettles(r) ==
  LET b == call[r].book IN
  /\ pc[r] = "commit_delete"
  /\ docs' = docs
  /\ \/ books' = books
     \/ /\ Holds(r, b)
        /\ DocumentsKeepBook => InBook(docs, b) = {}
        /\ b \in Book /\ books' = [books EXCEPT ![b] = Nil]

FileSettles(r) ==
  LET b == call[r].book IN
  /\ pc[r] = "commit_file" /\ FilePending(r)
  /\ entry[r] \in Document
  /\ docs' = docs \cup {entry[r]}
  /\ b \in Book
  /\ \/ write[r] = Nil /\ books' = books
     \/ write[r] # Nil /\ books' = [books EXCEPT ![b] = Closed(books[b], r)]

\* A commit publishes a new row, a closed row, a deletion, or a document
\* together with the closing of its book.
LEMMA CommitEffect ==
  ASSUME IInv, NEW r \in Request, Settle(r)
  PROVE  CreateSettles(r) \/ CloseSettles(r) \/ DeleteSettles(r) \/ FileSettles(r)
<1>1. /\ TypeOK /\ RequestInv(r)
      /\ books' = IF write[r] = Nil THEN books
                  ELSE [books EXCEPT ![write[r].book] = write[r].row]
      /\ docs' = IF entry[r] = Nil THEN docs ELSE docs \cup {entry[r]}
  BY DEF IInv, Settle, Commit, Apply
<1>2. CASE pc[r] = "commit_create"
  <2>1. CreatePending(r)
    BY <1>1, <1>2 DEF RequestInv
  <2>2. write[r].book \in Book
    BY <1>1, <2>1 DEF TypeOK, CreatePending, Write
  <2> QED BY <1>1, <1>2, <2>1, <2>2 DEF CreateSettles, CreatePending
<1>3. CASE pc[r] = "commit_close"
  <2>1. ClosePending(r)
    BY <1>1, <1>3 DEF RequestInv
  <2>2. call[r].book \in Book
    BY <1>1, <1>3 DEF TypeOK, BookPc, BookCall
  <2>3. /\ write[r].book = call[r].book
        /\ write[r].row = Closed(books[call[r].book], r)
    BY <2>1 DEF ClosePending
  <2>4. write[r] # Nil
    <3>1. books[call[r].book] \in Row
      BY <1>1, <2>1, <2>2 DEF TypeOK, ClosePending, Holds, Live
    <3>2. Closed(books[call[r].book], r) \in Row
      BY <3>1, ClosedRow
    <3> QED BY <2>1, <2>2, <3>2, CallAssumption DEF ClosePending, Write
  <2> QED BY <1>1, <1>3, <2>1, <2>2, <2>3, <2>4 DEF CloseSettles, ClosePending
<1>4. CASE pc[r] = "commit_delete"
  <2>1. DeletePending(r)
    BY <1>1, <1>4 DEF RequestInv
  <2>2. call[r].book \in Book
    BY <1>1, <1>4 DEF TypeOK, BookPc, BookCall
  <2>3. CASE HoldsNothing(r)
    BY <1>1, <1>4, <2>3 DEF HoldsNothing, DeleteSettles
  <2>4. CASE ~HoldsNothing(r)
    <3>1. /\ entry[r] = Nil /\ Holds(r, call[r].book)
          /\ write[r] = [book |-> call[r].book, row |-> Nil]
          /\ DocumentsKeepBook => InBook(docs, call[r].book) = {}
      BY <2>1, <2>4 DEF DeletePending
    <3>2. write[r] # Nil
      BY <2>2, <3>1, CallAssumption DEF Write
    <3> QED BY <1>1, <1>4, <2>2, <3>1, <3>2 DEF DeleteSettles
  <2> QED BY <2>3, <2>4
<1>5. CASE pc[r] = "commit_file"
  <2>1. FilePending(r)
    BY <1>1, <1>5 DEF RequestInv
  <2>2. call[r].book \in Book /\ entry[r] \in Document
    BY <1>1, <1>5, <2>1 DEF TypeOK, FilePc, FileCall, FilePending
  <2>3. entry[r] # Nil
    BY <2>1 DEF FilePending
  <2>4. \/ write[r] = Nil
        \/ write[r] = [book |-> call[r].book, row |-> Closed(books[call[r].book], r)]
    BY <2>1 DEF FilePending
  <2>5. write[r] # Nil => /\ write[r].book = call[r].book
                          /\ write[r].row = Closed(books[call[r].book], r)
    BY <2>4
  <2>6. write[r] # Nil =>
          books' = [books EXCEPT ![call[r].book] = Closed(books[call[r].book], r)]
    BY <1>1, <2>5
  <2>7. write[r] = Nil => books' = books
    BY <1>1
  <2>8. docs' = docs \cup {entry[r]}
    BY <1>1, <2>3
  <2> QED BY <1>5, <2>1, <2>2, <2>6, <2>7, <2>8 DEF FileSettles
<1> QED BY <1>2, <1>3, <1>4, <1>5 DEF Settle, CommitPc

\* The row create_book inserts is a row.
LEMMA NewRowType ==
  ASSUME TypeOK, NEW r \in Request, pc[r] \in CreatePc
  PROVE  NewRow(r) \in Row
BY DEF TypeOK, NewRow, CreateCall, Row

\* A request that works on a book names one, and finds a row if there is one.
LEMMA CallOnBook ==
  ASSUME TypeOK, NEW r \in Request, pc[r] \in BookPc \cup FilePc
  PROVE  /\ call[r].book \in Book
         /\ Live(books, call[r].book) => books[call[r].book] \in Row
BY DEF TypeOK, BookCall, FileCall, Live

-----------------------------------------------------------------------------
(* Type correctness.                                                       *)

\* The initial state is typed.
LEMMA TypeInit == Init => TypeOK
BY DEF Init, TypeOK, Running, CreatePc, BookPc, FilePc

\* Every step keeps the types.
LEMMA TypeStep ==
  ASSUME IInv, Next
  PROVE  TypeOK'
<1> USE DEF Running, CreatePc, BookPc, FilePc, CommitPc
<1>1. TypeOK
  BY DEF IInv
<1>2. ASSUME NEW r \in Request, Begin(r) PROVE TypeOK'
  <2>1. PICK c \in Asked :
          /\ call' = [call EXCEPT ![r] = c]
          /\ pc' = [pc EXCEPT ![r] = FirstPc(c)]
          /\ held' = [held EXCEPT ![r] = c.op # "create" /\ InBook(docs, c.book) # {}]
    BY <1>2 DEF Begin
  <2>2. c \in CreateCall \/ c \in BookCall \/ c \in FileCall
    BY CallAssumption
  <2>3. /\ c \in CreateCall => FirstPc(c) = "find_number"
        /\ c \in BookCall => FirstPc(c) \in {"get_close", "get_delete"}
        /\ c \in FileCall => FirstPc(c) \in {"check", "lock"}
    BY DEF FirstPc, CreateCall, BookCall, FileCall
  <2>4. held' \in [Request -> BOOLEAN]
    BY <1>1, <2>1 DEF TypeOK
  <2> QED BY <1>1, <1>2, <2>1, <2>2, <2>3, <2>4 DEF TypeOK, Begin
<1>3. ASSUME NEW r \in Request, Finish(r) PROVE TypeOK'
  BY <1>1, <1>3 DEF TypeOK, Finish
<1>4. ASSUME NEW r \in Request, Rollback(r) PROVE TypeOK'
  <2>1. PICK s \in Status : Refuse(r, s)
    BY <1>4 DEF Rollback
  <2>2. s # Nil /\ call[r] # Nil
    BY <1>1, <1>4, NilAssumption, CallAssumption DEF TypeOK, Rollback, Status
  <2> QED BY <1>1, <2>1, <2>2 DEF TypeOK, Refuse, EndTransaction, Answer
<1>5. ASSUME NEW r \in Request, Advance(r) PROVE TypeOK'
  <2>1. PICK l \in {"find_open", "insert", "update", "has_documents", "delete",
                    "commit_delete", "done"} :
          /\ pc' = [pc EXCEPT ![r] = l]
          /\ pc[r] \in Running \ (CommitPc \cup FilePc)
          /\ pc[r] \in CreatePc <=> l \in {"find_open", "insert"}
          /\ l = "done" => \E s \in Status : answer' = [answer EXCEPT ![r] = s]
          /\ l # "done" => UNCHANGED answer
    BY <1>5 DEF Advance
  <2>2. call[r] # Nil
    BY <1>1, <2>1, CallAssumption DEF TypeOK
  <2>3. CASE l = "done"
    <3>1. PICK s \in Status : answer' = [answer EXCEPT ![r] = s]
      BY <2>1, <2>3
    <3>2. s # Nil
      BY NilAssumption DEF Status
    <3> QED BY <1>1, <1>5, <2>1, <2>2, <2>3, <3>1, <3>2 DEF TypeOK, Advance, ReadOnly
  <2>4. CASE l # "done"
    BY <1>1, <1>5, <2>1, <2>4 DEF TypeOK, Advance, ReadOnly
  <2> QED BY <2>3, <2>4
<1>6. ASSUME NEW r \in Request, Settle(r) PROVE TypeOK'
  <2>1. books' \in [Book -> Row \cup {Nil}] /\ docs' \subseteq Document
    <3>1. CASE CreateSettles(r)
      BY <1>1, <3>1, NewRowType DEF CreateSettles, TypeOK
    <3>2. CASE CloseSettles(r)
      <4>1. Closed(books[call[r].book], r) \in Row
        BY <1>1, <3>2, CallOnBook, ClosedRow DEF CloseSettles, ClosePending, Holds
      <4> QED BY <1>1, <3>2, <4>1 DEF CloseSettles, TypeOK
    <3>3. CASE DeleteSettles(r)
      BY <1>1, <3>3 DEF DeleteSettles, TypeOK
    <3>4. CASE FileSettles(r)
      <4>1. Closed(books[call[r].book], r) \in Row
        BY <1>1, <3>4, CallOnBook, ClosedRow DEF FileSettles, FilePending, Holds
      <4> QED BY <1>1, <3>4, <4>1 DEF FileSettles, TypeOK
    <3> QED BY <1>6, <3>1, <3>2, <3>3, <3>4, CommitEffect
  <2>2. call[r] # Nil
    BY <1>1, <1>6, CallAssumption DEF TypeOK, Settle
  <2>3. CASE pc[r] = "commit_close" /\ Goto(r, "refresh")
    BY <1>1, <1>6, <2>1, <2>3 DEF TypeOK, Settle, Commit, EndTransaction, Goto
  <2>4. CASE \E s \in Status : Answer(r, s)
    <3>1. PICK s \in Status : Answer(r, s)
      BY <2>4
    <3>2. s # Nil
      BY NilAssumption DEF Status
    <3> QED BY <1>1, <1>6, <2>1, <2>2, <3>1, <3>2
            DEF TypeOK, Settle, Commit, EndTransaction, Answer
  <2> QED BY <1>6, <2>3, <2>4 DEF Settle
<1>7. ASSUME NEW r \in Request, Insert(r) PROVE TypeOK'
  <2>1. NewRow(r) \in Row
    BY <1>1, <1>7, NewRowType DEF Insert
  <2> QED BY <1>1, <1>7, <2>1 DEF TypeOK, Insert, Write, Goto
<1>8. ASSUME NEW r \in Request, FlushClose(r) \/ FlushDelete(r) PROVE TypeOK'
  <2>1. call[r].book \in Book /\ books[call[r].book] \in Row
    BY <1>1, <1>8, CallOnBook DEF FlushClose, FlushDelete
  <2>2. Closed(books[call[r].book], r) \in Row
    BY <2>1, ClosedRow
  <2> QED BY <1>1, <1>8, <2>1, <2>2
          DEF TypeOK, FlushClose, FlushDelete, Flush, Write, Goto
<1>9. ASSUME NEW r \in Request, Check(r) PROVE TypeOK'
  BY <1>1, <1>9, CallOnBook DEF TypeOK, Check, Goto
<1>10. ASSUME NEW r \in Request, Lock(r) PROVE TypeOK'
  <2>1. Loaded(r) \in Row
    BY <1>1, <1>10, CallOnBook DEF Lock, Loaded, TypeOK
  <2> QED BY <1>1, <1>10, <2>1 DEF TypeOK, Lock, Goto
<1>11. ASSUME NEW r \in Request, Claim(r) PROVE TypeOK'
  <2>1. Claiming(r)
    BY <1>11 DEF IInv, RequestInv, Claim
  <2>2. call[r].book \in Book /\ books[call[r].book] \in Row
    BY <1>1, <1>11, <2>1, CallOnBook DEF Claim, Claiming, Holds
  <2>3. Closed(books[call[r].book], r) \in Row
    BY <2>2, ClosedRow
  <2>4. EntryDocNo(r) \in DocNo
    BY <1>11 DEF Claim, DocNoTooLarge
  <2>5. EntryPageNo(r) \in Page
    BY <1>1, <1>11, <2>1, <2>2, NextEntry
       DEF Claim, Claiming, EntryPageNo, NoEntryLeft, TypeOK
  <2>6. [book |-> call[r].book, doc_no |-> EntryDocNo(r),
         page_no |-> EntryPageNo(r), latest |-> TRUE, by |-> r] \in Document
    BY <2>2, <2>4, <2>5 DEF Document
  <2> QED BY <1>1, <1>11, <2>2, <2>3, <2>6 DEF TypeOK, Claim, Write, Goto
<1>12. ASSUME NEW d \in docs, Supersede(d) PROVE TypeOK'
  <2>1. d \in Document
    BY <1>1 DEF TypeOK
  <2>2. [d EXCEPT !.latest = FALSE] \in Document
    BY <2>1 DEF Document
  <2> QED BY <1>1, <1>12, <2>2 DEF TypeOK, Supersede, Superseded
<1>13. ASSUME Crash PROVE TypeOK'
  BY <1>1, <1>13 DEF TypeOK, Crash
<1> QED BY <1>2, <1>3, <1>4, <1>5, <1>6, <1>7, <1>8, <1>9, <1>10, <1>11, <1>12,
           <1>13, StepKinds

-----------------------------------------------------------------------------
(* The committed tables.                                                   *)

\* Only a commit and a new version of a document change the tables.
LEMMA TablesKept ==
  ASSUME NEW r \in Request,
         \/ Begin(r) \/ Finish(r) \/ Rollback(r) \/ Advance(r) \/ Insert(r)
         \/ FlushClose(r) \/ FlushDelete(r) \/ Check(r) \/ Lock(r) \/ Claim(r)
  PROVE  books' = books /\ docs' = docs /\ minted \subseteq minted'
<1>1. CASE Begin(r) \/ Finish(r) \/ Rollback(r) \/ Advance(r)
  BY <1>1 DEF Begin, Finish, Rollback, Refuse, Advance, ReadOnly
<1>2. CASE Insert(r) \/ FlushClose(r) \/ FlushDelete(r)
  BY <1>2 DEF Insert, FlushClose, FlushDelete, Flush
<1>3. CASE Check(r) \/ Lock(r) \/ Claim(r)
  BY <1>3 DEF Check, Lock, Claim
<1> QED BY <1>1, <1>2, <1>3

\* The unique indexes do not tell two rows apart by their order.
LEMMA ConflictingSymmetric ==
  ASSUME NEW x, NEW y, Conflicting(x, y)
  PROVE  Conflicting(y, x)
BY DEF Conflicting, SameNumber, BothOpen

\* No step lets two rows conflict, or a uuid be given twice.
LEMMA BooksStep ==
  ASSUME IInv, Next
  PROVE  BooksInv'
<1>1. TypeOK /\ BooksInv
  BY DEF IInv
<1>2. ASSUME NEW r \in Request, Settle(r) PROVE BooksInv'
  <2>1. minted' = minted
    BY <1>2 DEF Settle, Commit
  <2>2. CASE CreateSettles(r)
    <3> DEFINE b == write[r].book
    <3>1. /\ b \in Book /\ b \in minted /\ books' = [books EXCEPT ![b] = NewRow(r)]
          /\ \A c \in Book : Live(books, c) => ~Conflicting(books[c], NewRow(r))
      BY <2>2 DEF CreateSettles, CreatePending
    <3>2. \A c \in Book : books'[c] = IF c = b THEN NewRow(r) ELSE books[c]
      BY <1>1, <3>1 DEF TypeOK
    <3> QED BY <1>1, <2>1, <3>1, <3>2, ConflictingSymmetric DEF BooksInv, Live
  <2>3. CASE \/ CloseSettles(r)
             \/ FileSettles(r) /\ write[r] # Nil
    <3> DEFINE b == call[r].book
    <3>1. /\ b \in Book /\ Live(books, b)
          /\ books' = [books EXCEPT ![b] = Closed(books[b], r)]
      BY <2>3 DEF CloseSettles, ClosePending, FileSettles, FilePending, Holds
    <3>2. books[b] \in Row
      BY <1>1, <3>1 DEF TypeOK, Live
    <3>3. \A c \in Book : books'[c] = IF c = b THEN Closed(books[b], r) ELSE books[c]
      BY <1>1, <3>1 DEF TypeOK
    <3>4. \A c \in Book : Live(books', c) => Live(books, c)
      BY <3>1, <3>3 DEF Live
    <3>5. \A c \in Book : Live(books, c) => books[c] \in Row
      BY <1>1 DEF TypeOK, Live
    <3>6. ASSUME NEW c \in Book, NEW d \in Book, c # d, Live(books', c), Live(books', d)
          PROVE  ~Conflicting(books'[c], books'[d])
      <4>1. ~Conflicting(books[c], books[d])
        BY <1>1, <3>4, <3>6 DEF BooksInv
      <4>2. books[c] \in Row /\ books[d] \in Row
        BY <3>4, <3>5, <3>6
      <4> QED BY <3>2, <3>3, <3>6, <4>1, <4>2, ClosedRow
    <3> QED BY <1>1, <2>1, <3>4, <3>6 DEF BooksInv
  <2>4. CASE DeleteSettles(r) \/ (FileSettles(r) /\ write[r] = Nil)
    <3>1. \A c \in Book : Live(books', c) => books'[c] = books[c]
      BY <1>1, <2>4 DEF DeleteSettles, FileSettles, TypeOK, Live
    <3> QED BY <1>1, <2>1, <3>1 DEF BooksInv, Live
  <2> QED BY <1>2, <2>2, <2>3, <2>4, CommitEffect
<1>3. ASSUME \/ \E d \in docs : Supersede(d)
             \/ Crash
      PROVE  BooksInv'
  BY <1>1, <1>3 DEF BooksInv, Supersede, Crash, Live
<1>4. ASSUME NEW r \in Request,
             \/ Begin(r) \/ Finish(r) \/ Rollback(r) \/ Advance(r) \/ Insert(r)
             \/ FlushClose(r) \/ FlushDelete(r) \/ Check(r) \/ Lock(r) \/ Claim(r)
      PROVE  BooksInv'
  <2>1. books' = books /\ minted \subseteq minted'
    BY <1>4, TablesKept
  <2> QED BY <1>1, <2>1 DEF BooksInv, Live
<1> QED BY <1>2, <1>3, <1>4, StepKinds

\* A document that is superseded leaves its entry; no page gains one.
LEMMA CountAfterSuperseding ==
  ASSUME NEW D \in SUBSET Document, IsFiniteSet(D), NEW d \in D
  PROVE  LET E == Superseded(D, d) IN
         /\ IsFiniteSet(E)
         /\ \A b \in Book : Latest(E, b) \subseteq Latest(D, b)
         /\ \A b \in Book, p \in Page :
              CountOnPage(E, b, p) \in Nat /\ CountOnPage(E, b, p) <= CountOnPage(D, b, p)
         /\ \A b \in Book : InBook(E, b) = {} <=> InBook(D, b) = {}
         /\ \A e \in E : \E f \in D : e.book = f.book
<1> DEFINE E == Superseded(D, d)
           o == [d EXCEPT !.latest = FALSE]
<1> USE DEF Superseded
<1>1. d \in Document
  OBVIOUS
<1>2. o.book = d.book /\ ~o.latest
  BY <1>1 DEF Document
<1>3. IsFiniteSet(D \ {d})
  BY FS_RemoveElement
<1>4. IsFiniteSet(E)
  BY <1>3, FS_AddElement
<1>5. \A b \in Book : Latest(E, b) \subseteq Latest(D, b)
  BY <1>2 DEF Latest
<1>6. \A b \in Book, p \in Page : OnPage(E, b, p) \subseteq OnPage(D, b, p)
  BY <1>5 DEF OnPage
<1>7. \A b \in Book : InBook(E, b) = {} <=> InBook(D, b) = {}
  BY <1>2 DEF InBook
<1> QED BY <1>2, <1>4, <1>5, <1>6, <1>7, CountMonotone

\* No step gives a number twice, overfills a page or leaves a full book open.
LEMMA DocsStep ==
  ASSUME IInv, Next
  PROVE  DocsInv'
<1>1. TypeOK /\ BooksInv /\ DocsInv
  BY DEF IInv
<1>2. ASSUME NEW r \in Request, Settle(r) PROVE DocsInv'
  <2>1. minted' = minted
    BY <1>2 DEF Settle, Commit
  <2>2. CASE CreateSettles(r)
    <3> DEFINE b == write[r].book
    <3>1. /\ b \in Book /\ books' = [books EXCEPT ![b] = NewRow(r)]
          /\ books[b] = Nil /\ docs' = docs /\ InBook(docs, b) = {}
      BY <2>2 DEF CreateSettles, CreatePending
    <3>2. NewRow(r) # Nil
      BY <1>1, <2>2, NewRowType, NilAssumption DEF CreateSettles, CreatePc
    <3>3. \A c \in Book : /\ Live(books, c) => Live(books', c)
                          /\ c # b => books'[c] = books[c]
      BY <1>1, <3>1, <3>2 DEF TypeOK, Live
    <3>4. OnPage(docs, b, MaxPages) = {}
      BY <3>1 DEF InBook, OnPage, Latest
    <3>5. CountOnPage(docs, b, MaxPages) = 0
      BY <3>4, FS_EmptySet DEF CountOnPage
    <3>6. FullRegisterIsClosed'
      BY <1>1, <3>1, <3>3, <3>5, CapacityAssumption
         DEF FullRegisterIsClosed, DocsInv, Live
    <3> QED BY <1>1, <2>1, <3>1, <3>6
            DEF DocsInv, DistinctDocNos, PageCapacity
  <2>3. CASE CloseSettles(r)
    <3> DEFINE b == call[r].book
    <3>1. /\ b \in Book /\ books' = [books EXCEPT ![b] = Closed(books[b], r)]
          /\ books[b] # Nil /\ docs' = docs
      BY <2>3 DEF CloseSettles, ClosePending, Holds, Live
    <3>2. books[b] \in Row
      BY <1>1, <3>1 DEF TypeOK
    <3>3. Closed(books[b], r) # Nil /\ Closed(books[b], r).status = "CLOSED"
      BY <3>2, ClosedRow, NilAssumption
    <3>4. \A c \in Book : /\ Live(books, c) <=> Live(books', c)
                          /\ c # b => books'[c] = books[c]
      BY <1>1, <3>1, <3>3 DEF TypeOK, Live
    <3>5. books'[b].status = "CLOSED"
      BY <1>1, <3>1, <3>3 DEF TypeOK
    <3>6. FullRegisterIsClosed'
      BY <1>1, <3>1, <3>4, <3>5 DEF FullRegisterIsClosed, DocsInv
    <3> QED BY <1>1, <2>1, <3>1, <3>6
            DEF DocsInv, DistinctDocNos, PageCapacity
  <2>4. CASE DeleteSettles(r)
    <3>1. docs' = docs
      BY <2>4 DEF DeleteSettles
    <3>2. \A c \in Book : Live(books', c) => Live(books, c) /\ books'[c] = books[c]
      BY <1>1, <2>4 DEF DeleteSettles, TypeOK, Live
    <3>3. FullRegisterIsClosed'
      BY <1>1, <3>1, <3>2 DEF FullRegisterIsClosed, DocsInv
    <3> QED BY <1>1, <2>1, <3>1, <3>3, Zenon
            DEF DocsInv, DistinctDocNos, PageCapacity
  <2>5. CASE FileSettles(r)
    <3> DEFINE b == call[r].book
               e == entry[r]
               p == e.page_no
    <3>1. /\ b \in Book /\ e \in Document /\ docs' = docs \cup {e} /\ e.latest
          /\ e.book = b /\ Live(books, b) /\ FilePending(r)
      BY <2>5 DEF FileSettles, FilePending, Holds
    <3>2. books[b] \in Row
      BY <1>1, <3>1 DEF TypeOK, Live
    <3>3. Closed(books[b], r) # Nil /\ Closed(books[b], r).status = "CLOSED"
      BY <3>2, ClosedRow, NilAssumption
    <3>4. /\ \A c \in Book : /\ Live(books, c) <=> Live(books', c)
                             /\ c # b => books'[c] = books[c]
          /\ books'[b] = books[b] \/ books'[b].status = "CLOSED"
          /\ write[r] # Nil => books'[b].status = "CLOSED"
      BY <1>1, <2>5, <3>1, <3>3 DEF FileSettles, TypeOK, Live
    <3>5. IsFiniteSet(docs)
      BY <1>1 DEF DocsInv
    <3>6. IsFiniteSet(docs')
      BY <3>1, <3>5, FS_AddElement
    <3>7. p \in Page
      BY <3>1 DEF Document
    <3>8. \A c \in Book, q \in Page :
            /\ c # b \/ q # p => CountOnPage(docs', c, q) = CountOnPage(docs, c, q)
            /\ CountOnPage(docs, c, q) \in Nat
            /\ CountOnPage(docs', c, q) \in Nat
            /\ CountOnPage(docs', c, q) <= CountOnPage(docs, c, q) + 1
      BY <3>1, <3>5, CountAfterFiling, CountType
    <3>9. DistinctDocNos'
      BY <1>1, <3>1 DEF DistinctDocNos, DocsInv, FilePending, Latest
    <3>10. CountOnPage(docs, b, p) < MaxEntriesPerPage
      BY <3>1 DEF FilePending
    <3>11. PageCapacity'
      BY <1>1, <3>8, <3>10, CapacityAssumption DEF PageCapacity, DocsInv
    <3>12. FullRegisterIsClosed'
      <4>1. SUFFICES ASSUME NEW c \in Book, Live(books', c),
                            CountOnPage(docs', c, MaxPages) >= MaxEntriesPerPage
                     PROVE  books'[c].status = "CLOSED"
        BY DEF FullRegisterIsClosed
      <4>2. MaxPages \in Page
        BY CapacityAssumption DEF Page
      <4>3. CASE c # b \/ p # MaxPages
        <5>1. CountOnPage(docs, c, MaxPages) >= MaxEntriesPerPage
          BY <3>8, <4>1, <4>2, <4>3
        <5>2. books[c].status = "CLOSED"
          BY <1>1, <3>4, <4>1, <5>1 DEF DocsInv, FullRegisterIsClosed
        <5> QED BY <3>4, <5>2
      <4>4. CASE c = b /\ p = MaxPages
        <5>1. CASE write[r] # Nil
          BY <3>4, <4>4, <5>1
        <5>2. CASE write[r] = Nil
          <6>1. ~(CountOnPage(docs, b, MaxPages) + 1 < MaxEntriesPerPage)
            BY <3>8, <4>1, <4>2, <4>4, CapacityAssumption
          <6>2. write[r] # [book |-> b, row |-> Closed(books[b], r)]
            BY <3>1, <3>2, <5>2, ClosedRow, CallAssumption DEF Write
          <6>3. books[b].status = "CLOSED"
            BY <3>1, <4>4, <6>1, <6>2 DEF FilePending
          <6> QED BY <3>4, <4>4, <6>3
        <5> QED BY <5>1, <5>2
      <4> QED BY <4>3, <4>4
    <3>13. b \in minted
      BY <1>1, <3>1 DEF BooksInv
    <3>14. \A d \in docs' : d.book \in minted'
      BY <1>1, <2>1, <3>1, <3>13 DEF DocsInv
    <3> QED BY <3>6, <3>9, <3>11, <3>12, <3>14 DEF DocsInv
  <2> QED BY <1>2, <2>2, <2>3, <2>4, <2>5, CommitEffect
<1>3. ASSUME NEW d \in docs, Supersede(d) PROVE DocsInv'
  <2>1. /\ docs' = Superseded(docs, d)
        /\ books' = books /\ minted' = minted
    BY <1>3 DEF Supersede
  <2>2. docs \in SUBSET Document /\ IsFiniteSet(docs)
    BY <1>1 DEF TypeOK, DocsInv
  <2>3. /\ IsFiniteSet(docs')
        /\ \A b \in Book : Latest(docs', b) \subseteq Latest(docs, b)
        /\ \A b \in Book, p \in Page :
              /\ CountOnPage(docs', b, p) \in Nat
              /\ CountOnPage(docs', b, p) <= CountOnPage(docs, b, p)
        /\ \A e \in docs' : \E f \in docs : e.book = f.book
    BY <2>1, <2>2, CountAfterSuperseding
  <2>4. \A b \in Book, p \in Page : CountOnPage(docs, b, p) \in Nat
    BY <2>2, CountType
  <2>5. PageCapacity'
    BY <1>1, <2>3, <2>4, CapacityAssumption DEF PageCapacity, DocsInv
  <2>6. MaxPages \in Page
    BY CapacityAssumption DEF Page
  <2>7. FullRegisterIsClosed'
    <3>1. SUFFICES ASSUME NEW b \in Book, Live(books, b),
                          CountOnPage(docs', b, MaxPages) >= MaxEntriesPerPage
                   PROVE  books[b].status = "CLOSED"
      BY <2>1 DEF FullRegisterIsClosed
    <3>2. CountOnPage(docs, b, MaxPages) >= MaxEntriesPerPage
      BY <2>3, <2>4, <2>6, <3>1, CapacityAssumption
    <3> QED BY <1>1, <3>1, <3>2 DEF FullRegisterIsClosed, DocsInv
  <2>8. DistinctDocNos'
    <3>1. \A e \in docs' : e.latest => e \in docs
      <4>1. d \in Document
        BY <2>2
      <4>2. ~[d EXCEPT !.latest = FALSE].latest
        BY <4>1 DEF Document
      <4> QED BY <2>1, <4>2 DEF Superseded
    <3> QED BY <1>1, <3>1 DEF DistinctDocNos, DocsInv
  <2>9. \A e \in docs' : e.book \in minted'
    BY <1>1, <2>1, <2>3 DEF DocsInv
  <2> QED BY <2>3, <2>5, <2>7, <2>8, <2>9 DEF DocsInv
<1>4. ASSUME Crash PROVE DocsInv'
  BY <1>1, <1>4 DEF Crash, DocsInv, DistinctDocNos,
                    PageCapacity, FullRegisterIsClosed
<1>5. ASSUME NEW r \in Request,
             \/ Begin(r) \/ Finish(r) \/ Rollback(r) \/ Advance(r) \/ Insert(r)
             \/ FlushClose(r) \/ FlushDelete(r) \/ Check(r) \/ Lock(r) \/ Claim(r)
      PROVE  DocsInv'
  <2>1. books' = books /\ docs' = docs /\ minted \subseteq minted'
    BY <1>5, TablesKept
  <2> QED BY <1>1, <2>1 DEF DocsInv, DistinctDocNos,
                            PageCapacity, FullRegisterIsClosed
<1> QED BY <1>2, <1>3, <1>4, <1>5, StepKinds

-----------------------------------------------------------------------------
(* The requests that a step is not of keep what they rely on.              *)

Unmoved(q) ==
  /\ pc'[q] = pc[q] /\ call'[q] = call[q] /\ view'[q] = view[q]
  /\ write'[q] = write[q] /\ entry'[q] = entry[q]
  /\ \A b \in Book : lock'[b] = q <=> lock[b] = q

\* A row that q has locked, and the documents of its book, stay as they are.
GroundKept(q) ==
  \A b \in Book : Holds(q, b) =>
    books'[b] = books[b] /\ InBook(docs', b) = InBook(docs, b)

StepOf(r) ==
  \/ Begin(r) \/ Finish(r) \/ Rollback(r) \/ Advance(r) \/ Settle(r) \/ Insert(r)
  \/ FlushClose(r) \/ FlushDelete(r) \/ Check(r) \/ Lock(r) \/ Claim(r)

\* A step of r touches no other request's transaction or locks.
LEMMA OthersUnmoved ==
  ASSUME TypeOK, NEW r \in Request, StepOf(r), NEW q \in Request, q # r
  PROVE  Unmoved(q)
<1>0. q # Nil /\ r # Nil
  BY NilAssumption
<1> USE <1>0 DEF Unmoved, TypeOK
<1>1. CASE Begin(r) \/ Finish(r)
  BY <1>1 DEF Begin, Finish
<1>2. CASE Rollback(r)
  <2>1. PICK s \in Status : Refuse(r, s)
    BY <1>2 DEF Rollback
  <2> QED BY <2>1 DEF Refuse, EndTransaction, Answer
<1>3. CASE Advance(r)
  BY <1>3 DEF Advance, ReadOnly
<1>4. CASE Settle(r)
  <2>1. pc'[q] = pc[q]
    BY <1>4 DEF Settle, Goto, Answer
  <2> QED BY <1>4, <2>1 DEF Settle, Commit, EndTransaction
<1>5. CASE Insert(r)
  BY <1>5 DEF Insert, Goto
<1>6. CASE FlushClose(r)
  BY <1>6 DEF FlushClose, Flush, Goto
<1>7. CASE FlushDelete(r)
  BY <1>7 DEF FlushDelete, Flush, Goto
<1>8. CASE Check(r)
  BY <1>8 DEF Check, Goto
<1>9. CASE Lock(r)
  BY <1>9 DEF Lock, Goto
<1>10. CASE Claim(r)
  BY <1>10 DEF Claim, Goto
<1> QED BY <1>1, <1>2, <1>3, <1>4, <1>5, <1>6, <1>7, <1>8, <1>9, <1>10 DEF StepOf

\* A step of r changes no row that another request has locked.
LEMMA OthersGround ==
  ASSUME IInv, NEW r \in Request, StepOf(r), NEW q \in Request, q # r
  PROVE  GroundKept(q)
<1>1. TypeOK
  BY DEF IInv
<1>2. CASE Settle(r)
  <2>1. CASE CreateSettles(r)
    BY <1>1, <2>1 DEF CreateSettles, CreatePending, GroundKept, Holds, Live, TypeOK
  <2>2. CASE CloseSettles(r)
    BY <1>1, <2>2 DEF CloseSettles, ClosePending, GroundKept, Holds, TypeOK
  <2>3. CASE DeleteSettles(r)
    BY <1>1, <2>3 DEF DeleteSettles, GroundKept, Holds, TypeOK
  <2>4. CASE FileSettles(r)
    <3>1. /\ lock[call[r].book] = r /\ entry[r].book = call[r].book
          /\ docs' = docs \cup {entry[r]}
      BY <2>4 DEF FileSettles, FilePending, Holds
    <3>2. \A b \in Book : b # call[r].book => books'[b] = books[b]
      BY <1>1, <2>4 DEF FileSettles, TypeOK
    <3>3. \A b \in Book : b # call[r].book => InBook(docs', b) = InBook(docs, b)
      BY <3>1 DEF InBook
    <3> QED BY <3>1, <3>2, <3>3 DEF GroundKept, Holds
  <2> QED BY <1>2, <2>1, <2>2, <2>3, <2>4, CommitEffect
<1>3. CASE ~Settle(r)
  BY <1>3, TablesKept DEF StepOf, GroundKept
<1> QED BY <1>2, <1>3

\* Latest and CountOnPage look at the documents of one book.
LEMMA SameBook ==
  ASSUME NEW D, NEW E, NEW b, InBook(D, b) = InBook(E, b)
  PROVE  /\ Latest(D, b) = Latest(E, b)
         /\ \A p : CountOnPage(D, b, p) = CountOnPage(E, b, p)
<1>1. Latest(D, b) = Latest(E, b)
  <2>1. \A x : x \in InBook(D, b) <=> x \in InBook(E, b)
    OBVIOUS
  <2> QED BY <2>1 DEF InBook, Latest
<1> QED BY <1>1 DEF OnPage, CountOnPage

\* What q decided under its lock stays right while others step.
LEMMA HolderKeeps ==
  ASSUME TypeOK, NEW q \in Request, RequestInv(q), Unmoved(q), GroundKept(q)
  PROVE  /\ pc'[q] \notin CommitPc \cup {"claim"} => HoldsNothing(q)'
         /\ pc'[q] = "commit_close"  => ClosePending(q)'
         /\ pc'[q] = "commit_delete" => DeletePending(q)'
         /\ pc'[q] = "claim"         => Claiming(q)'
         /\ pc'[q] = "commit_file"   => FilePending(q)'
<1> DEFINE b == call[q].book
<1>0. HoldsNothing(q) => HoldsNothing(q)'
  BY DEF HoldsNothing, Unmoved
<1>1. pc'[q] \notin CommitPc \cup {"claim"} => HoldsNothing(q)'
  BY <1>0 DEF RequestInv, Unmoved
<1>2. ASSUME pc[q] \in BookPc \cup FilePc, Holds(q, b)
      PROVE  /\ b \in Book /\ call'[q].book = b
             /\ Holds(q, b)' /\ books'[b] = books[b]
             /\ InBook(docs', b) = InBook(docs, b)
             /\ Latest(docs', b) = Latest(docs, b)
             /\ \A p : CountOnPage(docs', b, p) = CountOnPage(docs, b, p)
  <2>1. b \in Book /\ call'[q].book = b
    BY <1>2, CallOnBook DEF Unmoved
  <2>2. books'[b] = books[b] /\ InBook(docs', b) = InBook(docs, b)
    BY <1>2, <2>1 DEF GroundKept
  <2>3. Holds(q, b)'
    BY <1>2, <2>1, <2>2 DEF Unmoved, Holds, Live
  <2> QED BY <2>1, <2>2, <2>3, SameBook
<1>3. pc'[q] = "commit_close" => ClosePending(q)'
  BY <1>2 DEF RequestInv, Unmoved, ClosePending, BookPc
<1>4. pc'[q] = "commit_delete" => DeletePending(q)'
  <2>1. ASSUME pc[q] = "commit_delete" PROVE DeletePending(q)'
    <3>1. CASE HoldsNothing(q)
      BY <1>0, <3>1 DEF DeletePending
    <3>2. CASE ~HoldsNothing(q)
      BY <1>2, <2>1, <3>2 DEF RequestInv, Unmoved, DeletePending, BookPc
    <3> QED BY <3>1, <3>2
  <2> QED BY <2>1 DEF Unmoved
<1>5. pc'[q] = "claim" => Claiming(q)'
  BY <1>2 DEF RequestInv, Unmoved, Claiming, ByItself, FilePc
<1>6. pc'[q] = "commit_file" => FilePending(q)'
  BY <1>2 DEF RequestInv, Unmoved, FilePending, ByItself, FilePc
<1> QED BY <1>1, <1>3, <1>4, <1>5, <1>6

\* A request begins with the first statement of its handler.
LEMMA BeginPc ==
  ASSUME TypeOK, NEW r \in Request, Begin(r)
  PROVE  pc'[r] \in {"find_number", "get_close", "get_delete", "check", "lock"}
<1>1. PICK c \in Asked : pc' = [pc EXCEPT ![r] = FirstPc(c)]
  BY DEF Begin
<1>2. c \in CreateCall \/ c \in BookCall \/ c \in FileCall
  BY CallAssumption
<1>3. FirstPc(c) \in {"find_number", "get_close", "get_delete", "check", "lock"}
  BY <1>2 DEF FirstPc, CreateCall, BookCall, FileCall
<1> QED BY <1>1, <1>3 DEF TypeOK

\* A pending insertion stays without conflict: what commits next was compared
\* with it, and what is inserted next waits for it.
LEMMA CreatorKeeps ==
  ASSUME IInv, NEW r \in Request, StepOf(r), NEW q \in Request, q # r,
         pc'[q] = "commit_create"
  PROVE  CreatePending(q)'
<1> DEFINE w == write[q].book
           row == write[q].row
<1>1. TypeOK /\ BooksInv /\ RequestInv(q) /\ RequestInv(r) /\ Unmoved(q)
  BY OthersUnmoved DEF IInv
<1>2. pc[q] = "commit_create" /\ CreatePending(q)
  BY <1>1 DEF Unmoved, RequestInv
<1>3. /\ write'[q] = write[q] /\ entry'[q] = entry[q] /\ NewRow(q)' = NewRow(q)
      /\ w \in Book /\ row \in Row
  <2>1. row = NewRow(q) /\ NewRow(q) \in Row
    BY <1>1, <1>2, NewRowType DEF CreatePending, CreatePc
  <2> QED BY <1>1, <1>2, <2>1 DEF Unmoved, NewRow, CreatePending, TypeOK, Write
<1>4. /\ books'[w] = Nil
      /\ InBook(docs', w) = {}
      /\ \A b \in Book : Live(books', b) => ~Conflicting(books'[b], row)
  <2>1. CASE Settle(r)
    <3>1. CASE CreateSettles(r)
      <4>1. /\ write[r].book # w /\ ~Conflicting(write[r].row, row)
            /\ write[r].row = NewRow(r)
        BY <1>2, <3>1 DEF CreateSettles, CreatePending
      <4>2. /\ docs' = docs
            /\ \A b \in Book : books'[b] = IF b = write[r].book THEN NewRow(r) ELSE books[b]
        BY <1>1, <3>1 DEF CreateSettles, TypeOK
      <4> QED BY <1>2, <1>3, <4>1, <4>2 DEF CreatePending, Live
    <3>2. CASE CloseSettles(r) \/ (FileSettles(r) /\ write[r] # Nil)
      <4> DEFINE c == call[r].book
      <4>1. /\ c \in Book /\ Live(books, c)
            /\ books' = [books EXCEPT ![c] = Closed(books[c], r)]
        BY <3>2 DEF CloseSettles, ClosePending, FileSettles, FilePending, Holds
      <4>2. books[c] \in Row
        BY <1>1, <4>1 DEF TypeOK, Live
      <4>3. \A b \in Book : books'[b] = IF b = c THEN Closed(books[c], r) ELSE books[b]
        BY <1>1, <4>1 DEF TypeOK
      <4>4. ~Conflicting(Closed(books[c], r), row)
        BY <1>2, <1>3, <4>1, <4>2, ClosedRow DEF CreatePending
      <4>5. w # c
        BY <1>2, <4>1 DEF CreatePending, Live
      <4>6. InBook(docs', w) = {}
        <5>1. docs' = docs \/ (docs' = docs \cup {entry[r]} /\ entry[r].book = c)
          BY <3>2 DEF CloseSettles, FileSettles, FilePending
        <5> QED BY <1>2, <4>5, <5>1 DEF CreatePending, InBook
      <4> QED BY <1>2, <1>3, <4>1, <4>3, <4>4, <4>5, <4>6 DEF CreatePending, Live
    <3>3. CASE DeleteSettles(r)
      <4>1. docs' = docs /\ \A b \in Book : books'[b] \in {books[b], Nil}
        BY <1>1, <3>3 DEF DeleteSettles, TypeOK
      <4> QED BY <1>2, <1>3, <4>1 DEF CreatePending, Live
    <3>4. CASE FileSettles(r) /\ write[r] = Nil
      <4>1. /\ books' = books /\ docs' = docs \cup {entry[r]}
            /\ entry[r].book = call[r].book /\ Live(books, call[r].book)
        BY <3>4 DEF FileSettles, FilePending, Holds
      <4> QED BY <1>2, <1>3, <4>1 DEF CreatePending, InBook, Live
    <3> QED BY <2>1, <3>1, <3>2, <3>3, <3>4, CommitEffect
  <2>2. CASE ~Settle(r)
    <3>1. books' = books /\ docs' = docs
      BY <2>2, TablesKept DEF StepOf
    <3> QED BY <1>2, <1>3, <3>1 DEF CreatePending, Live
  <2> QED BY <2>1, <2>2
<1>5. w \in minted'
  <2>1. minted \subseteq minted'
    BY TablesKept DEF StepOf, Settle, Commit
  <2> QED BY <1>2, <2>1 DEF CreatePending
<1>6. \A p \in Request : p # q /\ pc'[p] = "commit_create" =>
        write'[p].book # w /\ ~Conflicting(write'[p].row, row)
  <2>1. SUFFICES ASSUME NEW p \in Request, p # q, pc'[p] = "commit_create"
                 PROVE  write'[p].book # w /\ ~Conflicting(write'[p].row, row)
    OBVIOUS
  <2>2. CASE p # r
    <3>1. pc[p] = "commit_create" /\ write'[p] = write[p]
      BY <1>1, <2>1, <2>2, OthersUnmoved DEF Unmoved
    <3> QED BY <1>2, <2>1, <3>1 DEF CreatePending
  <2>3. CASE p = r
    <3>1. Insert(r)
      <4>1. ~Begin(r)
        BY <1>1, <2>1, <2>3, BeginPc
      <4> QED BY <1>1, <2>1, <2>3, <4>1
          DEF StepOf, TypeOK, Finish, Rollback, Refuse, Answer, Advance, Settle,
              Goto, FlushClose, FlushDelete, Check, Lock, Claim
    <3>2. ~InsertWaitsFor(q, NewRow(r))
      BY <3>1 DEF Insert
    <3>3. ~Conflicting(row, NewRow(r))
      BY <1>2, <1>3, <3>2, NilAssumption DEF InsertWaitsFor, CreatePending
    <3>4. PICK b \in Book \ minted :
            write' = [write EXCEPT ![r] = [book |-> b, row |-> NewRow(r)]]
      BY <3>1 DEF Insert
    <3>5. write'[r] = [book |-> b, row |-> NewRow(r)]
      BY <1>1, <3>4 DEF TypeOK
    <3> QED BY <1>2, <2>3, <3>3, <3>4, <3>5, ConflictingSymmetric DEF CreatePending
  <2> QED BY <2>2, <2>3
<1>7. \A p \in Request : pc'[p] = "lock" /\ view'[p] # Nil => call'[p].book # w
  <2>1. SUFFICES ASSUME NEW p \in Request, pc'[p] = "lock", view'[p] # Nil
                 PROVE  call'[p].book # w
    OBVIOUS
  <2>2. CASE p # r
    <3>1. pc[p] = "lock" /\ view[p] # Nil /\ call'[p] = call[p]
      BY <1>1, <2>1, <2>2, OthersUnmoved DEF Unmoved
    <3> QED BY <1>2, <3>1 DEF CreatePending
  <2>3. CASE p = r
    <3>1. Begin(r) \/ Check(r)
      BY <1>1, <2>1, <2>3
         DEF StepOf, TypeOK, Finish, Rollback, Refuse, Answer, Advance, Settle, Insert,
             Goto, FlushClose, FlushDelete, Lock, Claim
    <3>2. ~Begin(r)
      BY <1>1, <2>1, <2>3 DEF Begin, RequestInv, ViewInv
    <3>3. Live(books, call[r].book) /\ call'[r] = call[r]
      BY <3>1, <3>2 DEF Check
    <3> QED BY <1>2, <2>3, <3>3 DEF CreatePending, Live
  <2> QED BY <2>2, <2>3
<1> QED BY <1>2, <1>3, <1>4, <1>5, <1>6, <1>7 DEF CreatePending

\* A Book in an identity map may be stale, but only by saying OPEN of a row
\* that has been closed since.
LEMMA ViewKept ==
  ASSUME IInv, NEW r \in Request, StepOf(r), NEW q \in Request, q # r
  PROVE  ViewInv(q)'
<1>1. TypeOK /\ RequestInv(q) /\ RequestInv(r) /\ Unmoved(q) /\ ViewInv(q)
  BY OthersUnmoved DEF IInv, RequestInv
<1>2. pc'[q] = pc[q] /\ view'[q] = view[q] /\ call'[q] = call[q]
  BY <1>1 DEF Unmoved
<1>3. minted \subseteq minted'
  BY TablesKept DEF StepOf, Settle, Commit
<1>4. ASSUME pc[q] = "lock", view[q] # Nil,
             Live(books', call[q].book), view[q].status = "CLOSED"
      PROVE  books'[call[q].book].status = "CLOSED"
  <2> DEFINE b == call[q].book
  <2>1. b \in Book
    BY <1>1, <1>4, CallOnBook DEF FilePc
  <2>2. Live(books, b) => books[b].status = "CLOSED"
    BY <1>1, <1>4 DEF ViewInv
  <2>3. CASE CreateSettles(r)
    <3>1. write[r].book # b
      BY <1>4, <2>3 DEF CreateSettles, CreatePending
    <3>2. books'[b] = books[b]
      BY <1>1, <2>1, <2>3, <3>1 DEF CreateSettles, TypeOK
    <3> QED BY <1>4, <2>2, <3>2 DEF Live
  <2>4. CASE CloseSettles(r) \/ FileSettles(r)
    <3>1. call[r].book \in Book /\ Live(books, call[r].book)
      BY <2>4 DEF CloseSettles, ClosePending, FileSettles, FilePending, Holds
    <3>2. books[call[r].book] \in Row
      BY <1>1, <3>1 DEF TypeOK, Live
    <3>3. \/ books'[b] = books[b]
          \/ b = call[r].book /\ books'[b] = Closed(books[b], r)
      BY <1>1, <2>1, <2>4, <3>1 DEF CloseSettles, FileSettles, TypeOK
    <3> QED BY <1>4, <2>2, <3>2, <3>3, ClosedRow DEF Live
  <2>5. CASE DeleteSettles(r)
    <3>1. books'[b] = books[b] \/ books'[b] = Nil
      BY <1>1, <2>1, <2>5 DEF DeleteSettles, TypeOK
    <3> QED BY <1>4, <2>2, <3>1 DEF Live
  <2>6. CASE ~Settle(r)
    BY <1>4, <2>2, <2>6, TablesKept DEF StepOf, Live
  <2> QED BY <2>3, <2>4, <2>5, <2>6, CommitEffect
<1> QED BY <1>1, <1>2, <1>3, <1>4 DEF ViewInv

\* A step of r keeps the invariant of every other request.
LEMMA OthersStep ==
  ASSUME IInv, NEW r \in Request, StepOf(r), NEW q \in Request, q # r
  PROVE  RequestInv(q)'
<1>1. TypeOK /\ RequestInv(q) /\ Unmoved(q) /\ GroundKept(q)
  BY OthersUnmoved, OthersGround DEF IInv
<1> QED BY <1>1, HolderKeeps, CreatorKeeps, ViewKept DEF RequestInv, CommitPc

-----------------------------------------------------------------------------
(* The request that a step is of.                                          *)

\* A step of r brings r into a state that its invariant describes.
LEMMA OwnStep ==
  ASSUME IInv, NEW r \in Request, StepOf(r)
  PROVE  RequestInv(r)'
<1>1. TypeOK /\ BooksInv /\ DocsInv /\ RequestInv(r) /\ ViewInv(r)
  BY DEF IInv, RequestInv
<1>2. r # Nil
  BY NilAssumption
<1>3. CASE Begin(r)
  <2>1. pc[r] = "idle" /\ HoldsNothing(r) /\ view[r] = Nil
    BY <1>1, <1>3 DEF Begin, RequestInv, ViewInv, CommitPc
  <2>2. /\ pc'[r] \in {"find_number", "get_close", "get_delete", "check", "lock"}
        /\ write' = write /\ entry' = entry /\ lock' = lock /\ view' = view
    BY <1>1, <1>3, BeginPc DEF Begin
  <2>3. HoldsNothing(r)'
    BY <2>1, <2>2 DEF HoldsNothing
  <2> QED BY <2>1, <2>2, <2>3 DEF RequestInv, ViewInv, CommitPc
<1>4. CASE Finish(r)
  <2>1. HoldsNothing(r) /\ pc[r] = "done"
    BY <1>1, <1>4 DEF Finish, RequestInv, CommitPc
  <2>2. pc'[r] = "idle" /\ view'[r] = Nil /\ HoldsNothing(r)'
    BY <1>1, <1>4, <2>1 DEF Finish, HoldsNothing, TypeOK
  <2> QED BY <2>2 DEF RequestInv, ViewInv, CommitPc
<1>5. CASE Rollback(r) \/ Settle(r)
  <2>1. pc'[r] \in {"done", "refresh"}
    BY <1>1, <1>5 DEF Rollback, Settle, Refuse, Answer, Goto, TypeOK
  <2>2. EndTransaction(r)
    BY <1>5 DEF Rollback, Settle, Refuse, Commit
  <2>3. HoldsNothing(r)'
    BY <1>1, <1>2, <2>2 DEF EndTransaction, HoldsNothing, TypeOK
  <2> QED BY <2>1, <2>3 DEF RequestInv, ViewInv, CommitPc
<1>6. CASE Advance(r)
  <2>1. /\ pc'[r] \in {"find_open", "insert", "update", "has_documents", "delete",
                       "commit_delete", "done"}
        /\ pc[r] \notin CommitPc \cup {"claim"}
    BY <1>1, <1>6 DEF Advance, TypeOK, FilePc
  <2>2. HoldsNothing(r)
    BY <1>1, <2>1 DEF RequestInv
  <2>3. HoldsNothing(r)'
    BY <1>6, <2>2 DEF Advance, ReadOnly, HoldsNothing
  <2> QED BY <2>1, <2>3 DEF RequestInv, ViewInv, CommitPc, DeletePending
<1>7. CASE Insert(r)
  <2>1. PICK b \in Book \ minted :
          /\ write' = [write EXCEPT ![r] = [book |-> b, row |-> NewRow(r)]]
          /\ minted' = minted \cup {b}
    BY <1>7 DEF Insert
  <2>2. pc'[r] = "commit_create" /\ write'[r] = [book |-> b, row |-> NewRow(r)]
    BY <1>1, <1>7, <2>1 DEF Insert, Goto, TypeOK
  <2>3. NewRow(r) \in Row /\ write'[r] # Nil /\ NewRow(r)' = NewRow(r)
    <3>1. NewRow(r) \in Row
      BY <1>1, <1>7, NewRowType DEF Insert, CreatePc
    <3> QED BY <1>7, <2>2, <3>1, CallAssumption DEF Insert, NewRow, Write
  <2>4. HoldsNothing(r)
    BY <1>1, <1>7 DEF RequestInv, Insert, CommitPc
  <2>5. books' = books /\ docs' = docs /\ entry' = entry /\ view' = view /\ call' = call
    BY <1>7 DEF Insert
  <2>6. books[b] = Nil /\ InBook(docs, b) = {}
    BY <1>1, <2>1 DEF BooksInv, DocsInv, InBook, Live
  <2>7. \A q \in Request : q # r /\ pc'[q] = "commit_create" =>
          write'[q].book # b /\ ~Conflicting(write'[q].row, NewRow(r))
    <3>1. SUFFICES ASSUME NEW q \in Request, q # r, pc'[q] = "commit_create"
                   PROVE  write'[q].book # b /\ ~Conflicting(write'[q].row, NewRow(r))
      OBVIOUS
    <3>2. Unmoved(q)
      BY <1>1, <3>1, OthersUnmoved
    <3>3. pc[q] = "commit_create" /\ write'[q] = write[q] /\ pc[q] \in CreatePc
      BY <3>1, <3>2 DEF Unmoved, CreatePc
    <3>4. CreatePending(q) /\ NewRow(q) \in Row
      BY <1>1, <3>3, NewRowType DEF IInv, RequestInv
    <3>5. ~InsertWaitsFor(q, NewRow(r))
      BY <1>7 DEF Insert
    <3> QED BY <2>1, <3>3, <3>4, <3>5, NilAssumption DEF InsertWaitsFor, CreatePending
  <2>8. \A q \in Request : pc'[q] = "lock" /\ view'[q] # Nil => call'[q].book # b
    <3>1. SUFFICES ASSUME NEW q \in Request, pc'[q] = "lock", view[q] # Nil
                   PROVE  call[q].book # b
      BY <2>5
    <3>2. pc[q] = "lock"
      BY <1>1, <2>2, <3>1, OthersUnmoved DEF Unmoved
    <3>3. call[q].book \in minted
      BY <3>1, <3>2 DEF IInv, RequestInv, ViewInv
    <3> QED BY <2>1, <3>3
  <2>9. CreatePending(r)'
    BY <1>7, <2>1, <2>2, <2>3, <2>4, <2>5, <2>6, <2>7, <2>8
       DEF CreatePending, Insert, HoldsNothing
  <2> QED BY <2>2, <2>9 DEF RequestInv, ViewInv, CommitPc
<1>8. CASE FlushClose(r) \/ FlushDelete(r)
  <2> DEFINE b == call[r].book
  <2>1. b \in Book /\ Live(books, b)
    BY <1>1, <1>8, CallOnBook DEF FlushClose, FlushDelete, BookPc
  <2>2. HoldsNothing(r)
    BY <1>1, <1>8 DEF RequestInv, FlushClose, FlushDelete, CommitPc
  <2>3. /\ entry'[r] = Nil /\ Holds(r, b)' /\ call' = call /\ books' = books /\ docs' = docs
    BY <1>1, <1>8, <2>1, <2>2
       DEF FlushClose, FlushDelete, Flush, HoldsNothing, Holds, Live, TypeOK
  <2>4. CASE FlushClose(r)
    <3>1. pc'[r] = "commit_close" /\ write'[r] = [book |-> b, row |-> Closed(books[b], r)]
      BY <1>1, <2>4 DEF FlushClose, Flush, Goto, TypeOK
    <3>2. ClosePending(r)'
      BY <2>3, <3>1 DEF ClosePending
    <3> QED BY <3>1, <3>2 DEF RequestInv, ViewInv, CommitPc
  <2>5. CASE FlushDelete(r)
    <3>1. pc'[r] = "commit_delete" /\ write'[r] = [book |-> b, row |-> Nil]
      BY <1>1, <2>5 DEF FlushDelete, Flush, Goto, TypeOK
    <3>2. DocumentsKeepBook => InBook(docs, b) = {}
      BY <2>5 DEF FlushDelete
    <3>3. DeletePending(r)'
      BY <2>3, <3>1, <3>2 DEF DeletePending
    <3> QED BY <3>1, <3>3 DEF RequestInv, ViewInv, CommitPc
  <2> QED BY <1>8, <2>4, <2>5
<1>9. CASE Check(r)
  <2>1. HoldsNothing(r)
    BY <1>1, <1>9 DEF RequestInv, Check, CommitPc
  <2>2. /\ pc'[r] = "lock"
        /\ view'[r] = IF KeepsBook THEN books[call[r].book] ELSE Nil
        /\ call' = call /\ books' = books /\ minted' = minted
    BY <1>1, <1>9 DEF Check, Goto, TypeOK
  <2>3. HoldsNothing(r)'
    BY <1>9, <2>1 DEF Check, HoldsNothing
  <2>4. call[r].book \in minted
    BY <1>1, <1>9, CallOnBook DEF Check, BooksInv, FilePc
  <2> QED BY <2>2, <2>3, <2>4 DEF RequestInv, ViewInv, CommitPc
<1>10. CASE Lock(r)
  <2> DEFINE b == call[r].book
  <2>1. b \in Book /\ Live(books, b) /\ books[b] \in Row /\ call[r] \in FileCall
    BY <1>1, <1>10, CallOnBook DEF Lock, FilePc, TypeOK
  <2>2. HoldsNothing(r) /\ pc[r] = "lock"
    BY <1>1, <1>10 DEF RequestInv, Lock, CommitPc
  <2>3. /\ pc'[r] = "claim" /\ view'[r] = Loaded(r) /\ lock'[b] = r
        /\ write' = write /\ entry' = entry /\ call' = call /\ books' = books
    BY <1>1, <1>10, <2>1 DEF Lock, Goto, TypeOK
  <2>4. /\ Loaded(r) \in Row
        /\ ~KeepsBook => Loaded(r) = books[b]
        /\ Loaded(r).status = "CLOSED" => books[b].status = "CLOSED"
    BY <1>1, <2>1, <2>2 DEF Loaded, ViewInv, TypeOK
  <2>5. /\ Loaded(r).status = "CLOSED" => ~ByItself(r)
        /\ call[r].page_no \in Page \cup {Nil}
    BY <1>10 DEF Lock, NumbersRefused, ByItself
  <2>6. ~KeepsBook /\ ByItself(r) => books[b].status = "OPEN"
    BY <2>1, <2>4, <2>5 DEF Row, BookStatus
  <2>7. Claiming(r)'
    BY <2>1, <2>2, <2>3, <2>4, <2>5, <2>6, NilAssumption
       DEF Claiming, HoldsNothing, Holds, Live, ByItself
  <2> QED BY <2>3, <2>7 DEF RequestInv, ViewInv, CommitPc
<1>11. CASE Claim(r)
  <2> DEFINE b == call[r].book
             e == [book |-> b, doc_no |-> EntryDocNo(r), page_no |-> EntryPageNo(r),
                   latest |-> TRUE, by |-> r]
  <2>1. Claiming(r) /\ pc[r] = "claim"
    BY <1>1, <1>11 DEF Claim, RequestInv
  <2>2. b \in Book /\ books[b] \in Row /\ Live(books, b)
    BY <1>1, <2>1, CallOnBook DEF Claiming, Holds, FilePc
  <2>3. /\ pc'[r] = "commit_file" /\ entry'[r] = e
        /\ write'[r] = IF view[r].status = "OPEN" /\ UsesUpLastPage(docs, b, e.page_no)
                       THEN [book |-> b, row |-> Closed(books[b], r)] ELSE Nil
        /\ books' = books /\ docs' = docs /\ lock' = lock /\ call' = call
    BY <1>1, <1>11 DEF Claim, Goto, TypeOK
  <2>4. EntryDocNo(r) \in DocNo /\ EntryPageNo(r) \in Page
    BY <1>1, <1>11, <2>1, <2>2, NextEntry
       DEF Claim, Claiming, DocNoTooLarge, EntryPageNo, NoEntryLeft, TypeOK
  <2>5. e \in Document /\ e # Nil
    <3>1. e \in Document
      BY <2>2, <2>4 DEF Document
    <3> HIDE DEF e
    <3> QED BY <3>1, NilAssumption
  <2>6. /\ \A d \in Latest(docs, b) : d.doc_no # e.doc_no
        /\ CountOnPage(docs, b, e.page_no) \in Nat
        /\ CountOnPage(docs, b, e.page_no) < MaxEntriesPerPage
    BY <1>1, <1>11, CountType, CapacityAssumption
       DEF Claim, EntryTaken, IsDocNoTaken, PageFull, DocsInv
  <2>7. \A d \in Latest(docs, b) :
          /\ call[r].doc_no = Nil => d.doc_no < e.doc_no
          /\ call[r].page_no = Nil => d.page_no <= e.page_no
    BY <1>1, <2>2, NextEntry DEF EntryDocNo, EntryPageNo, TypeOK
  <2>8. \/ /\ write'[r] = Nil
           /\ \/ books[b].status = "CLOSED"
              \/ e.page_no # MaxPages
              \/ CountOnPage(docs, b, e.page_no) + 1 < MaxEntriesPerPage
        \/ /\ write'[r] = [book |-> b, row |-> Closed(books[b], r)]
           /\ e.page_no = MaxPages
    <3>1. CASE view[r].status = "OPEN" /\ UsesUpLastPage(docs, b, e.page_no)
      BY <2>3, <3>1 DEF UsesUpLastPage
    <3>2. CASE view[r].status # "OPEN"
      <4>1. view[r] \in Row
        BY <1>1, <2>1 DEF TypeOK, Claiming
      <4> QED BY <2>1, <2>3, <3>2, <4>1 DEF Row, BookStatus, Claiming
    <3>3. CASE ~UsesUpLastPage(docs, b, e.page_no)
      <4>1. \/ e.page_no # MaxPages
            \/ CountOnPage(docs, b, e.page_no) + 1 < MaxEntriesPerPage
        BY <2>6, <3>3, CapacityAssumption DEF UsesUpLastPage
      <4> QED BY <2>3, <3>3, <4>1
    <3> QED BY <3>1, <3>2, <3>3
  <2>9. Holds(r, b) /\ (~KeepsBook /\ ByItself(r) => books[b].status = "OPEN")
    BY <2>1 DEF Claiming
  <2>10. FilePending(r)'
    <3> HIDE DEF e
    <3>1. e.book = b /\ e.latest /\ e.by = r
      BY DEF e
    <3> QED BY <2>3, <2>5, <2>6, <2>7, <2>8, <2>9, <3>1
            DEF FilePending, Holds, Live, ByItself
  <2> QED BY <2>3, <2>10 DEF RequestInv, ViewInv, CommitPc
<1> QED BY <1>3, <1>4, <1>5, <1>6, <1>7, <1>8, <1>9, <1>10, <1>11 DEF StepOf

-----------------------------------------------------------------------------
(* The theorems.                                                           *)

\* The invariant holds initially.
LEMMA InvInit == Init => IInv
<1> SUFFICES ASSUME Init PROVE IInv
  OBVIOUS
<1>1. TypeOK
  BY TypeInit
<1>2. BooksInv
  BY DEF Init, BooksInv, Live
<1>3. IsFiniteSet(docs) /\ docs = {}
  BY FS_EmptySet DEF Init
<1>4. \A b \in Book, p \in Page : CountOnPage(docs, b, p) = 0
  <2> TAKE b \in Book, p \in Page
  <2>1. OnPage(docs, b, p) = {}
    BY <1>3 DEF OnPage, Latest
  <2> QED BY <2>1, FS_EmptySet DEF CountOnPage
<1>5. DocsInv
  BY <1>3, <1>4, CapacityAssumption
     DEF Init, DocsInv, DistinctDocNos, PageCapacity,
         FullRegisterIsClosed, Live
<1>6. ASSUME NEW r \in Request PROVE RequestInv(r)
  <2>1. r # Nil
    BY NilAssumption
  <2> QED BY <2>1 DEF Init, RequestInv, HoldsNothing, ViewInv, CommitPc
<1> QED BY <1>1, <1>2, <1>5, <1>6 DEF IInv

\* The invariant is inductive.
LEMMA InvStep ==
  ASSUME IInv, [Next]_vars
  PROVE  IInv'
<1>1. CASE Next
  <2>1. TypeOK' /\ BooksInv' /\ DocsInv'
    BY <1>1, TypeStep, BooksStep, DocsStep
  <2>2. ASSUME NEW r \in Request, StepOf(r), NEW q \in Request PROVE RequestInv(q)'
    BY <2>2, OwnStep, OthersStep
  <2>3. ASSUME NEW d \in docs, Supersede(d), NEW q \in Request PROVE RequestInv(q)'
    <3>1. /\ docs' = Superseded(docs, d)
          /\ UNCHANGED <<books, lock, pc, call, view, write, entry, answer, minted, held>>
      BY <2>3 DEF Supersede
    <3>2. TypeOK /\ docs \in SUBSET Document /\ IsFiniteSet(docs) /\ RequestInv(q)
      BY DEF IInv, TypeOK, DocsInv
    <3>3. /\ \A b \in Book : Latest(docs', b) \subseteq Latest(docs, b)
          /\ \A b \in Book, p \in Page :
                /\ CountOnPage(docs', b, p) \in Nat
                /\ CountOnPage(docs', b, p) <= CountOnPage(docs, b, p)
          /\ \A b \in Book : InBook(docs', b) = {} <=> InBook(docs, b) = {}
      BY <3>1, <3>2, CountAfterSuperseding
    <3>4. NewRow(q)' = NewRow(q)
      BY <3>1 DEF NewRow
    <3>5. CreatePending(q) => CreatePending(q)'
      <4>1. ASSUME CreatePending(q), pc[q] = "commit_create" PROVE write[q].book \in Book
        BY <3>2, <4>1 DEF CreatePending, TypeOK, Write
      <4>2. CreatePending(q) => write[q].book \in Book
        BY <3>2 DEF CreatePending, TypeOK, Write
      <4> QED BY <3>1, <3>3, <3>4, <4>2 DEF CreatePending
    <3>6. pc[q] = "commit_delete" /\ DeletePending(q) => DeletePending(q)'
      BY <3>1, <3>2, <3>3, CallOnBook DEF DeletePending, HoldsNothing, Holds, BookPc
    <3>7. pc[q] = "commit_file" /\ FilePending(q) => FilePending(q)'
      <4>1. SUFFICES ASSUME pc[q] = "commit_file", FilePending(q) PROVE FilePending(q)'
        OBVIOUS
      <4> DEFINE b == call[q].book
                 p == entry[q].page_no
      <4>2. b \in Book /\ p \in Page
        BY <3>2, <4>1, CallOnBook DEF FilePending, FilePc, TypeOK, Document
      <4>3. CountOnPage(docs, b, p) \in Nat
        BY <3>2, CountType
      <4>4. /\ CountOnPage(docs', b, p) < MaxEntriesPerPage
            /\ CountOnPage(docs, b, p) + 1 < MaxEntriesPerPage =>
                 CountOnPage(docs', b, p) + 1 < MaxEntriesPerPage
        BY <3>3, <4>1, <4>2, <4>3, CapacityAssumption DEF FilePending
      <4>5. \A e \in Latest(docs', b) : e \in Latest(docs, b)
        BY <3>3, <4>2
      <4> QED BY <3>1, <4>1, <4>4, <4>5 DEF FilePending, Holds, ByItself
    <3>8. /\ HoldsNothing(q) => HoldsNothing(q)'
          /\ ClosePending(q) => ClosePending(q)'
          /\ Claiming(q) => Claiming(q)'
          /\ ViewInv(q) => ViewInv(q)'
      BY <3>1 DEF HoldsNothing, ClosePending, Claiming, ViewInv, Holds, ByItself
    <3> QED BY <3>1, <3>2, <3>5, <3>6, <3>7, <3>8 DEF RequestInv
  <2>4. ASSUME Crash, NEW q \in Request PROVE RequestInv(q)'
    <3>1. q # Nil
      BY NilAssumption
    <3> QED BY <2>4, <3>1 DEF Crash, RequestInv, HoldsNothing, ViewInv, CommitPc
  <2> QED BY <1>1, <2>1, <2>2, <2>3, <2>4, StepKinds DEF IInv, StepOf
<1>2. CASE UNCHANGED vars
  <2>1. TypeOK'
    BY <1>2 DEF vars, IInv, TypeOK
  <2>2. BooksInv' /\ DocsInv'
    BY <1>2 DEF vars, IInv, BooksInv, DocsInv, DistinctDocNos,
                PageCapacity, FullRegisterIsClosed
  <2>3. ASSUME NEW r \in Request PROVE RequestInv(r)'
    <3>1. RequestInv(r)
      BY DEF IInv
    <3>2. /\ HoldsNothing(r) => HoldsNothing(r)'
          /\ CreatePending(r) => CreatePending(r)'
      BY <1>2 DEF vars, HoldsNothing, CreatePending, NewRow
    <3>3. /\ ClosePending(r) => ClosePending(r)'
          /\ DeletePending(r) => DeletePending(r)'
      BY <1>2 DEF vars, ClosePending, DeletePending, HoldsNothing, Holds
    <3>4. /\ Claiming(r) => Claiming(r)'
          /\ FilePending(r) => FilePending(r)'
          /\ ViewInv(r) => ViewInv(r)'
      BY <1>2 DEF vars, Claiming, FilePending, ViewInv, Holds, ByItself
    <3> QED BY <1>2, <3>1, <3>2, <3>3, <3>4 DEF vars, RequestInv
  <2> QED BY <2>1, <2>2, <2>3 DEF IInv
<1> QED BY <1>1, <1>2

\* IInv holds in every state the program reaches.
THEOREM Invariance == Spec => []IInv
BY InvInit, InvStep, PTL DEF Spec

\* Every variable keeps its type, whatever requests, faults and crashes come.
THEOREM TypeCorrect == Spec => []TypeOK
<1>1. IInv => TypeOK
  BY DEF IInv
<1> QED BY <1>1, Invariance, PTL

\* Two books of a lawyer never share their number and year, however the
\* create_book calls interleave.
THEOREM NumbersAreUnique == Spec => []UniqueNumbers
<1>1. IInv => UniqueNumbers
  BY DEF IInv, BooksInv, UniqueNumbers, Conflicting
<1> QED BY <1>1, Invariance, PTL

\* A lawyer never has two open books of one year.
THEOREM OneOpenBook == Spec => []OneOpenPerYear
<1>1. IInv => OneOpenPerYear
  BY DEF IInv, BooksInv, OneOpenPerYear, Conflicting
<1> QED BY <1>1, Invariance, PTL

\* Concurrent filings never give one Doc. No. to two current documents.
THEOREM DocNosAreDistinct == Spec => []DistinctDocNos
<1>1. IInv => DistinctDocNos
  BY DEF IInv, DocsInv
<1> QED BY <1>1, Invariance, PTL

\* Concurrent filings never overfill a page, for every page size.
THEOREM PagesAreNotOverfilled == Spec => []PageCapacity
<1>1. IInv => PageCapacity
  BY DEF IInv, DocsInv
<1> QED BY <1>1, Invariance, PTL

\* The filing that fills the last page closes the book with the same commit.
THEOREM FullBooksAreClosed == Spec => []FullRegisterIsClosed
<1>1. IInv => FullRegisterIsClosed
  BY DEF IInv, DocsInv
<1> QED BY <1>1, Invariance, PTL

\* Nothing opens a closed book again.
THEOREM ClosingIsOneWay == Spec => ClosedStaysClosed
<1> DEFINE A == \A b \in Book :
                  Live(books, b) /\ books[b].status = "CLOSED" /\ Live(books, b)' =>
                    books'[b].status = "CLOSED"
<1>1. ASSUME IInv, Next PROVE A
  <2>1. SUFFICES ASSUME NEW b \in Book, Live(books, b), books[b].status = "CLOSED",
                        Live(books', b)
                 PROVE  books'[b].status = "CLOSED"
    OBVIOUS
  <2>2. TypeOK
    BY <1>1 DEF IInv
  <2>3. ASSUME NEW r \in Request, Settle(r) PROVE books'[b].status = "CLOSED"
    <3>1. CASE CreateSettles(r)
      BY <2>1, <2>2, <3>1 DEF CreateSettles, CreatePending, Live, TypeOK
    <3>2. CASE CloseSettles(r) \/ FileSettles(r)
      <4>1. books[b] \in Row
        BY <2>1, <2>2 DEF TypeOK, Live
      <4>2. books'[b] = books[b] \/ books'[b] = Closed(books[b], r)
        BY <2>2, <3>2 DEF CloseSettles, FileSettles, TypeOK
      <4> QED BY <2>1, <4>1, <4>2, ClosedRow
    <3>3. CASE DeleteSettles(r)
      BY <2>1, <2>2, <3>3 DEF DeleteSettles, TypeOK, Live
    <3> QED BY <1>1, <2>3, <3>1, <3>2, <3>3, CommitEffect
  <2>4. ASSUME books' = books PROVE books'[b].status = "CLOSED"
    BY <2>1, <2>4
  <2> QED BY <1>1, <2>3, <2>4, StepKinds, TablesKept DEF Supersede, Crash
<1>2. IInv /\ [Next]_vars => [A]_vars
  BY <1>1
<1> QED BY <1>2, Invariance, PTL DEF Spec, ClosedStaysClosed

\* What a filing that commits has claimed.
LEMMA FilingHasClaimed ==
  ASSUME IInv, Next, NEW r \in Request, Filing(r)
  PROVE  FilePending(r)
BY DEF Filing, IInv, RequestInv

\* Unless the caller holds on to the Book of check_filing, automatic numbers
\* only ever go into an open book: claim_entry decides under the row lock.
THEOREM AutomaticFilingsFindAnOpenBook ==
  ASSUME KeepsBook = FALSE
  PROVE  Spec => AutoNumbersNeedOpenBook
<1> DEFINE A == \A r \in Request :
                  Filing(r) /\ (call[r].doc_no = Nil \/ call[r].page_no = Nil) =>
                    books[call[r].book].status = "OPEN"
<1>1. IInv /\ [Next]_vars => [A]_vars
  BY FilingHasClaimed DEF FilePending, ByItself
<1> QED BY <1>1, Invariance, PTL DEF Spec, AutoNumbersNeedOpenBook

\* A suggested entry still comes after all current entries when it is
\* committed, for books of every size.
THEOREM SuggestionsComeLast == Spec => AutoNumbersFollow
<1> DEFINE A == \A r \in Request : Filing(r) =>
                  \A d \in Latest(docs, call[r].book) :
                    /\ call[r].doc_no = Nil => entry[r].doc_no > d.doc_no
                    /\ call[r].page_no = Nil => entry[r].page_no >= d.page_no
<1>1. ASSUME IInv, Next PROVE A
  <2>1. SUFFICES ASSUME NEW r \in Request, Filing(r), NEW d \in Latest(docs, call[r].book)
                 PROVE  /\ call[r].doc_no = Nil => entry[r].doc_no > d.doc_no
                        /\ call[r].page_no = Nil => entry[r].page_no >= d.page_no
    OBVIOUS
  <2>2. FilePending(r)
    BY <1>1, <2>1, FilingHasClaimed
  <2>3. d \in Document /\ entry[r] \in Document
    BY <1>1, <2>2 DEF IInv, TypeOK, Latest, FilePending
  <2>4. /\ d.doc_no \in Int /\ entry[r].doc_no \in Int
        /\ d.page_no \in Int /\ entry[r].page_no \in Int
    BY <2>3 DEF Document, DocNo, Page
  <2> QED BY <2>1, <2>2, <2>4 DEF FilePending
<1>2. IInv /\ [Next]_vars => [A]_vars
  BY <1>1
<1> QED BY <1>2, Invariance, PTL DEF Spec, AutoNumbersFollow

\* No cycle of requests waits for row locks or index entries: whoever holds one
\* has only its commit ahead (books/service.py:153).
THEOREM NobodyWaitsInACircle == Spec => []HoldersNeverWait
<1>1. ASSUME IInv PROVE HoldersNeverWait
  <2>1. SUFFICES ASSUME NEW q \in Request, NEW r \in Request, Blocks(q, r)
                 PROVE  pc[q] \in CommitPc \cup {"claim"}
    BY DEF HoldersNeverWait
  <2>2. TypeOK /\ RequestInv(q)
    BY <1>1 DEF IInv
  <2>3. ~HoldsNothing(q)
    <3>1. CASE pc[r] = "insert"
      BY <2>1, <3>1 DEF Blocks, InsertWaitsFor, HoldsNothing
    <3>2. CASE pc[r] \in {"update", "delete", "lock"}
      <4>1. call[r].book \in Book
        BY <2>2, <3>2, CallOnBook DEF BookPc, FilePc
      <4> QED BY <2>1, <3>2, <4>1 DEF Blocks, HoldsNothing
    <3> QED BY <2>1, <3>1, <3>2 DEF Blocks
  <2> QED BY <2>2, <2>3 DEF RequestInv
<1> QED BY <1>1, Invariance, PTL

-----------------------------------------------------------------------------
(* Books implements Register: a commit is one operation of the register    *)
(* and every other step leaves its tables alone.                           *)

\* Register counts with the Cardinality of its own FiniteSets.
LEMMA SameCardinality == \A S : Rg!Cardinality(S) = Cardinality(S)
BY DEF Rg!Cardinality, Cardinality

\* The commit of create_book adds a book.
LEMMA CreateAdds ==
  ASSUME IInv, NEW r \in Request, CreateSettles(r)
  PROVE  write[r].book \in Book /\ Rg!AddBook(write[r].book)
<1>. DEFINE b == write[r].book
            row == NewRow(r)
<1>1. TypeOK
  BY DEF IInv
<1>2. /\ b \in Book /\ books[b] = Nil /\ docs' = docs
      /\ books' = [books EXCEPT ![b] = row]
      /\ \A d \in docs : d.book # b
      /\ \A c \in Book : Live(books, c) => ~Conflicting(books[c], row)
  BY DEF CreateSettles, CreatePending, InBook
<1>3. call[r] \in CreateCall
  BY <1>1 DEF CreateSettles, TypeOK, CreatePc
<1>4. /\ row.user \in User /\ row.number \in Number /\ row.year \in Year
      /\ row.status \in {"OPEN", "CLOSED"} /\ row.closed_at \in Request \cup {Nil}
      /\ row = [user |-> row.user, number |-> row.number, year |-> row.year,
                status |-> row.status, closed_at |-> row.closed_at]
  BY <1>3 DEF NewRow, CreateCall, BookStatus
<1>5. \A c \in Book : books[c] # Nil /\ books[c].user = row.user
                          /\ books[c].year = row.year =>
        /\ books[c].number # row.number
        /\ ~(books[c].status = "OPEN" /\ row.status = "OPEN")
  BY <1>2 DEF Conflicting, SameNumber, BothOpen, Live
<1>. HIDE DEF row
<1>. QED BY <1>2, <1>4, <1>5 DEF Rg!AddBook

\* The commit of close_book closes its book.
LEMMA CloseCloses ==
  ASSUME NEW r \in Request, CloseSettles(r)
  PROVE  call[r].book \in Book /\ Rg!CloseBook(call[r].book, r)
BY DEF CloseSettles, ClosePending, Holds, Live, Rg!CloseBook, Rg!Closed, Closed

\* The commit of delete_book removes its book, if it is still there.
LEMMA DeleteRemoves ==
  ASSUME NEW r \in Request, DeleteSettles(r), books' # books
  PROVE  call[r].book \in Book /\ Rg!RemoveBook(call[r].book)
BY DEF DeleteSettles, Holds, Live, InBook, Rg!RemoveBook

\* The commit of a filing files its document.
LEMMA FileFiles ==
  ASSUME IInv, NEW r \in Request, FileSettles(r)
  PROVE  call[r].book \in Book /\ Rg!FileDocument(call[r].book, r)
<1> DEFINE b == call[r].book
           e == entry[r]
           n == e.doc_no
           p == e.page_no
           onPage == {d \in Rg!Entries(b) : d.page_no = p}
<1>1. TypeOK
  BY DEF IInv
<1>2. /\ FilePending(r) /\ e \in Document /\ b \in Book /\ docs' = docs \cup {e}
      /\ Live(books, b)
  BY DEF FileSettles, FilePending, Holds
<1>3. /\ n \in 1 .. MaxDocNo /\ p \in 1 .. MaxPages
      /\ e = [book |-> b, doc_no |-> n, page_no |-> p, latest |-> TRUE, by |-> r]
  <2>1. e.book = b /\ e.latest = TRUE /\ e.by = r
    BY <1>2 DEF FilePending, Document
  <2> QED BY <1>2, <2>1 DEF Document, DocNo, Page
<1>4. Rg!Entries(b) = Latest(docs, b) /\ onPage = OnPage(docs, b, p)
  BY DEF Rg!Entries, Latest, OnPage
<1>5. \A d \in Rg!Entries(b) : d.doc_no # n
  BY <1>2, <1>4 DEF FilePending
<1>6. Cardinality(onPage) = CountOnPage(docs, b, p)
  BY <1>4 DEF CountOnPage
<1>7. Cardinality(onPage) < MaxEntriesPerPage
  BY <1>2, <1>6 DEF FilePending
<1>8. \/ p = MaxPages /\ books' = [books EXCEPT ![b] = Rg!Closed(books[b], r)]
      \/ /\ \/ books[b].status = "CLOSED"
            \/ p # MaxPages
            \/ Cardinality(onPage) + 1 < MaxEntriesPerPage
         /\ books' = books
  <2>1. CASE write[r] = Nil
    <3>1. Closed(books[b], r) \in Row
      BY <1>1, <1>2, ClosedRow DEF TypeOK, Live
    <3>2. write[r] # [book |-> b, row |-> Closed(books[b], r)]
      BY <1>2, <2>1, <3>1, CallAssumption DEF Write
    <3>3. books' = books
      BY <2>1 DEF FileSettles
    <3> QED BY <1>2, <1>6, <3>2, <3>3 DEF FilePending
  <2>2. CASE write[r] # Nil
    <3>1. books' = [books EXCEPT ![b] = Rg!Closed(books[b], r)]
      BY <2>2 DEF FileSettles, Rg!Closed, Closed
    <3>2. p = MaxPages
      BY <1>2, <2>2 DEF FilePending
    <3> QED BY <3>1, <3>2
  <2> QED BY <2>1, <2>2
<1>9. Rg!FileDocument(b, r)
  <2> HIDE DEF e, n, p
  <2>1. docs' = docs \cup {[book |-> b, doc_no |-> n, page_no |-> p,
                            latest |-> TRUE, by |-> r]}
    BY <1>2, <1>3
  <2> QED BY <1>2, <1>3, <1>5, <1>7, <1>8, <2>1, SameCardinality
          DEF Rg!FileDocument, Live
<1> QED BY <1>2, <1>9

\* A commit is one operation of the register, or publishes nothing.
LEMMA CommitIsOneOperation ==
  ASSUME IInv, NEW r \in Request, Settle(r)
  PROVE  Rg!Next \/ (books' = books /\ docs' = docs)
<1>1. CASE CreateSettles(r) BY <1>1, CreateAdds DEF Rg!Next
<1>2. CASE CloseSettles(r) BY <1>2, CloseCloses DEF Rg!Next
<1>3. CASE DeleteSettles(r) BY <1>3, DeleteRemoves DEF Rg!Next, DeleteSettles
<1>4. CASE FileSettles(r) BY <1>4, FileFiles DEF Rg!Next
<1>. QED BY <1>1, <1>2, <1>3, <1>4, CommitEffect

\* The interleaved transactions commit what a register that serves one request
\* at a time could have done.
THEOREM BooksImplementRegister == Spec => ImplementsRegister
<1>1. Init => Rg!Init
  BY DEF Init, Rg!Init
<1>2. IInv /\ [Next]_vars => [Rg!Next]_(Rg!vars)
  <2>1. SUFFICES ASSUME IInv, [Next]_vars
                 PROVE  Rg!Next \/ (books' = books /\ docs' = docs)
    BY DEF Rg!vars
  <2>2. ASSUME NEW d \in docs, Supersede(d) PROVE Rg!Next
    <3>1. Rg!Supersede(d)
      BY <2>2 DEF Supersede, Superseded, Rg!Supersede
    <3> QED BY <2>2, <3>1 DEF Rg!Next
  <2>3. CASE UNCHANGED vars
    BY <2>3 DEF vars
  <2>4. CASE Crash
    BY <2>4 DEF Crash
  <2> QED BY <2>1, <2>2, <2>3, <2>4, StepKinds, TablesKept, CommitIsOneOperation
<1> QED BY <1>1, <1>2, Invariance, PTL DEF Spec, Rg!Spec, ImplementsRegister
=============================================================================
