---------------------------- MODULE AnswersProofs ----------------------------
(***************************************************************************)
(* What BookService's callers may rely on: an answer tells what has been   *)
(* committed, a delete spares what was filed before it, and only the owner *)
(* of a book changes it.                                                   *)
(*                                                                         *)
(* The argument: a uuid is given once, so a book that a request has seen   *)
(* can be closed or deleted behind its back, but can neither come back nor *)
(* change hands; and documents are superseded, never removed.              *)
(***************************************************************************)
EXTENDS BooksProofs

\* The book is or was there: nobody is about to insert it.
Past(b) ==
  /\ b \in minted
  /\ \A q \in Request : pc[q] = "commit_create" => write[q].book # b

ClosedOrGone(b) == Live(books, b) => books[b].status = "CLOSED"

\* Where a request has seen the book it works on.
SeenPc == {"update", "commit_close", "refresh", "has_documents", "delete",
           "commit_delete", "claim", "commit_file"}

\* What r has seen or been told of the book b it works on.
About(r, b) ==
  /\ pc[r] \in SeenPc =>
       Past(b) /\ (Live(books, b) => books[b].user = call[r].user)
  /\ pc[r] = "commit_delete" /\ write[r] = Nil => ~Live(books, b)
  /\ pc[r] = "refresh" => ClosedOrGone(b)
  /\ pc[r] = "done" /\ call[r].op = "delete" /\ answer[r] = 204 =>
       Past(b) /\ ~Live(books, b)
  /\ pc[r] = "done" /\ call[r].op = "close" /\ answer[r] \in {200, 409} =>
       Past(b) /\ ClosedOrGone(b)
  /\ pc[r] \in BookPc /\ held[r] => InBook(docs, b) # {}

Told(r) ==
  /\ pc[r] \in {"get_close", "update", "commit_close", "refresh"} => call[r].op = "close"
  /\ pc[r] \in {"get_delete", "has_documents", "delete", "commit_delete"} =>
       call[r].op = "delete"
  /\ pc[r] \in {"delete", "commit_delete"} => ~held[r]
  /\ \A b \in Book : call[r].book = b => About(r, b)

\* Books that are there are past insertion.
LEMMA LiveIsPast ==
  ASSUME IInv, NEW b \in Book, Live(books, b)
  PROVE  Past(b)
BY DEF IInv, BooksInv, Past, RequestInv, CreatePending, Live

\* A book that is past insertion stays so.
LEMMA PastLasts ==
  ASSUME IInv, Next, NEW b \in Book, Past(b)
  PROVE  Past(b)'
<1>1. TypeOK BY DEF IInv
<1>2. ASSUME NEW r \in Request, StepOf(r) PROVE Past(b)'
  <2>1. minted \subseteq minted'
    BY <1>2, TablesKept DEF StepOf, Settle, Commit
  <2>2. ASSUME NEW q \in Request, pc'[q] = "commit_create" PROVE write'[q].book # b
    <3>1. CASE q # r
      BY <1>1, <1>2, <2>2, <3>1, OthersUnmoved DEF Unmoved, Past
    <3>2. CASE q = r
      <4>1. CASE Insert(r)
        <5>1. PICK c \in Book \ minted :
                write' = [write EXCEPT ![r] = [book |-> c, row |-> NewRow(r)]]
          BY <4>1 DEF Insert
        <5>2. write'[r].book = c BY <1>1, <5>1 DEF TypeOK
        <5>. QED BY <3>2, <5>2 DEF Past
      <4>2. CASE Begin(r) BY <1>1, <2>2, <3>2, <4>2, BeginPc
      <4>3. CASE Rollback(r) \/ Settle(r) \/ Finish(r)
        BY <1>1, <2>2, <3>2, <4>3
        DEF Rollback, Refuse, Answer, Settle, Goto, Finish, TypeOK
      <4>4. CASE Advance(r)
        BY <1>1, <2>2, <3>2, <4>4 DEF Advance, TypeOK
      <4>5. CASE FlushClose(r) \/ FlushDelete(r) \/ Check(r) \/ Lock(r) \/ Claim(r)
        BY <1>1, <2>2, <3>2, <4>5
        DEF FlushClose, FlushDelete, Check, Lock, Claim, Goto, TypeOK
      <4>. QED BY <1>2, <4>1, <4>2, <4>3, <4>4, <4>5 DEF StepOf
    <3>. QED BY <3>1, <3>2
  <2>. QED BY <2>1, <2>2 DEF Past
<1>3. ASSUME NEW d \in docs, Supersede(d) PROVE Past(b)'
  BY <1>3 DEF Supersede, Past
<1>4. CASE Crash BY <1>4 DEF Crash, Past
<1>. QED BY <1>2, <1>3, <1>4, StepKinds DEF StepOf

\* Such a book does not come back, is not opened again, and has one owner.
LEMMA Fate ==
  ASSUME IInv, Next, NEW b \in Book, Past(b)
  PROVE  /\ Live(books', b) => Live(books, b)
         /\ Live(books', b) => books'[b].user = books[b].user
         /\ Live(books', b) /\ books[b].status = "CLOSED" => books'[b].status = "CLOSED"
<1>1. TypeOK BY DEF IInv
<1>2. ASSUME NEW r \in Request, Settle(r), Live(books', b)
      PROVE  /\ Live(books, b) /\ books'[b].user = books[b].user
             /\ books[b].status = "CLOSED" => books'[b].status = "CLOSED"
  <2>1. CASE CreateSettles(r)
    BY <1>1, <1>2, <2>1 DEF CreateSettles, CreatePending, Past, Live, TypeOK
  <2>2. CASE CloseSettles(r) \/ FileSettles(r)
    <3>1. books'[b] = books[b] \/ (books'[b] = Closed(books[b], r) /\ Live(books, b))
      BY <1>1, <2>2
      DEF CloseSettles, ClosePending, FileSettles, FilePending, Holds, TypeOK
    <3>2. Live(books, b) BY <1>2, <3>1 DEF Live
    <3>3. books[b] \in Row BY <1>1, <3>2 DEF TypeOK, Live
    <3>. QED BY <3>1, <3>2, <3>3, ClosedRow
  <2>3. CASE DeleteSettles(r)
    BY <1>1, <1>2, <2>3 DEF DeleteSettles, TypeOK, Live
  <2>. QED BY <1>2, <2>1, <2>2, <2>3, CommitEffect
<1>3. CASE books' = books BY <1>3
<1>. QED BY <1>2, <1>3, StepKinds, TablesKept DEF Supersede, Crash

\* A book that holds a document goes on holding one.
LEMMA DocumentsLast ==
  ASSUME IInv, Next, NEW b \in Book, InBook(docs, b) # {}
  PROVE  InBook(docs', b) # {}
<1>1. docs \in SUBSET Document /\ IsFiniteSet(docs) BY DEF IInv, TypeOK, DocsInv
<1>2. CASE docs \subseteq docs' BY <1>2 DEF InBook
<1>3. ASSUME NEW r \in Request, Settle(r) PROVE docs \subseteq docs'
  BY <1>3, CommitEffect DEF CreateSettles, CloseSettles, DeleteSettles, FileSettles
<1>4. ASSUME NEW d \in docs, Supersede(d) PROVE InBook(docs', b) # {}
  BY <1>1, <1>4, CountAfterSuperseding DEF Supersede
<1>. QED BY <1>2, <1>3, <1>4, StepKinds, TablesKept DEF Crash

-----------------------------------------------------------------------------
(* A request that waits.                                                   *)

Still(q) ==
  /\ pc'[q] = pc[q] /\ call'[q] = call[q] /\ write'[q] = write[q]
  /\ answer'[q] = answer[q] /\ held'[q] = held[q]

Acts(r) ==
  \/ Begin(r) \/ LockStep(r) \/ OtherStep(r) \/ Finish(r)
  \/ AbandonFile(r) \/ StatementFails(r) \/ CommitAnswerLost(r)

\* A step of r is not a step of q.
LEMMA OthersStill ==
  ASSUME TypeOK, NEW r \in Request, Acts(r), NEW q \in Request, q # r
  PROVE  Still(q)
<1>. USE DEF Still, TypeOK
<1>1. ASSUME NEW s, Refuse(r, s) PROVE Still(q)
  BY <1>1 DEF Refuse, EndTransaction, Answer
<1>2. ASSUME ReadOnly, \/ \E l : Goto(r, l)
                       \/ \E s : Answer(r, s)
      PROVE  Still(q)
  BY <1>2 DEF ReadOnly, Goto, Answer
<1>3. ASSUME Commit(r), \/ \E l : Goto(r, l)
                        \/ \E s : Answer(r, s)
      PROVE  Still(q)
  BY <1>3 DEF Commit, EndTransaction, Goto, Answer
<1>4. ASSUME NEW b, NEW row, Flush(r, b, row), \E l : Goto(r, l)
      PROVE  Still(q)
  BY <1>4 DEF Flush, Goto
<1>5. CASE LockStep(r)
  <2>1. CASE InsertBook(r) BY <1>1, <2>1 DEF InsertBook, Goto
  <2>2. CASE UpdateStatus(r) BY <1>1, <1>4, <2>2 DEF UpdateStatus
  <2>3. CASE DeleteRow(r) BY <1>1, <1>2, <1>4, <2>3 DEF DeleteRow
  <2>4. CASE LockBook(r) BY <1>1, <2>4 DEF LockBook, Goto
  <2>. QED BY <1>5, <2>1, <2>2, <2>3, <2>4 DEF LockStep
<1>6. CASE OtherStep(r)
  <2>1. CASE FindByNumber(r) \/ FindOpen(r) \/ GetForClose(r) \/ GetForDelete(r)
             \/ CheckDocuments(r) \/ RefreshClosed(r)
    BY <1>1, <1>2, <2>1
    DEF FindByNumber, FindOpen, GetForClose, GetForDelete, CheckDocuments, RefreshClosed
  <2>2. CASE CommitCreate(r) \/ CommitClose(r) \/ CommitDelete(r) \/ CommitFile(r)
    BY <1>3, <2>2 DEF CommitCreate, CommitClose, CommitDelete, CommitFile
  <2>3. CASE CheckFiling(r) BY <1>1, <2>3 DEF CheckFiling, Goto
  <2>4. CASE ClaimEntry(r) BY <1>1, <2>4 DEF ClaimEntry, Goto
  <2>. QED BY <1>6, <2>1, <2>2, <2>3, <2>4 DEF OtherStep
<1>7. CASE Begin(r) \/ Finish(r) BY <1>7 DEF Begin, Finish
<1>8. CASE AbandonFile(r) \/ StatementFails(r) \/ CommitAnswerLost(r)
  BY <1>1, <1>3, <1>8 DEF AbandonFile, StatementFails, CommitAnswerLost
<1>. QED BY <1>5, <1>6, <1>7, <1>8 DEF Acts

\* What a waiting request has been told stays true.
LEMMA StillTold ==
  ASSUME IInv, Next, NEW q \in Request, Told(q), Still(q)
  PROVE  Told(q)'
<1>1. ASSUME NEW b \in Book, call'[q].book = b PROVE About(q, b)'
  <2>1. call[q].book = b /\ About(q, b) BY <1>1 DEF Told, Still
  <2>2. Past(b) => /\ Past(b)'
                   /\ Live(books', b) => Live(books, b)
                   /\ Live(books', b) => books'[b].user = books[b].user
                   /\ ClosedOrGone(b) => ClosedOrGone(b)'
    BY PastLasts, Fate DEF ClosedOrGone
  <2>3. InBook(docs, b) # {} => InBook(docs', b) # {} BY DocumentsLast
  <2>4. "refresh" \in SeenPc /\ "commit_delete" \in SeenPc BY DEF SeenPc
  <2>. QED BY <2>1, <2>2, <2>3, <2>4 DEF About, Still
<1>. QED BY <1>1 DEF Told, Still

-----------------------------------------------------------------------------
(* The request that a step is of.                                          *)

\* A refusal tells nothing of the book but that it is closed.
LEMMA RefuseTold ==
  ASSUME TypeOK, NEW r \in Request, NEW s \in {400, 404, 409, 500}, Refuse(r, s),
         s = 409 => call[r].op # "close"
  PROVE  Told(r)'
BY DEF TypeOK, Refuse, Answer, Told, About, SeenPc, BookPc

LEMMA OpOfCall ==
  ASSUME TypeOK, NEW r \in Request
  PROVE  /\ pc[r] \in CreatePc => call[r].op = "create"
         /\ pc[r] \in FilePc => call[r].op = "file"
         /\ pc[r] \in BookPc => call[r].book \in Book
BY DEF TypeOK, CreateCall, FileCall, BookCall

LEMMA CreateTold ==
  ASSUME IInv, NEW r \in Request,
         FindByNumber(r) \/ FindOpen(r) \/ InsertBook(r) \/ CommitCreate(r)
  PROVE  Told(r)'
<1>1. TypeOK /\ call[r].op = "create"
  BY OpOfCall
  DEF IInv, FindByNumber, FindOpen, InsertBook, CommitCreate, CreatePc
<1>2. (\E s \in {400} : Refuse(r, s)) => Told(r)' BY <1>1, RefuseTold
<1>3. ASSUME NEW l \in {"find_open", "insert", "commit_create"}, Goto(r, l)
      PROVE  Told(r)'
  BY <1>1, <1>3 DEF Goto, TypeOK, Told, About, SeenPc, BookPc
<1>4. CASE CommitCreate(r)
  BY <1>1, <1>4 DEF CommitCreate, Commit, Answer, TypeOK, Told, About, SeenPc, BookPc
<1>. QED BY <1>2, <1>3, <1>4 DEF FindByNumber, FindOpen, InsertBook

LEMMA CloseTold ==
  ASSUME IInv, Next, NEW r \in Request, Told(r),
         GetForClose(r) \/ UpdateStatus(r) \/ CommitClose(r) \/ RefreshClosed(r)
  PROVE  Told(r)'
<1>1. /\ TypeOK /\ call[r].book \in Book /\ call[r].op = "close" /\ call'[r] = call[r]
  BY OpOfCall
  DEF IInv, GetForClose, UpdateStatus, CommitClose, RefreshClosed, BookPc, Told,
      Refuse, Flush, Commit, ReadOnly
<1>2. ASSUME NEW s \in {400, 404, 500}, Refuse(r, s) PROVE Told(r)'
  BY <1>1, <1>2, RefuseTold
<1>3. SUFFICES ASSUME NEW c \in Book, c = call[r].book, \A s \in {404, 500} : ~Refuse(r, s)
               PROVE  Told(r)'
  BY <1>1, <1>2
<1>4. About(r, c) BY <1>3 DEF Told
<1>5. Past(c) => /\ Past(c)'
                 /\ Live(books', c) => Live(books, c)
                 /\ Live(books', c) => books'[c].user = books[c].user
  BY PastLasts, Fate
<1>6. InBook(docs, c) # {} => InBook(docs', c) # {} BY DocumentsLast
<1>7. CASE GetForClose(r)
  <2>1. Owned(books, call[r].user, c) BY <1>3, <1>7 DEF GetForClose
  <2>2. Past(c) /\ Past(c)' BY <1>5, <2>1, LiveIsPast DEF Owned
  <2>3. CASE books[c].status = "CLOSED"
    <3>1. pc'[r] = "done" /\ UNCHANGED books
      BY <1>1, <1>3, <1>7, <2>1, <2>3 DEF GetForClose, Refuse, Answer, TypeOK
    <3>2. About(r, c)'
      BY <1>1, <2>2, <2>3, <3>1 DEF About, SeenPc, BookPc, ClosedOrGone
    <3>. QED BY <1>1, <1>3, <3>1, <3>2 DEF Told
  <2>4. CASE books[c].status # "CLOSED"
    <3>1. pc'[r] = "update" /\ UNCHANGED <<held, docs, books>>
      BY <1>1, <1>3, <1>7, <2>1, <2>4 DEF GetForClose, Goto, ReadOnly, TypeOK
    <3>2. pc[r] = "get_close" BY <1>7 DEF GetForClose
    <3>3. About(r, c)'
      BY <1>1, <1>4, <2>1, <2>2, <3>1, <3>2 DEF About, SeenPc, BookPc, Owned
    <3>. QED BY <1>1, <1>3, <3>1, <3>3 DEF Told
  <2>. QED BY <2>3, <2>4
<1>8. CASE UpdateStatus(r)
  <2>1. pc[r] = "update" /\ pc'[r] = "commit_close" /\ UNCHANGED <<held, docs, books>>
    BY <1>1, <1>3, <1>8 DEF UpdateStatus, Flush, Goto, TypeOK
  <2>2. About(r, c)' BY <1>1, <1>4, <1>5, <2>1 DEF About, SeenPc, BookPc
  <2>. QED BY <1>1, <1>3, <2>1, <2>2 DEF Told
<1>9. CASE CommitClose(r)
  <2>1. pc[r] = "commit_close" /\ pc'[r] = "refresh" /\ UNCHANGED held
    BY <1>1, <1>9 DEF CommitClose, Commit, Goto, TypeOK
  <2>2. ClosedOrGone(c)'
    <3>1. Settle(r) BY <1>9 DEF CommitClose, Settle, CommitPc
    <3>2. CloseSettles(r)
      BY <2>1, <3>1, CommitEffect
      DEF CreateSettles, CloseSettles, DeleteSettles, FileSettles
    <3>3. books[c] \in Row
      BY <1>1, <1>3, <3>2 DEF CloseSettles, ClosePending, Holds, TypeOK, Live
    <3>4. books'[c] = Closed(books[c], r) BY <1>1, <1>3, <3>2 DEF CloseSettles, TypeOK
    <3>. QED BY <3>3, <3>4, ClosedRow DEF ClosedOrGone
  <2>3. Past(c) /\ (Live(books, c) => books[c].user = call[r].user)
        /\ (held[r] => InBook(docs, c) # {})
    BY <1>4, <2>1 DEF About, SeenPc, BookPc
  <2>4. About(r, c)' BY <1>1, <1>5, <1>6, <2>1, <2>2, <2>3 DEF About
  <2>. QED BY <1>1, <1>3, <2>1, <2>4 DEF Told
<1>10. CASE RefreshClosed(r)
  <2>1. pc[r] = "refresh" /\ pc'[r] = "done" /\ UNCHANGED <<held, docs, books>>
    BY <1>1, <1>10 DEF RefreshClosed, ReadOnly, Answer, TypeOK
  <2>2. ClosedOrGone(c) /\ ClosedOrGone(c)' /\ Past(c)'
    BY <1>4, <1>5, <2>1 DEF About, SeenPc, ClosedOrGone
  <2>3. About(r, c)' BY <1>1, <2>1, <2>2 DEF About, SeenPc, BookPc
  <2>. QED BY <1>1, <1>3, <2>1, <2>3 DEF Told
<1>. QED BY <1>7, <1>8, <1>9, <1>10

LEMMA DeleteTold ==
  ASSUME IInv, Next, NEW r \in Request, Told(r),
         GetForDelete(r) \/ CheckDocuments(r) \/ DeleteRow(r) \/ CommitDelete(r)
  PROVE  Told(r)'
<1>1. /\ TypeOK /\ call[r].book \in Book /\ call[r].op = "delete" /\ call'[r] = call[r]
  BY OpOfCall
  DEF IInv, GetForDelete, CheckDocuments, DeleteRow, CommitDelete, BookPc, Told,
      Refuse, Flush, Commit, ReadOnly
<1>2. ASSUME NEW s \in {404, 409, 500}, Refuse(r, s) PROVE Told(r)'
  BY <1>1, <1>2, RefuseTold
<1>3. SUFFICES ASSUME NEW c \in Book, c = call[r].book,
                      \A s \in {404, 409, 500} : ~Refuse(r, s)
               PROVE  Told(r)'
  BY <1>1, <1>2
<1>4. About(r, c) BY <1>3 DEF Told
<1>5. Past(c) => /\ Past(c)'
                 /\ Live(books', c) => Live(books, c)
                 /\ Live(books', c) => books'[c].user = books[c].user
  BY PastLasts, Fate
<1>6. InBook(docs, c) # {} => InBook(docs', c) # {} BY DocumentsLast
<1>7. CASE GetForDelete(r)
  <2>1. Owned(books, call[r].user, c) BY <1>3, <1>7 DEF GetForDelete
  <2>2. Past(c) /\ Past(c)' BY <1>5, <2>1, LiveIsPast DEF Owned
  <2>3. /\ pc[r] = "get_delete" /\ pc'[r] = "has_documents"
        /\ UNCHANGED <<held, docs, books>>
    BY <1>1, <1>3, <1>7, <2>1 DEF GetForDelete, Goto, ReadOnly, TypeOK
  <2>4. About(r, c)' BY <1>1, <1>4, <2>1, <2>2, <2>3 DEF About, SeenPc, BookPc, Owned
  <2>. QED BY <1>1, <1>3, <2>3, <2>4 DEF Told
<1>8. CASE CheckDocuments(r)
  <2>1. /\ pc[r] = "has_documents" /\ pc'[r] = "delete" /\ ~HasDocuments(docs, c)
        /\ UNCHANGED <<held, docs, books>>
    BY <1>1, <1>3, <1>8 DEF CheckDocuments, Goto, ReadOnly, TypeOK
  <2>2. ~held[r] BY <1>4, <2>1 DEF About, BookPc, HasDocuments
  <2>3. About(r, c)' BY <1>1, <1>4, <1>5, <2>1, <2>2 DEF About, SeenPc, BookPc
  <2>. QED BY <1>1, <1>3, <2>1, <2>2, <2>3 DEF Told
<1>9. CASE DeleteRow(r)
  <2>1. /\ pc[r] = "delete" /\ pc'[r] = "commit_delete" /\ ~held[r]
        /\ UNCHANGED <<held, docs, books>>
    BY <1>1, <1>3, <1>9 DEF DeleteRow, Flush, Goto, ReadOnly, TypeOK, Told
  <2>2. write'[r] = Nil => ~Live(books, c)
    <3>1. CASE Live(books, c)
      <4>1. write'[r] = [book |-> c, row |-> Nil]
        BY <1>1, <1>3, <1>9, <3>1 DEF DeleteRow, Flush, TypeOK
      <4>2. [book |-> c, row |-> Nil] \in Write BY DEF Write
      <4>. QED BY <4>1, <4>2, CallAssumption
    <3>. QED BY <3>1
  <2>3. About(r, c)' BY <1>1, <1>4, <1>5, <2>1, <2>2 DEF About, SeenPc, BookPc
  <2>. QED BY <1>1, <1>3, <2>1, <2>3 DEF Told
<1>10. CASE CommitDelete(r)
  <2>1. pc[r] = "commit_delete" /\ pc'[r] = "done" /\ UNCHANGED held
    BY <1>1, <1>10 DEF CommitDelete, Commit, Answer, TypeOK
  <2>2. ~Live(books', c)
    <3>1. DeletePending(r) BY <2>1 DEF IInv, RequestInv
    <3>2. CASE write[r] = Nil
      BY <1>4, <2>1, <1>10, <3>2 DEF About, CommitDelete, Commit, Apply
    <3>3. CASE write[r] # Nil
      <4>1. write[r] = [book |-> c, row |-> Nil]
        BY <1>3, <3>1, <3>3 DEF DeletePending, HoldsNothing
      <4>2. books' = [books EXCEPT ![c] = Nil]
        BY <1>10, <3>3, <4>1 DEF CommitDelete, Commit, Apply
      <4>. QED BY <1>1, <4>2 DEF Live, TypeOK
    <3>. QED BY <3>2, <3>3
  <2>3. Past(c)' BY <1>4, <1>5, <2>1 DEF About, SeenPc
  <2>4. About(r, c)' BY <1>1, <2>1, <2>2, <2>3 DEF About, SeenPc, BookPc
  <2>. QED BY <1>1, <1>3, <2>1, <2>4 DEF Told
<1>. QED BY <1>7, <1>8, <1>9, <1>10

LEMMA FileTold ==
  ASSUME IInv, Next, NEW r \in Request, Told(r),
         \/ CheckFiling(r) \/ LockBook(r) \/ ClaimEntry(r) \/ CommitFile(r)
         \/ AbandonFile(r)
  PROVE  Told(r)'
<1>1. /\ TypeOK /\ call[r].op = "file" /\ call'[r] = call[r]
  BY OpOfCall
  DEF IInv, CheckFiling, LockBook, ClaimEntry, CommitFile, AbandonFile, FilePc,
      Refuse, Commit
<1>2. ASSUME NEW s \in {400, 404, 409, 500}, Refuse(r, s) PROVE Told(r)'
  BY <1>1, <1>2, RefuseTold
<1>3. CASE CommitFile(r)
  <2>1. pc'[r] = "done" BY <1>1, <1>3 DEF CommitFile, Answer, TypeOK
  <2>. QED BY <1>1, <2>1 DEF Told, About, SeenPc, BookPc
<1>4. ASSUME Goto(r, "lock") PROVE Told(r)'
  <2>1. pc'[r] = "lock" BY <1>1, <1>4 DEF Goto, TypeOK
  <2>. QED BY <1>1, <2>1 DEF Told, About, SeenPc, BookPc
<1>5. ASSUME pc'[r] \in {"claim", "commit_file"},
             \A c \in Book : call[r].book = c =>
               Past(c) /\ (Live(books, c) => books[c].user = call[r].user)
      PROVE  Told(r)'
  <2>1. ASSUME NEW c \in Book, call'[r].book = c PROVE About(r, c)'
    <3>1. Past(c) /\ (Live(books, c) => books[c].user = call[r].user)
      BY <1>1, <1>5, <2>1
    <3>2. /\ Past(c)'
          /\ Live(books', c) => Live(books, c) /\ books'[c].user = books[c].user
      BY <3>1, PastLasts, Fate
    <3>. QED BY <1>1, <1>5, <3>1, <3>2 DEF About, BookPc
  <2>. QED BY <1>1, <1>5, <2>1 DEF Told
<1>6. CASE LockBook(r) /\ \A s \in {400, 404} : ~Refuse(r, s)
  <2>1. pc'[r] = "claim" BY <1>1, <1>6 DEF LockBook, Goto, TypeOK
  <2>2. Owned(books, call[r].user, call[r].book) BY <1>6 DEF LockBook
  <2>. QED BY <1>5, <2>1, <2>2, LiveIsPast DEF Owned
<1>7. CASE ClaimEntry(r) /\ ~Refuse(r, ClaimStatus(r))
  <2>1. pc[r] = "claim" /\ pc'[r] = "commit_file"
    BY <1>1, <1>7 DEF ClaimEntry, Goto, TypeOK
  <2>. QED BY <1>5, <2>1 DEF Told, About, SeenPc
<1>8. ClaimStatus(r) \in {400, 404, 409, 500} BY DEF ClaimStatus
<1>. QED BY <1>2, <1>3, <1>4, <1>6, <1>7, <1>8 DEF CheckFiling, LockBook, AbandonFile

LEMMA FaultTold ==
  ASSUME IInv, NEW r \in Request,
         Begin(r) \/ Finish(r) \/ StatementFails(r) \/ CommitAnswerLost(r)
  PROVE  Told(r)'
<1>1. TypeOK BY DEF IInv
<1>2. CASE StatementFails(r) BY <1>1, <1>2, RefuseTold DEF StatementFails
<1>3. CASE CommitAnswerLost(r)
  BY <1>1, <1>3 DEF CommitAnswerLost, Answer, TypeOK, Told, About, SeenPc, BookPc
<1>4. CASE Finish(r)
  BY <1>1, <1>4 DEF Finish, TypeOK, Told, About, SeenPc, BookPc
<1>5. CASE Begin(r)
  <2>1. PICK c \in Asked : /\ call' = [call EXCEPT ![r] = c]
                           /\ pc' = [pc EXCEPT ![r] = FirstPc(c)]
                           /\ held' = [held EXCEPT ![r] =
                                c.op # "create" /\ InBook(docs, c.book) # {}]
    BY <1>5 DEF Begin
  <2>. DEFINE h == c.op # "create" /\ InBook(docs, c.book) # {}
  <2>2. /\ call'[r] = c /\ pc'[r] = FirstPc(c) /\ docs' = docs
        /\ held'[r] <=> h
    <3>1. h \in BOOLEAN OBVIOUS
    <3>2. held' = [held EXCEPT ![r] = h] BY <2>1
    <3>. HIDE DEF h
    <3>. QED BY <1>1, <1>5, <2>1, <3>1, <3>2 DEF Begin, TypeOK
  <2>3. c \in CreateCall \/ c \in BookCall \/ c \in FileCall BY CallAssumption
  <2>4. /\ FirstPc(c) \in {"find_number", "get_close", "get_delete", "check", "lock"}
        /\ FirstPc(c) = "get_close" => c.op = "close"
        /\ FirstPc(c) = "get_delete" => c.op = "delete"
    BY <2>3 DEF FirstPc, CreateCall, BookCall, FileCall
  <2>5. \A b \in Book : call'[r].book = b => About(r, b)'
    BY <2>2, <2>4 DEF About, SeenPc
  <2>. QED BY <2>2, <2>4, <2>5 DEF Told
<1>. QED BY <1>2, <1>3, <1>4, <1>5

-----------------------------------------------------------------------------
(* The invariant and what follows from it.                                 *)

AllTold == \A r \in Request : Told(r)

LEMMA ToldInit == Init => AllTold
BY DEF Init, AllTold, Told, About, SeenPc, BookPc

LEMMA ToldNext ==
  ASSUME IInv, AllTold, [Next]_vars
  PROVE  AllTold'
<1>. SUFFICES ASSUME NEW q \in Request PROVE Told(q)'
  BY DEF AllTold
<1>1. Told(q) /\ TypeOK BY DEF AllTold, IInv
<1>2. CASE UNCHANGED vars
  BY <1>1, <1>2 DEF vars, Told, About, Past, ClosedOrGone
<1>3. ASSUME NEW r \in Request, Acts(r), Next PROVE Told(q)'
  <2>1. CASE q # r BY <1>1, <1>3, <2>1, OthersStill, StillTold
  <2>2. CASE q = r
    BY <1>1, <1>3, <2>2, CreateTold, CloseTold, DeleteTold, FileTold, FaultTold
    DEF Acts, LockStep, OtherStep
  <2>. QED BY <2>1, <2>2
<1>4. ASSUME NEW d \in docs, Supersede(d), Next PROVE Told(q)'
  BY <1>1, <1>4, StillTold DEF Supersede, Still
<1>5. CASE Crash BY <1>5 DEF Crash, Told, About, SeenPc, BookPc
<1>. QED BY <1>2, <1>3, <1>4, <1>5 DEF Next, Acts

LEMMA ToldInvariant == Spec => [](IInv /\ AllTold)
<1>1. Init => IInv /\ AllTold BY InvInit, ToldInit
<1>2. IInv /\ AllTold /\ [Next]_vars => (IInv /\ AllTold)' BY InvStep, ToldNext
<1>. QED BY <1>1, <1>2, PTL DEF Spec

\* Who is told that a book is deleted or closed can rely on it from then on,
\* whatever other closes, deletes and filings are under way
\* (books/service.py:95-123).
THEOREM AnswersCanBeReliedOn == Spec => []AnswersHold
<1>1. ASSUME IInv, AllTold PROVE AnswersHold
  <2>1. SUFFICES ASSUME NEW r \in Request, pc[r] = "done", call[r].op \in {"close", "delete"}
                 PROVE  /\ call[r].op = "delete" /\ answer[r] = 204 =>
                             ~Live(books, call[r].book)
                        /\ /\ call[r].op = "close" /\ answer[r] \in {200, 409}
                           /\ Live(books, call[r].book)
                           => books[call[r].book].status = "CLOSED"
    BY DEF AnswersHold
  <2>2. call[r].book \in Book
    BY <1>1, <2>1 DEF IInv, TypeOK, CreateCall, BookCall, FileCall
  <2>3. About(r, call[r].book) BY <1>1, <2>2 DEF AllTold, Told
  <2>. QED BY <2>1, <2>3 DEF About, ClosedOrGone
<1>. QED BY <1>1, ToldInvariant, PTL

\* A delete never takes away a book that held a document, in whatever version,
\* when the delete began, with or without a foreign key
\* (books/service.py:113-121).
THEOREM DeletesSpareFiledBooks == Spec => []DeleteSparesFiled
<1>1. IInv /\ AllTold => DeleteSparesFiled
  BY DEF AllTold, Told, DeleteSparesFiled
<1>. QED BY <1>1, ToldInvariant, PTL

\* Nobody closes or deletes another lawyer's book: the owner is compared when
\* the book is read, and a book never changes hands (database/user_scope_repository.py:19).
THEOREM OwnersAlone == Spec => OwnersOnly
<1>. DEFINE A == \A b \in Book : Live(books, b) /\ books'[b] # books[b] =>
                   \E r \in Request : /\ pc[r] \in CommitPc
                                      /\ write[r] # Nil /\ write[r].book = b
                                      /\ call[r].user = books[b].user
<1>1. ASSUME IInv, AllTold, Next PROVE A
  <2>. SUFFICES ASSUME NEW b \in Book, Live(books, b), books'[b] # books[b]
                PROVE  \E r \in Request : /\ pc[r] \in CommitPc
                                          /\ write[r] # Nil /\ write[r].book = b
                                          /\ call[r].user = books[b].user
    OBVIOUS
  <2>1. PICK r \in Request : Settle(r)
    BY <1>1, StepKinds, TablesKept DEF Supersede, Crash
  <2>2. /\ TypeOK
        /\ books' = IF write[r] = Nil THEN books
                    ELSE [books EXCEPT ![write[r].book] = write[r].row]
        /\ pc[r] \in CommitPc
    BY <1>1, <2>1 DEF IInv, Settle, Commit, Apply
  <2>3. write[r] # Nil /\ write[r].book = b BY <2>2 DEF TypeOK
  <2>4. pc[r] \in {"commit_close", "commit_delete", "commit_file"} /\ call[r].book = b
    <3>1. ~CreateSettles(r)
      BY <2>2, <2>3 DEF CreateSettles, CreatePending, Live
    <3>. QED BY <1>1, <2>1, <2>2, <2>3, <3>1, CommitEffect
         DEF CloseSettles, DeleteSettles, FileSettles, TypeOK
  <2>5. About(r, b) BY <1>1, <2>4 DEF AllTold, Told
  <2>6. call[r].user = books[b].user BY <2>4, <2>5 DEF About, SeenPc
  <2>. QED BY <2>2, <2>3, <2>6
<1>2. IInv /\ AllTold /\ [Next]_vars => [A]_vars BY <1>1
<1>. QED BY <1>2, ToldInvariant, PTL DEF Spec, OwnersOnly

-----------------------------------------------------------------------------
(* The closes that fail.                                                   *)

\* While nothing breaks and the documents feature is there, a close answered
\* 500 found its book gone.
FailedOnGone(r) ==
  pc[r] = "done" /\ call[r].op = "close" /\ answer[r] = 500 =>
    \A b \in Book : call[r].book = b => Past(b) /\ ~Live(books, b)

AllReported == \A r \in Request : FailedOnGone(r)

\* A close of r that is answered now.
LEMMA OwnReported ==
  ASSUME DocumentsFeature, ~Faults, IInv, AllTold, Next, NEW r \in Request, Acts(r)
  PROVE  FailedOnGone(r)'
<1>1. TypeOK /\ Told(r) BY DEF IInv, AllTold
<1>2. CASE UpdateStatus(r) \/ RefreshClosed(r)
  <2>1. SUFFICES ASSUME answer'[r] = 500, pc'[r] = "done", NEW b \in Book, call'[r].book = b
                 PROVE  Past(b)' /\ ~Live(books', b)
    BY DEF FailedOnGone
  <2>2. pc[r] \in {"update", "refresh"} /\ call' = call
    BY <1>2 DEF UpdateStatus, RefreshClosed, ReadOnly, Refuse, Flush
  <2>3. Past(b) BY <1>1, <2>1, <2>2 DEF Told, About, SeenPc
  <2>4. ~Live(books, b)
    <3>1. CASE UpdateStatus(r)
      BY <1>1, <2>1, <2>2, <3>1 DEF UpdateStatus, Goto, TypeOK
    <3>2. CASE RefreshClosed(r)
      BY <1>1, <2>1, <2>2, <3>2 DEF RefreshClosed, Answer, TypeOK
    <3>. QED BY <1>2, <3>1, <3>2
  <2>. QED BY <2>3, <2>4, PastLasts, Fate
<1>3. CASE GetForClose(r) \/ CommitClose(r)
  BY <1>1, <1>3
  DEF GetForClose, CommitClose, Refuse, Answer, Goto, TypeOK, FailedOnGone
<1>4. ASSUME pc[r] \in Running, call[r].op # "close", call' = call
      PROVE  FailedOnGone(r)'
  BY <1>4 DEF FailedOnGone
<1>5. CASE \/ FindByNumber(r) \/ FindOpen(r) \/ InsertBook(r) \/ CommitCreate(r)
           \/ GetForDelete(r) \/ CheckDocuments(r) \/ DeleteRow(r) \/ CommitDelete(r)
           \/ CheckFiling(r) \/ LockBook(r) \/ ClaimEntry(r) \/ CommitFile(r)
           \/ AbandonFile(r)
  <2>1. call' = call
    BY <1>5
    DEF FindByNumber, FindOpen, InsertBook, CommitCreate, GetForDelete, CheckDocuments,
        DeleteRow, CommitDelete, CheckFiling, LockBook, ClaimEntry, CommitFile,
        AbandonFile, Refuse, ReadOnly, Flush, Commit
  <2>2. /\ pc[r] \in CreatePc \cup FilePc
                        \cup {"get_delete", "has_documents", "delete", "commit_delete"}
        /\ pc[r] \in Running
    BY <1>5
    DEF FindByNumber, FindOpen, InsertBook, CommitCreate, GetForDelete, CheckDocuments,
        DeleteRow, CommitDelete, CheckFiling, LockBook, ClaimEntry, CommitFile,
        AbandonFile, CreatePc, BookPc, FilePc, Running
  <2>3. call[r].op # "close" BY <1>1, <2>2, OpOfCall DEF Told
  <2>. QED BY <1>4, <2>1, <2>2, <2>3
<1>6. CASE Begin(r)
  <2>1. pc'[r] # "done" BY <1>1, <1>6, BeginPc
  <2>. QED BY <2>1 DEF FailedOnGone
<1>7. CASE Finish(r) BY <1>1, <1>7 DEF Finish, TypeOK, FailedOnGone
<1>. QED BY <1>2, <1>3, <1>5, <1>6, <1>7
     DEF Acts, LockStep, OtherStep, StatementFails, CommitAnswerLost

LEMMA ReportedNext ==
  ASSUME DocumentsFeature, ~Faults, IInv, AllTold, AllReported, [Next]_vars
  PROVE  AllReported'
<1>. SUFFICES ASSUME NEW q \in Request PROVE FailedOnGone(q)'
  BY DEF AllReported
<1>1. FailedOnGone(q) /\ TypeOK BY DEF AllReported, IInv
<1>2. CASE UNCHANGED vars
  BY <1>1, <1>2 DEF vars, FailedOnGone, Past
<1>3. ASSUME Next, Still(q) PROVE FailedOnGone(q)'
  BY <1>1, <1>3, PastLasts, Fate DEF FailedOnGone, Still
<1>4. ASSUME Next, NEW r \in Request, Acts(r) PROVE FailedOnGone(q)'
  BY <1>1, <1>3, <1>4, OthersStill, OwnReported
<1>5. ASSUME Next, NEW d \in docs, Supersede(d) PROVE FailedOnGone(q)'
  BY <1>3, <1>5 DEF Supersede, Still
<1>. QED BY <1>2, <1>4, <1>5 DEF Next, Acts, Crash

\* A committed close answered with 500 takes a connection that breaks or the
\* missing documents feature: with the feature there and no fault, a close
\* that was answered 500 has not closed a book that is still there
\* (books/service.py:103-110).
THEOREM ClosesAreReported ==
  ASSUME DocumentsFeature = TRUE, Faults = FALSE
  PROVE  Spec => []CommittedCloseIsReported
<1>. DEFINE I == IInv /\ AllTold /\ AllReported
<1>1. Init => I
  BY InvInit, ToldInit DEF Init, AllReported, FailedOnGone
<1>2. I /\ [Next]_vars => I'
  BY InvStep, ToldNext, ReportedNext
<1>3. ASSUME I PROVE CommittedCloseIsReported
  <2>1. SUFFICES ASSUME NEW r \in Request, pc[r] = "done", call[r].op = "close",
                        answer[r] = 500, Live(books, call[r].book)
                 PROVE  FALSE
    BY DEF CommittedCloseIsReported
  <2>2. call[r].book \in Book
    BY <1>3, <2>1 DEF IInv, TypeOK, CreateCall, BookCall, FileCall
  <2>. QED BY <1>3, <2>1, <2>2 DEF AllReported, FailedOnGone
<1>. QED BY <1>1, <1>2, <1>3, PTL DEF Spec
=============================================================================
