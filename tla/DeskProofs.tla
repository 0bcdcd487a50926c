------------------------------ MODULE DeskProofs ------------------------------
(***************************************************************************)
(* Books implements Desk: every call takes effect in one moment, between   *)
(* its beginning and its answer, and the answer tells whether it has.      *)
(*                                                                         *)
(* The argument: a call is served by its commit, which is an operation of  *)
(* the register (CreateAdds, CloseCloses, DeleteRemoves, FileFiles), the   *)
(* one it asked for, because the request has kept the ground it decided on *)
(* (IInv), the book it has seen has not changed hands (AllTold), and the   *)
(* entry it claimed has the numbers it asked for (AllNumbered).  A refusal *)
(* is decided by one statement, at which it is right.                      *)
(***************************************************************************)
EXTENDS AnswersProofs, NumberingProofs

-----------------------------------------------------------------------------
(* Where calls stand.                                                      *)

Asking == Running \ {"refresh"}

LEMMA StandingIs ==
  ASSUME NEW r \in Request
  PROVE  /\ pc[r] = "idle" => Standing(r) = "free"
         /\ pc[r] \in Asking => Standing(r) = "asked"
         /\ pc[r] = "refresh" => Standing(r) = "served"
         /\ pc[r] = "done" /\ answer[r] \in {200, 201, 204} => Standing(r) = "success"
         /\ pc[r] = "done" /\ answer[r] \in {400, 404, 409} => Standing(r) = "refused"
         /\ pc[r] = "done" /\ answer[r] = 500 => Standing(r) = "error"
<1>1. "idle" \notin Running /\ "done" \notin Running /\ "refresh" \in Running
  BY DEF Running, CreatePc, BookPc, FilePc
<1>. QED BY <1>1 DEF Standing, Asking

LEMMA StandingIsPrimed ==
  ASSUME NEW r \in Request
  PROVE  /\ pc'[r] = "idle" => Standing(r)' = "free"
         /\ pc'[r] \in Asking => Standing(r)' = "asked"
         /\ pc'[r] = "refresh" => Standing(r)' = "served"
         /\ pc'[r] = "done" /\ answer'[r] \in {200, 201, 204} => Standing(r)' = "success"
         /\ pc'[r] = "done" /\ answer'[r] \in {400, 404, 409} => Standing(r)' = "refused"
         /\ pc'[r] = "done" /\ answer'[r] = 500 => Standing(r)' = "error"
<1>1. "idle" \notin Running /\ "done" \notin Running /\ "refresh" \in Running
  BY DEF Running, CreatePc, BookPc, FilePc
<1>. QED BY <1>1 DEF Standing, Asking

\* A step of r moves no call but that of r.
LEMMA OneCallMoves ==
  ASSUME TypeOK, NEW r \in Request, Acts(r), NEW s, Standing(r)' = s
  PROVE  [q \in Request |-> Standing(q)]'
           = [[q \in Request |-> Standing(q)] EXCEPT ![r] = s]
<1>1. ASSUME NEW q \in Request, q # r PROVE Standing(q)' = Standing(q)
  BY <1>1, OthersStill DEF Still, Standing
<1>. QED BY <1>1

\* A statement in the middle of a call is none of the desk's business.
LEMMA MiddleStep ==
  ASSUME TypeOK, NEW r \in Request, Acts(r), UNCHANGED <<books, docs, call>>,
         Standing(r)' = Standing(r)
  PROVE  UNCHANGED Dk!deskVars
<1>1. [q \in Request |-> Standing(q)]' = [q \in Request |-> Standing(q)]
  BY OneCallMoves
<1>. QED BY <1>1 DEF Dk!deskVars

LEMMA AskStep ==
  ASSUME TypeOK, NEW r \in Request, Begin(r)
  PROVE  Dk!Ask(r)
<1>1. pc[r] = "idle" /\ UNCHANGED <<books, docs>>
      /\ \E c \in Asked : call' = [call EXCEPT ![r] = c]
  BY DEF Begin
<1>2. pc'[r] \in Asking
  BY BeginPc DEF Asking, Running, CreatePc, BookPc, FilePc
<1>3. Standing(r) = "free" /\ Standing(r)' = "asked"
  BY <1>1, <1>2, StandingIs, StandingIsPrimed
<1>. QED BY <1>1, <1>3, OneCallMoves DEF Acts, Dk!Ask

LEMMA LeaveStep ==
  ASSUME TypeOK, NEW r \in Request, Finish(r)
  PROVE  Dk!Leave(r)
<1>1. /\ pc[r] = "done" /\ answer[r] \in Status /\ pc'[r] = "idle"
      /\ call' = [call EXCEPT ![r] = Nil] /\ UNCHANGED <<books, docs>>
  BY DEF Finish, TypeOK
<1>2. Standing(r) \in {"success", "refused", "error"}
  BY <1>1, StandingIs DEF Status
<1>3. Standing(r)' = "free"
  BY <1>1, StandingIsPrimed
<1>. QED BY <1>1, <1>2, <1>3, OneCallMoves DEF Acts, Dk!Leave

\* A refusal that is right, or an error, is a refusal of the desk.
LEMMA RefuseStep ==
  ASSUME TypeOK, NEW r \in Request, Acts(r), NEW s \in {400, 404, 409, 500},
         Refuse(r, s), pc[r] \in Asking, s # 500 => Dk!Impossible(call[r])
  PROVE  Dk!Refuse(r)
<1>1. /\ pc'[r] = "done" /\ answer'[r] = s
      /\ UNCHANGED <<books, docs, call>>
  BY DEF Refuse, Answer, TypeOK
<1>2. Standing(r) = "asked"
  BY StandingIs
<1>3. CASE s = 500
  <2>1. Standing(r)' = "error" BY <1>1, <1>3, StandingIsPrimed
  <2>2. [q \in Request |-> Standing(q)]'
          = [[q \in Request |-> Standing(q)] EXCEPT ![r] = "error"]
    BY <2>1, OneCallMoves
  <2>. QED BY <1>1, <1>2, <2>2 DEF Dk!Refuse
<1>4. CASE s # 500
  <2>1. Standing(r)' = "refused" BY <1>1, <1>4, StandingIsPrimed
  <2>2. [q \in Request |-> Standing(q)]'
          = [[q \in Request |-> Standing(q)] EXCEPT ![r] = "refused"]
    BY <2>1, OneCallMoves
  <2>. QED BY <1>1, <1>2, <1>4, <2>2 DEF Dk!Refuse
<1>. QED BY <1>3, <1>4

\* The answer of a close that is committed.
LEMMA ReportStep ==
  ASSUME TypeOK, NEW r \in Request, Acts(r), pc[r] = "refresh",
         RefreshClosed(r) \/ Refuse(r, 500)
  PROVE  Dk!Report(r)
<1>1. /\ pc'[r] = "done" /\ answer'[r] \in {200, 500}
      /\ UNCHANGED <<books, docs, call>>
  BY DEF RefreshClosed, ReadOnly, Refuse, Answer, TypeOK
<1>2. Standing(r) = "served"
  BY StandingIs
<1>3. PICK s \in {"success", "error"} : Standing(r)' = s
  BY <1>1, StandingIsPrimed
<1>4. [q \in Request |-> Standing(q)]'
        = [[q \in Request |-> Standing(q)] EXCEPT ![r] = s]
  BY <1>3, OneCallMoves
<1>. QED BY <1>1, <1>2, <1>4 DEF Dk!Report
-----------------------------------------------------------------------------
(* A commit serves the call.                                               *)

\* The two abstractions speak of one register.
LEMMA SameRegister ==
  /\ \A b : Dk!AddBook(b) <=> Rg!AddBook(b)
  /\ \A b, r : Dk!CloseBook(b, r) <=> Rg!CloseBook(b, r)
  /\ \A b : Dk!RemoveBook(b) <=> Rg!RemoveBook(b)
  /\ \A d : Dk!Supersede(d) <=> Rg!Supersede(d)
<1>1. \A b : Dk!AddBook(b) <=> Rg!AddBook(b) BY DEF Dk!AddBook, Rg!AddBook
<1>2. \A b, r : Dk!CloseBook(b, r) <=> Rg!CloseBook(b, r)
  BY DEF Dk!CloseBook, Rg!CloseBook, Dk!Closed, Rg!Closed
<1>3. \A b : Dk!RemoveBook(b) <=> Rg!RemoveBook(b) BY DEF Dk!RemoveBook, Rg!RemoveBook
<1>4. \A d : Dk!Supersede(d) <=> Rg!Supersede(d) BY DEF Dk!Supersede, Rg!Supersede
<1>. QED BY <1>1, <1>2, <1>3, <1>4

LEMMA DeskCardinality ==
  ASSUME NEW S
  PROVE  Dk!Cardinality(S) = Cardinality(S) /\ Rg!Cardinality(S) = Cardinality(S)
BY DEF Dk!Cardinality, Rg!Cardinality, Cardinality

LEMMA SameFiling ==
  ASSUME NEW b, NEW r, Rg!FileDocument(b, r)
  PROVE  Dk!FileDocument(b, r)
<1>1. Dk!Entries(b) = Rg!Entries(b) BY DEF Dk!Entries, Rg!Entries
<1>2. Dk!Closed(books[b], r) = Rg!Closed(books[b], r) BY DEF Dk!Closed, Rg!Closed
<1>3. \A S : Dk!Cardinality(S) = Rg!Cardinality(S) BY DeskCardinality
<1>. QED BY <1>1, <1>2, <1>3 DEF Dk!FileDocument, Rg!FileDocument

\* The new book is the one asked for.
LEMMA CreateServes ==
  ASSUME IInv, NEW r \in Request, CreateSettles(r)
  PROVE  call[r].op = "create" /\ Dk!Create(call[r])
<1>. DEFINE b == write[r].book
<1>1. TypeOK /\ pc[r] \in CreatePc BY DEF IInv, CreateSettles, CreatePc
<1>2. call[r].op = "create" BY <1>1, OpOfCall
<1>3. b \in Book /\ Dk!AddBook(b) BY CreateAdds, SameRegister
<1>4. books'[b] = NewRow(r) BY <1>1 DEF CreateSettles, TypeOK
<1>5. /\ NewRow(r).user = call[r].user /\ NewRow(r).number = call[r].number
      /\ NewRow(r).year = call[r].year /\ NewRow(r).status = call[r].status
  BY DEF NewRow
<1>. QED BY <1>2, <1>3, <1>4, <1>5 DEF Dk!Create

\* The book that is closed or deleted is the caller's.
LEMMA CloseServes ==
  ASSUME IInv, NEW r \in Request, Told(r), CloseSettles(r)
  PROVE  call[r].op = "close" /\ Dk!Close(call[r], r)
<1>1. call[r].book \in Book /\ Dk!CloseBook(call[r].book, r)
  BY CloseCloses, SameRegister
<1>2. pc[r] = "commit_close" /\ Live(books, call[r].book)
  BY DEF CloseSettles, ClosePending, Holds
<1>3. call[r].op = "close" /\ books[call[r].book].user = call[r].user
  BY <1>1, <1>2 DEF Told, About, SeenPc
<1>. QED BY <1>1, <1>2, <1>3 DEF Dk!Close, Dk!Mine, Live

LEMMA DeleteServes ==
  ASSUME IInv, NEW r \in Request, Told(r), DeleteSettles(r), Settle(r)
  PROVE  call[r].op = "delete" /\ Dk!Delete(call[r])
<1>1. pc[r] = "commit_delete" /\ docs' = docs BY DEF DeleteSettles
<1>2. call[r].op = "delete" BY <1>1 DEF Told
<1>3. TypeOK /\ call[r].book \in Book BY <1>1, CallOnBook DEF IInv, BookPc
<1>4. About(r, call[r].book) BY <1>3 DEF Told
<1>5. CASE books' # books
  <2>1. Dk!RemoveBook(call[r].book) BY <1>5, DeleteRemoves, SameRegister
  <2>2. Live(books, call[r].book) BY <2>1 DEF Dk!RemoveBook, Live
  <2>3. Dk!Mine(call[r]) BY <1>1, <1>4, <2>2 DEF About, SeenPc, Dk!Mine, Live
  <2>. QED BY <1>2, <2>1, <2>3 DEF Dk!Delete
<1>6. CASE books' = books
  <2>1. write[r] = Nil
    <3>1. SUFFICES ASSUME write[r] # Nil PROVE FALSE OBVIOUS
    <3>2. /\ Holds(r, call[r].book)
          /\ write[r] = [book |-> call[r].book, row |-> Nil]
      BY <1>1, <3>1 DEF IInv, RequestInv, DeletePending, HoldsNothing
    <3>3. books' = [books EXCEPT ![call[r].book] = Nil]
      BY <3>1, <3>2 DEF Settle, Commit, Apply
    <3>4. books'[call[r].book] = Nil BY <1>3, <3>3 DEF TypeOK
    <3>. QED BY <1>6, <3>2, <3>4 DEF Holds, Live
  <2>2. books[call[r].book] = Nil BY <1>1, <1>4, <2>1 DEF About, Live
  <2>. QED BY <1>1, <1>2, <1>6, <2>2 DEF Dk!Delete
<1>. QED BY <1>5, <1>6

\* The document has the numbers asked for, and comes last where none was.
LEMMA FileServes ==
  ASSUME IInv, NEW r \in Request, Told(r), Numbered(r), FileSettles(r)
  PROVE  call[r].op = "file" /\ Dk!File(call[r], r)
<1>. DEFINE c == call[r]
            e == entry[r]
<1>1. /\ TypeOK /\ pc[r] = "commit_file" /\ FilePending(r)
      /\ e \in Document /\ docs' = docs \cup {e}
  BY DEF IInv, FileSettles
<1>2. c.op = "file" BY <1>1, OpOfCall DEF FilePc
<1>3. c.book \in Book /\ Dk!FileDocument(c.book, r) BY FileFiles, SameFiling
<1>4. Live(books, c.book) /\ e.book = c.book /\ e.latest
  BY <1>1 DEF FilePending, Holds
<1>5. Dk!Mine(c) BY <1>1, <1>3, <1>4 DEF Told, About, SeenPc, Dk!Mine, Live
<1>6. Dk!Entries(c.book) = Latest(docs, c.book) BY DEF Dk!Entries, Latest
<1>7. e \in docs' \ docs
  BY <1>1, <1>4 DEF FilePending, Latest
<1>8. /\ c.doc_no # Nil => e.doc_no = c.doc_no
      /\ c.page_no # Nil => e.page_no = c.page_no
  BY <1>1 DEF Numbered
<1>9. \A d \in Dk!Entries(c.book) :
        /\ c.doc_no = Nil => d.doc_no < e.doc_no
        /\ c.page_no = Nil => d.page_no <= e.page_no
  BY <1>1, <1>6 DEF FilePending
<1>10. Dk!Automatic(c) /\ ~KeepsBook => books[c.book].status = "OPEN"
  BY <1>1 DEF FilePending, ByItself, Dk!Automatic
<1>. HIDE DEF c, e
<1>11. \E d \in docs' \ docs :
         /\ c.doc_no # Nil => d.doc_no = c.doc_no
         /\ c.page_no # Nil => d.page_no = c.page_no
         /\ \A f \in Dk!Entries(c.book) :
              /\ c.doc_no = Nil => f.doc_no < d.doc_no
              /\ c.page_no = Nil => f.page_no <= d.page_no
  BY <1>7, <1>8, <1>9
<1>12. Dk!File(c, r) BY <1>3, <1>5, <1>10, <1>11 DEF Dk!File
<1>. QED BY <1>2, <1>12 DEF c

LEMMA ServeStep ==
  ASSUME IInv, NEW r \in Request, Told(r), Numbered(r), Acts(r), Settle(r),
         pc'[r] = "refresh" \/ (pc'[r] = "done" /\ answer'[r] \in {201, 204, 500})
  PROVE  Dk!Serve(r)
<1>1. TypeOK /\ call' = call BY DEF IInv, Settle, Commit
<1>2. pc[r] \in Asking
  BY DEF Settle, CommitPc, Asking, Running, CreatePc, BookPc, FilePc
<1>3. Standing(r) = "asked" BY <1>2, StandingIs
<1>4. PICK s \in {"served", "success", "error"} : Standing(r)' = s
  BY StandingIsPrimed
<1>5. [q \in Request |-> Standing(q)]'
        = [[q \in Request |-> Standing(q)] EXCEPT ![r] = s]
  BY <1>1, <1>4, OneCallMoves
<1>6. \/ call[r].op = "create" /\ Dk!Create(call[r])
      \/ call[r].op = "close" /\ Dk!Close(call[r], r)
      \/ call[r].op = "delete" /\ Dk!Delete(call[r])
      \/ call[r].op = "file" /\ Dk!File(call[r], r)
  BY CommitEffect, CreateServes, CloseServes, DeleteServes, FileServes
<1>. QED BY <1>1, <1>3, <1>5, <1>6 DEF Dk!Serve

-----------------------------------------------------------------------------
(* A refusal is right.                                                     *)

\* Another book stands in the way of a new one.
LEMMA CreateImpossible ==
  ASSUME TypeOK, NEW r \in Request, pc[r] \in CreatePc,
         NEW b \in Book, Live(books, b), Conflicting(books[b], NewRow(r))
  PROVE  Dk!Impossible(call[r])
<1>1. call[r].op = "create" BY OpOfCall
<1>2. /\ NewRow(r).user = call[r].user /\ NewRow(r).number = call[r].number
      /\ NewRow(r).year = call[r].year /\ NewRow(r).status = call[r].status
  BY DEF NewRow
<1>3. Dk!Clashing(call[r])
  BY <1>2 DEF Conflicting, SameNumber, BothOpen, Live, Dk!Clashing
<1>. QED BY <1>1, <1>3 DEF Dk!Impossible

\* The numbers are refused for what the book is now.
LEMMA NumbersImpossible ==
  ASSUME NEW c, c.op = "file", NEW row, NumbersRefused(row, c.doc_no, c.page_no),
         row.status = "CLOSED" => books[c.book].status = "CLOSED"
  PROVE  Dk!Impossible(c)
<1>1. Dk!NoPlace(c) BY DEF NumbersRefused, Dk!NoPlace, Dk!Automatic, Page
<1>. QED BY <1>1 DEF Dk!Impossible

LEMMA NotMineImpossible ==
  ASSUME NEW c, c.op \in {"close", "delete", "file"}, ~Owned(books, c.user, c.book)
  PROVE  Dk!Impossible(c)
BY DEF Owned, Live, Dk!Impossible, Dk!Mine

\* The suggested page has a line left, or there is no page after it.
LEMMA SuggestedPage ==
  ASSUME NEW D \in SUBSET Document, NEW b \in Book
  PROVE  /\ ~PageFull(D, b, NextPageNo(D, b))
         /\ NoPagesLeft(D, b) => PageFull(D, b, MaxPages)
<1>1. CASE Latest(D, b) = {}
  <2>1. NextPageNo(D, b) = 1 BY <1>1 DEF NextPageNo
  <2>2. OnPage(D, b, 1) = {} BY <1>1 DEF OnPage
  <2>3. CountOnPage(D, b, 1) = 0 BY <2>2, FS_EmptySet DEF CountOnPage
  <2>. QED BY <2>1, <2>3, CapacityAssumption DEF PageFull, NoPagesLeft
<1>2. CASE Latest(D, b) # {} /\ ~PageFull(D, b, LastPageNo(D, b))
  <2>1. NextPageNo(D, b) = LastPageNo(D, b) BY <1>2 DEF NextPageNo
  <2>2. LastPageNo(D, b) \in Page BY <1>2, LastEntry
  <2>. QED BY <1>2, <2>1, <2>2, CapacityAssumption DEF NoPagesLeft, Page
<1>3. CASE Latest(D, b) # {} /\ PageFull(D, b, LastPageNo(D, b))
  <2>. DEFINE p == LastPageNo(D, b)
  <2>1. NextPageNo(D, b) = p + 1 BY <1>3 DEF NextPageNo
  <2>2. p \in Page /\ \A d \in Latest(D, b) : d.page_no <= p BY <1>3, LastEntry
  <2>3. \A d \in Latest(D, b) : d.page_no \in Page BY DEF Latest, Document
  <2>4. OnPage(D, b, p + 1) = {}
    <3>. HIDE DEF p
    <3>. QED BY <2>2, <2>3 DEF OnPage, Page
  <2>5. CountOnPage(D, b, p + 1) = 0 BY <2>4, FS_EmptySet DEF CountOnPage
  <2>6. ~PageFull(D, b, NextPageNo(D, b))
    BY <2>1, <2>5, CapacityAssumption DEF PageFull
  <2>7. NoPagesLeft(D, b) => p = MaxPages
    <3>. HIDE DEF p
    <3>. QED BY <2>1, <2>2, CapacityAssumption DEF NoPagesLeft, Page
  <2>. QED BY <1>3, <2>6, <2>7
<1>. QED BY <1>1, <1>2, <1>3

\* claim_entry refuses what it cannot number.
LEMMA ClaimImpossible ==
  ASSUME TypeOK, NEW r \in Request, pc[r] = "claim", NoEntryLeft(r) \/ EntryTaken(r)
  PROVE  Dk!Impossible(call[r])
<1>. DEFINE c == call[r]
            b == call[r].book
<1>1. c.op = "file" BY OpOfCall DEF FilePc
<1>2. b \in Book BY CallOnBook DEF FilePc
<1>3. docs \in SUBSET Document BY DEF TypeOK
<1>4. \A p : Dk!Full(b, p) <=> PageFull(docs, b, p)
  <2>1. Dk!Entries(b) = Latest(docs, b) BY DEF Dk!Entries, Latest
  <2>2. \A p : {d \in Dk!Entries(b) : d.page_no = p} = OnPage(docs, b, p)
    BY <2>1 DEF OnPage
  <2>. QED BY <2>2, DeskCardinality DEF Dk!Full, PageFull, CountOnPage
<1>5. CASE NoEntryLeft(r)
  <2>1. Dk!Automatic(c) BY <1>5 DEF NoEntryLeft, Dk!Automatic
  <2>2. Dk!Full(b, MaxPages) BY <1>2, <1>3, <1>4, <1>5, SuggestedPage DEF NoEntryLeft
  <2>3. Dk!NoPlace(c) BY <2>1, <2>2 DEF Dk!NoPlace
  <2>. QED BY <1>1, <2>3 DEF Dk!Impossible
<1>6. CASE IsDocNoTaken(docs, b, EntryDocNo(r))
  <2>1. c.doc_no # Nil
    <3>1. \A d \in Latest(docs, b) :
            d.doc_no \in Int /\ d.doc_no < NextDocNo(docs, b)
      BY <1>2, <1>3, NextEntry, CapacityAssumption DEF Latest, Document, DocNo
    <3>. QED BY <1>6, <3>1 DEF EntryDocNo, IsDocNoTaken
  <2>2. \E d \in Dk!Entries(b) : d.doc_no = c.doc_no
    BY <1>6, <2>1 DEF EntryDocNo, IsDocNoTaken, Dk!Entries, Latest
  <2>3. Dk!NoPlace(c) BY <2>1, <2>2 DEF Dk!NoPlace
  <2>. QED BY <1>1, <2>3 DEF Dk!Impossible
<1>7. CASE PageFull(docs, b, EntryPageNo(r))
  <2>1. c.page_no # Nil BY <1>2, <1>3, <1>7, SuggestedPage DEF EntryPageNo
  <2>2. Dk!Full(b, c.page_no) BY <1>4, <1>7, <2>1 DEF EntryPageNo
  <2>3. Dk!NoPlace(c) BY <2>1, <2>2 DEF Dk!NoPlace
  <2>. QED BY <1>1, <2>3 DEF Dk!Impossible
<1>. QED BY <1>5, <1>6, <1>7 DEF EntryTaken

-----------------------------------------------------------------------------
(* The handlers, statement by statement.                                   *)

Simulated == Dk!DeskNext \/ UNCHANGED Dk!deskVars

\* A statement that goes on to the next one of the same call.
LEMMA GoesOn ==
  ASSUME TypeOK, NEW r \in Request, Acts(r), pc[r] \in Asking, pc'[r] \in Asking,
         UNCHANGED <<books, docs, call>>
  PROVE  Simulated
<1>1. Standing(r)' = Standing(r) BY StandingIs, StandingIsPrimed
<1>. QED BY <1>1, MiddleStep DEF Simulated

LEMMA Refuses ==
  ASSUME TypeOK, NEW r \in Request, Acts(r), NEW s \in {400, 404, 409, 500},
         Refuse(r, s), pc[r] \in Asking, s # 500 => Dk!Impossible(call[r])
  PROVE  Simulated
BY RefuseStep DEF Simulated, Dk!DeskNext

LEMMA Serves ==
  ASSUME IInv, NEW r \in Request, Told(r), Numbered(r), Acts(r), Settle(r),
         pc'[r] = "refresh" \/ (pc'[r] = "done" /\ answer'[r] \in {201, 204, 500})
  PROVE  Simulated
BY ServeStep DEF Simulated, Dk!DeskNext

\* Where statements are and go.
LEMMA AskingPc ==
  /\ CreatePc \subseteq Asking /\ FilePc \subseteq Asking
  /\ BookPc \ {"refresh"} \subseteq Asking
  /\ "refresh" \notin Asking
BY DEF Asking, Running, CreatePc, BookPc, FilePc

LEMMA CreateSimulated ==
  ASSUME IInv, NEW r \in Request, FindByNumber(r) \/ FindOpen(r) \/ InsertBook(r)
  PROVE  Simulated
<1>1. /\ TypeOK /\ pc[r] \in CreatePc /\ pc[r] \in Asking
      /\ Acts(r)
  BY AskingPc DEF IInv, FindByNumber, FindOpen, InsertBook, CreatePc, Acts,
                  OtherStep, LockStep
<1>2. ASSUME NEW b \in Book, Live(books, b), Conflicting(books[b], NewRow(r)),
             Refuse(r, 400)
      PROVE  Simulated
  BY <1>1, <1>2, CreateImpossible, Refuses
<1>3. ASSUME pc'[r] \in CreatePc, UNCHANGED <<books, docs, call>> PROVE Simulated
  BY <1>1, <1>3, AskingPc, GoesOn
<1>4. CASE FindByNumber(r)
  BY <1>1, <1>2, <1>3, <1>4
  DEF FindByNumber, Conflicting, Goto, ReadOnly, TypeOK, CreatePc
<1>5. CASE FindOpen(r)
  BY <1>1, <1>2, <1>3, <1>5
  DEF FindOpen, Conflicting, Goto, ReadOnly, TypeOK, CreatePc
<1>6. CASE InsertBook(r)
  BY <1>1, <1>2, <1>3, <1>6 DEF InsertBook, Goto, TypeOK, CreatePc
<1>. QED BY <1>4, <1>5, <1>6

LEMMA CloseSimulated ==
  ASSUME IInv, NEW r \in Request, Told(r), GetForClose(r) \/ UpdateStatus(r)
  PROVE  Simulated
<1>1. /\ TypeOK /\ pc[r] \in {"get_close", "update"} /\ pc[r] \in Asking
      /\ Acts(r) /\ call[r].op = "close"
  BY AskingPc DEF IInv, GetForClose, UpdateStatus, BookPc, Acts, OtherStep, LockStep, Told
<1>2. CASE Refuse(r, 500) BY <1>1, <1>2, Refuses
<1>3. ASSUME NEW s \in {404, 409}, Refuse(r, s), Dk!Impossible(call[r]) PROVE Simulated
  BY <1>1, <1>3, Refuses
<1>4. ASSUME pc'[r] \in {"update", "commit_close"}, UNCHANGED <<books, docs, call>>
      PROVE  Simulated
  BY <1>1, <1>4, AskingPc, GoesOn DEF BookPc
<1>5. CASE GetForClose(r)
  <2>1. ASSUME books[call[r].book].status = "CLOSED" PROVE Dk!Impossible(call[r])
    BY <1>1, <2>1 DEF Dk!Impossible
  <2>. QED BY <1>1, <1>3, <1>4, <1>5, <2>1, NotMineImpossible
           DEF GetForClose, Goto, ReadOnly, TypeOK
<1>6. CASE UpdateStatus(r)
  BY <1>1, <1>2, <1>4, <1>6 DEF UpdateStatus, Flush, Goto, TypeOK
<1>. QED BY <1>5, <1>6

LEMMA DeleteSimulated ==
  ASSUME IInv, NEW r \in Request, Told(r),
         GetForDelete(r) \/ CheckDocuments(r) \/ DeleteRow(r)
  PROVE  Simulated
<1>1. /\ TypeOK /\ pc[r] \in {"get_delete", "has_documents", "delete"}
      /\ pc[r] \in Asking /\ Acts(r) /\ call[r].op = "delete"
  BY AskingPc DEF IInv, GetForDelete, CheckDocuments, DeleteRow, BookPc, Acts,
                  OtherStep, LockStep, Told
<1>2. CASE Refuse(r, 500) BY <1>1, <1>2, Refuses
<1>3. ASSUME NEW s \in {404, 409}, Refuse(r, s), Dk!Impossible(call[r]) PROVE Simulated
  BY <1>1, <1>3, Refuses
<1>4. ASSUME pc'[r] \in {"has_documents", "delete", "commit_delete"},
             UNCHANGED <<books, docs, call>>
      PROVE  Simulated
  BY <1>1, <1>4, AskingPc, GoesOn DEF BookPc
<1>5. CASE GetForDelete(r)
  BY <1>1, <1>3, <1>4, <1>5, NotMineImpossible DEF GetForDelete, Goto, ReadOnly, TypeOK
<1>6. CASE CheckDocuments(r)
  <2>1. ASSUME HasDocuments(docs, call[r].book) PROVE Dk!Impossible(call[r])
    BY <1>1, <2>1 DEF HasDocuments, InBook, Dk!Impossible
  <2>2. CASE ~DocumentsFeature
    BY <1>2, <1>6, <2>2 DEF CheckDocuments
  <2>3. CASE DocumentsFeature
    BY <1>1, <1>3, <1>4, <1>6, <2>1, <2>3 DEF CheckDocuments, Goto, ReadOnly, TypeOK
  <2>. QED BY <2>2, <2>3
<1>7. CASE DeleteRow(r)
  BY <1>1, <1>2, <1>4, <1>7 DEF DeleteRow, Flush, Goto, ReadOnly, TypeOK
<1>. QED BY <1>5, <1>6, <1>7

LEMMA FileSimulated ==
  ASSUME IInv, NEW r \in Request,
         CheckFiling(r) \/ LockBook(r) \/ ClaimEntry(r) \/ AbandonFile(r)
  PROVE  Simulated
<1>1. /\ TypeOK /\ pc[r] \in FilePc /\ pc[r] \in Asking
      /\ Acts(r) /\ call[r].op = "file" /\ RequestInv(r)
  BY AskingPc, OpOfCall DEF IInv, CheckFiling, LockBook, ClaimEntry, AbandonFile, FilePc,
                            Acts, OtherStep, LockStep
<1>2. CASE Refuse(r, 500) BY <1>1, <1>2, Refuses
<1>3. ASSUME NEW s \in {400, 404, 409}, Refuse(r, s), Dk!Impossible(call[r])
      PROVE  Simulated
  BY <1>1, <1>3, Refuses
<1>4. ASSUME pc'[r] \in FilePc, UNCHANGED <<books, docs, call>> PROVE Simulated
  BY <1>1, <1>4, AskingPc, GoesOn
<1>5. CASE CheckFiling(r)
  BY <1>1, <1>3, <1>4, <1>5, NotMineImpossible, NumbersImpossible
  DEF CheckFiling, Goto, TypeOK, FilePc
<1>6. CASE LockBook(r)
  <2>1. pc[r] = "lock" BY <1>6 DEF LockBook
  <2>2. ASSUME Live(books, call[r].book), Loaded(r).status = "CLOSED"
        PROVE  books[call[r].book].status = "CLOSED"
    BY <1>1, <2>1, <2>2 DEF Loaded, RequestInv, ViewInv
  <2>3. CASE Refuse(r, 404) /\ ~Owned(books, call[r].user, call[r].book)
    BY <1>1, <1>3, <2>3, NotMineImpossible
  <2>4. CASE /\ Owned(books, call[r].user, call[r].book) /\ Refuse(r, 400)
             /\ NumbersRefused(Loaded(r), call[r].doc_no, call[r].page_no)
    BY <1>1, <1>3, <2>2, <2>4, NumbersImpossible DEF Owned
  <2>5. CASE Goto(r, "claim") /\ UNCHANGED <<books, docs, call>>
    BY <1>1, <1>4, <2>5 DEF Goto, TypeOK, FilePc
  <2>. QED BY <1>6, <2>3, <2>4, <2>5 DEF LockBook
<1>7. CASE ClaimEntry(r)
  <2>1. pc[r] = "claim" BY <1>7 DEF ClaimEntry
  <2>2. CASE Goto(r, "commit_file") /\ UNCHANGED <<books, docs, call>>
    BY <1>1, <1>4, <2>2 DEF Goto, TypeOK, FilePc
  <2>3. CASE /\ ~DocumentsFeature \/ NoEntryLeft(r) \/ DocNoTooLarge(r) \/ EntryTaken(r)
             /\ Refuse(r, ClaimStatus(r))
    <3>1. ClaimStatus(r) \in {400, 409, 500} BY DEF ClaimStatus
    <3>2. ClaimStatus(r) # 500 => NoEntryLeft(r) \/ EntryTaken(r)
      BY <2>3 DEF ClaimStatus
    <3>3. ClaimStatus(r) # 500 => Dk!Impossible(call[r])
      BY <1>1, <2>1, <3>2, ClaimImpossible
    <3>. QED BY <1>2, <1>3, <2>3, <3>1, <3>3
  <2>. QED BY <1>7, <2>2, <2>3 DEF ClaimEntry
<1>8. CASE AbandonFile(r) BY <1>2, <1>8 DEF AbandonFile
<1>. QED BY <1>5, <1>6, <1>7, <1>8

LEMMA CommitSimulated ==
  ASSUME IInv, NEW r \in Request, Told(r), Numbered(r),
         \/ CommitCreate(r) \/ CommitClose(r) \/ CommitDelete(r) \/ CommitFile(r)
         \/ CommitAnswerLost(r)
  PROVE  Simulated
<1>1. /\ TypeOK /\ Acts(r) /\ pc[r] \in CommitPc
      /\ Commit(r)
  BY DEF IInv, Acts, OtherStep, CommitCreate, CommitClose, CommitDelete, CommitFile,
         CommitAnswerLost, CommitPc
<1>2. CASE CommitClose(r)
  <2>1. pc[r] = "commit_close" /\ Goto(r, "refresh") BY <1>2 DEF CommitClose
  <2>2. pc'[r] = "refresh" BY <1>1, <2>1 DEF Goto, TypeOK
  <2>. QED BY <1>1, <2>1, <2>2, Serves DEF Settle
<1>3. CASE ~CommitClose(r)
  <2>1. PICK s \in {201, 204, 500} : Answer(r, s)
    BY <1>3 DEF CommitCreate, CommitDelete, CommitFile, CommitAnswerLost
  <2>2. pc'[r] = "done" /\ answer'[r] = s BY <1>1, <2>1 DEF Answer, TypeOK
  <2>3. Settle(r) BY <1>1, <2>1 DEF Settle, Status
  <2>. QED BY <1>1, <2>2, <2>3, Serves
<1>. QED BY <1>2, <1>3

LEMMA FaultSimulated ==
  ASSUME IInv, NEW r \in Request, RefreshClosed(r) \/ StatementFails(r)
  PROVE  Simulated
<1>1. TypeOK /\ Acts(r) BY DEF IInv, Acts, OtherStep
<1>2. CASE pc[r] = "refresh"
  <2>1. RefreshClosed(r) \/ Refuse(r, 500) BY DEF StatementFails
  <2>2. Dk!Report(r) BY <1>1, <1>2, <2>1, ReportStep
  <2>. QED BY <2>2 DEF Simulated, Dk!DeskNext
<1>3. CASE pc[r] # "refresh"
  <2>1. Refuse(r, 500) /\ pc[r] \in Asking
    BY <1>3 DEF StatementFails, RefreshClosed, Asking
  <2>. QED BY <1>1, <2>1, Refuses
<1>. QED BY <1>2, <1>3

LEMMA CrashSimulated ==
  ASSUME Crash
  PROVE  Simulated
<1>1. \A r \in Request : pc'[r] = "idle" BY DEF Crash
<1>2. \A r \in Request : Standing(r)' = "free" BY <1>1, StandingIsPrimed
<1>3. [r \in Request |-> Standing(r)]' = [r \in Request |-> "free"] BY <1>2
<1>4. Dk!Crash BY <1>3 DEF Crash, Dk!Crash
<1>. QED BY <1>4 DEF Simulated, Dk!DeskNext

\* What leaves the calls and the answers alone leaves all of them where they are.
LEMMA NobodyMoves ==
  ASSUME UNCHANGED <<pc, answer>>
  PROVE  [r \in Request |-> Standing(r)]' = [r \in Request |-> Standing(r)]
BY DEF Standing

LEMMA DeskStep == IInv /\ AllTold /\ AllNumbered /\ [Next]_vars => [Dk!DeskNext]_Dk!deskVars
<1>. SUFFICES ASSUME IInv, AllTold, AllNumbered, [Next]_vars PROVE Simulated
  BY DEF Simulated
<1>1. ASSUME NEW r \in Request, Acts(r) PROVE Simulated
  <2>1. TypeOK /\ Told(r) /\ Numbered(r) BY DEF IInv, AllTold, AllNumbered
  <2>2. CASE Begin(r) BY <2>1, <2>2, AskStep DEF Simulated, Dk!DeskNext
  <2>3. CASE Finish(r) BY <2>1, <2>3, LeaveStep DEF Simulated, Dk!DeskNext
  <2>4. CASE LockStep(r)
    BY <2>1, <2>4, CreateSimulated, CloseSimulated, DeleteSimulated, FileSimulated
    DEF LockStep
  <2>5. CASE OtherStep(r)
    BY <2>1, <2>5, CreateSimulated, CloseSimulated, DeleteSimulated, FileSimulated,
       CommitSimulated, FaultSimulated
    DEF OtherStep
  <2>6. CASE AbandonFile(r) BY <2>6, FileSimulated
  <2>7. CASE StatementFails(r) BY <2>7, FaultSimulated
  <2>8. CASE CommitAnswerLost(r) BY <2>1, <2>8, CommitSimulated
  <2>. QED BY <1>1, <2>2, <2>3, <2>4, <2>5, <2>6, <2>7, <2>8 DEF Acts
<1>2. ASSUME NEW d \in docs, Supersede(d) PROVE Simulated
  <2>1. Rg!Supersede(d) BY <1>2 DEF Supersede, Rg!Supersede, Superseded
  <2>2. UNCHANGED <<pc, answer, call>> BY <1>2 DEF Supersede
  <2>. QED BY <2>1, <2>2, SameRegister, NobodyMoves DEF Simulated, Dk!DeskNext
<1>3. CASE Crash BY <1>3, CrashSimulated
<1>4. CASE UNCHANGED vars BY <1>4, NobodyMoves DEF vars, Simulated, Dk!deskVars
<1>. QED BY <1>1, <1>2, <1>3, <1>4 DEF Next, Acts

LEMMA DeskStarts == Init => Dk!DeskInit
<1>. SUFFICES ASSUME Init PROVE Dk!DeskInit OBVIOUS
<1>1. \A r \in Request : Standing(r) = "free" BY StandingIs DEF Init
<1>. QED BY <1>1 DEF Init, Dk!DeskInit, Dk!Init

\* To its clients the books feature is a desk that serves or refuses each call
\* in one moment: the statements of concurrent creates, closes, deletes and
\* filings in between, broken connections and crashes included, cannot be told
\* from the outside (books/service.py:41-190, main.py:41).
THEOREM BooksImplementDesk == Spec => ImplementsDesk
<1>. DEFINE Inv == IInv /\ AllTold /\ AllNumbered
<1>1. Spec => []Inv BY ToldInvariant, NumberedInvariant, PTL
<1>2. Inv /\ [Next]_vars => [Dk!DeskNext]_Dk!deskVars BY DeskStep
<1>3. Init => Dk!DeskInit BY DeskStarts
<1>. QED BY <1>1, <1>2, <1>3, PTL DEF Spec, ImplementsDesk, Dk!DeskSpec
=============================================================================
