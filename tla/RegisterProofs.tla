---------------------------- MODULE RegisterProofs ----------------------------
(***************************************************************************)
(* The abstract specifications keep what they promise: the register is     *)
(* sound whoever uses it, and the desk, which serves it to clients, is a   *)
(* register.  With BooksImplementDesk this derives the soundness of the    *)
(* committed tables from the abstract specification alone, and shows that  *)
(* nothing in it is left to the implementation to get right.               *)
(***************************************************************************)
EXTENDS Desk, TLAPS, FiniteSetTheorems

RegisterRow == [user: User, number: Number, year: Year,
                status: {"OPEN", "CLOSED"}, closed_at: Request \cup {Nil}]

RegisterEntry == [book: Book, doc_no: 1 .. MaxDocNo, page_no: 1 .. MaxPages,
                  latest: BOOLEAN, by: Request]

\* What the constants of BookRules are assumed to be, as far as it is needed.
ProperConstants ==
  /\ MaxPages \in Nat \ {0} /\ MaxEntriesPerPage \in Nat \ {0}
  /\ Nil \notin RegisterRow

OnPage(b, p) == {d \in Entries(b) : d.page_no = p}

Typed ==
  /\ books \in [Book -> RegisterRow \cup {Nil}]
  /\ docs \subseteq RegisterEntry /\ IsFiniteSet(docs)

BooksApart ==
  \A b, c \in Book :
    /\ b # c /\ books[b] # Nil /\ books[c] # Nil
    /\ books[b].user = books[c].user /\ books[b].year = books[c].year
    => /\ books[b].number # books[c].number
       /\ ~(books[b].status = "OPEN" /\ books[c].status = "OPEN")

EntriesApart ==
  \A b \in Book : \A d, e \in Entries(b) : d # e => d.doc_no # e.doc_no

PagesHold ==
  \A b \in Book : \A p \in 1 .. MaxPages : Cardinality(OnPage(b, p)) <= MaxEntriesPerPage

FullIsClosed ==
  \A b \in Book :
    books[b] # Nil /\ Cardinality(OnPage(b, MaxPages)) >= MaxEntriesPerPage =>
      books[b].status = "CLOSED"

\* What makes a register sound.
Sound == BooksApart /\ EntriesApart /\ PagesHold /\ FullIsClosed

-----------------------------------------------------------------------------
(* The operations, one by one.                                             *)

LEMMA PageCount ==
  ASSUME Typed, NEW b, NEW p
  PROVE  IsFiniteSet(OnPage(b, p)) /\ Cardinality(OnPage(b, p)) \in Nat
<1>1. OnPage(b, p) \in SUBSET docs BY DEF OnPage, Entries
<1>. QED BY <1>1, FS_Subset, FS_CardinalityType DEF Typed

\* An operation that leaves the documents alone leaves every page as it is.
LEMMA PagesStay ==
  ASSUME docs' = docs
  PROVE  /\ \A b : Entries(b)' = Entries(b)
         /\ \A b, p : OnPage(b, p)' = OnPage(b, p)
         /\ \A b, p : Cardinality(OnPage(b, p))' = Cardinality(OnPage(b, p))
         /\ EntriesApart => EntriesApart'
         /\ PagesHold => PagesHold'
BY DEF Entries, OnPage, EntriesApart, PagesHold

LEMMA AddSound ==
  ASSUME ProperConstants, Typed, Sound, NEW b \in Book, AddBook(b)
  PROVE  (Typed /\ Sound)'
<1>1. PICK user \in User, number \in Number, year \in Year,
           status \in {"OPEN", "CLOSED"}, stamp \in Request \cup {Nil} :
        /\ \A c \in Book : books[c] # Nil /\ books[c].user = user
                               /\ books[c].year = year =>
             /\ books[c].number # number
             /\ ~(books[c].status = "OPEN" /\ status = "OPEN")
        /\ books' = [books EXCEPT ![b] =
             [user |-> user, number |-> number, year |-> year,
              status |-> status, closed_at |-> stamp]]
  BY DEF AddBook
<1>. DEFINE row == [user |-> user, number |-> number, year |-> year,
                    status |-> status, closed_at |-> stamp]
<1>0. /\ row \in RegisterRow /\ books' = [books EXCEPT ![b] = row]
      /\ row.user = user /\ row.number = number /\ row.year = year
      /\ row.status = status
  BY <1>1 DEF RegisterRow
<1>. HIDE DEF row
<1>2. docs' = docs /\ \A d \in docs : d.book # b BY DEF AddBook
<1>3. books' \in [Book -> RegisterRow \cup {Nil}] /\ books'[b] = row
      /\ \A c \in Book : c # b => books'[c] = books[c]
  BY <1>0 DEF Typed
<1>4. Typed' BY <1>2, <1>3 DEF Typed
<1>5. BooksApart' BY <1>0, <1>1, <1>3 DEF Sound, BooksApart
<1>6. EntriesApart' /\ PagesHold' BY <1>2, PagesStay DEF Sound
<1>7. OnPage(b, MaxPages) = {} BY <1>2 DEF OnPage, Entries
<1>8. Cardinality(OnPage(b, MaxPages))' = 0 BY <1>2, <1>7, PagesStay, FS_EmptySet
<1>9. FullIsClosed'
  BY <1>2, <1>3, <1>8, PagesStay DEF Sound, FullIsClosed, ProperConstants
<1>. QED BY <1>4, <1>5, <1>6, <1>9 DEF Sound

\* A closed row is in nobody's way that the open one was not in.
LEMMA CloseSound ==
  ASSUME ProperConstants, Typed, Sound, NEW b \in Book, NEW r \in Request, books[b] # Nil,
         books' = [books EXCEPT ![b] = Closed(books[b], r)]
  PROVE  /\ books' \in [Book -> RegisterRow \cup {Nil}]
         /\ BooksApart'
         /\ books'[b].status = "CLOSED"
         /\ \A c \in Book : books'[c] = Nil <=> books[c] = Nil
         /\ \A c \in Book : c # b => books'[c] = books[c]
<1>. DEFINE row == Closed(books[b], r)
<1>1. books[b] \in RegisterRow BY DEF Typed
<1>2. /\ row \in RegisterRow /\ row.status = "CLOSED" /\ row.user = books[b].user
      /\ row.year = books[b].year /\ row.number = books[b].number
  BY <1>1 DEF Closed, RegisterRow
<1>3. row # Nil BY <1>2 DEF ProperConstants
<1>. HIDE DEF row
<1>4. books' = [books EXCEPT ![b] = row] BY DEF row
<1>5. books'[b] = row /\ \A c \in Book : c # b => books'[c] = books[c]
  BY <1>4 DEF Typed
<1>6. BooksApart' BY <1>2, <1>3, <1>5 DEF Sound, BooksApart
<1>. QED BY <1>2, <1>3, <1>4, <1>5, <1>6 DEF Typed

LEMMA RemoveSound ==
  ASSUME ProperConstants, Typed, Sound, NEW b \in Book, RemoveBook(b)
  PROVE  (Typed /\ Sound)'
<1>1. docs' = docs /\ books' = [books EXCEPT ![b] = Nil] BY DEF RemoveBook
<1>2. books' \in [Book -> RegisterRow \cup {Nil}] /\ books'[b] = Nil
      /\ \A c \in Book : c # b => books'[c] = books[c]
  BY <1>1 DEF Typed
<1>3. Typed' BY <1>1, <1>2 DEF Typed
<1>4. BooksApart' BY <1>2 DEF Sound, BooksApart
<1>5. EntriesApart' /\ PagesHold' BY <1>1, PagesStay DEF Sound
<1>6. FullIsClosed' BY <1>1, <1>2, PagesStay DEF Sound, FullIsClosed
<1>. QED BY <1>3, <1>4, <1>5, <1>6 DEF Sound

LEMMA FileSound ==
  ASSUME ProperConstants, Typed, Sound, NEW b \in Book, NEW r \in Request, FileDocument(b, r)
  PROVE  (Typed /\ Sound)'
<1>1. PICK n \in 1 .. MaxDocNo, p \in 1 .. MaxPages :
        /\ \A d \in Entries(b) : d.doc_no # n
        /\ Cardinality(OnPage(b, p)) < MaxEntriesPerPage
        /\ docs' = docs \cup {[book |-> b, doc_no |-> n, page_no |-> p,
                               latest |-> TRUE, by |-> r]}
        /\ \/ books' = [books EXCEPT ![b] = Closed(books[b], r)]
           \/ /\ \/ books[b].status = "CLOSED"
                 \/ p # MaxPages
                 \/ Cardinality(OnPage(b, p)) + 1 < MaxEntriesPerPage
              /\ UNCHANGED books
  BY DEF FileDocument, OnPage
<1>. DEFINE e == [book |-> b, doc_no |-> n, page_no |-> p, latest |-> TRUE, by |-> r]
<1>2. /\ docs' = docs \cup {e} /\ e.book = b /\ e.doc_no = n /\ e.page_no = p /\ e.latest
      /\ e \in RegisterEntry
  BY <1>1 DEF RegisterEntry
<1>. HIDE DEF e
<1>3. Entries(b)' = Entries(b) \cup {e} /\ \A c \in Book : c # b => Entries(c)' = Entries(c)
  BY <1>2 DEF Entries
<1>4. EntriesApart' BY <1>1, <1>2, <1>3 DEF Sound, EntriesApart
<1>5. /\ OnPage(b, p)' = OnPage(b, p) \cup {e}
      /\ \A c \in Book : \A q : c # b \/ q # p => OnPage(c, q)' = OnPage(c, q)
  BY <1>2, <1>3 DEF OnPage
<1>6. e \notin OnPage(b, p) BY <1>1, <1>2 DEF OnPage
<1>7. Cardinality(OnPage(b, p))' = Cardinality(OnPage(b, p)) + 1
  BY <1>5, <1>6, PageCount, FS_AddElement
<1>8. Cardinality(OnPage(b, p)) \in Nat BY PageCount
<1>9. PagesHold'
  <2>1. SUFFICES ASSUME NEW c \in Book, NEW q \in 1 .. MaxPages
                 PROVE  Cardinality(OnPage(c, q)') <= MaxEntriesPerPage
    BY DEF PagesHold
  <2>2. CASE c = b /\ q = p BY <1>1, <1>7, <1>8, <2>2 DEF ProperConstants
  <2>3. CASE c # b \/ q # p BY <1>5, <2>3 DEF Sound, PagesHold
  <2>. QED BY <2>2, <2>3
<1>10. IsFiniteSet(docs') BY <1>2, FS_AddElement DEF Typed
<1>11. books[b] # Nil BY DEF FileDocument
<1>12. CASE books' = [books EXCEPT ![b] = Closed(books[b], r)]
  <2>1. /\ books' \in [Book -> RegisterRow \cup {Nil}] /\ BooksApart'
        /\ books'[b].status = "CLOSED"
        /\ \A c \in Book : c # b => books'[c] = books[c]
    BY <1>11, <1>12, CloseSound
  <2>2. FullIsClosed' BY <1>5, <2>1 DEF Sound, FullIsClosed
  <2>3. Typed' BY <1>2, <1>10, <2>1 DEF Typed
  <2>. QED BY <1>4, <1>9, <2>1, <2>2, <2>3 DEF Sound
<1>13. CASE UNCHANGED books /\ (\/ books[b].status = "CLOSED"
                                \/ p # MaxPages
                                \/ Cardinality(OnPage(b, p)) + 1 < MaxEntriesPerPage)
  <2>1. BooksApart' BY <1>13 DEF Sound, BooksApart
  <2>2. FullIsClosed'
    BY <1>5, <1>7, <1>8, <1>13 DEF Sound, FullIsClosed, ProperConstants
  <2>3. Typed' BY <1>2, <1>10, <1>13 DEF Typed
  <2>. QED BY <1>4, <1>9, <2>1, <2>2, <2>3 DEF Sound
<1>. QED BY <1>1, <1>12, <1>13

\* A version that is no longer current gives its number and its line back.
LEMMA SupersedeSound ==
  ASSUME ProperConstants, Typed, Sound, NEW d \in docs, Supersede(d)
  PROVE  (Typed /\ Sound)'
<1>. DEFINE old == [d EXCEPT !.latest = FALSE]
<1>1. /\ books' = books /\ docs' = (docs \ {d}) \cup {old}
  BY DEF Supersede
<1>2. ~old.latest /\ old \in RegisterEntry BY DEF Typed, RegisterEntry
<1>. HIDE DEF old
<1>3. \A b : Entries(b)' \subseteq Entries(b) BY <1>1, <1>2 DEF Entries
<1>4. \A b, p : OnPage(b, p)' \in SUBSET OnPage(b, p) BY <1>3 DEF OnPage
<1>5. \A b, p : /\ Cardinality(OnPage(b, p)) \in Nat
                /\ Cardinality(OnPage(b, p))' \in Nat
                /\ Cardinality(OnPage(b, p))' <= Cardinality(OnPage(b, p))
  BY <1>4, PageCount, FS_Subset, FS_CardinalityType
<1>6. IsFiniteSet(docs') BY <1>1, FS_AddElement, FS_RemoveElement DEF Typed
<1>7. Typed' BY <1>1, <1>2, <1>6 DEF Typed
<1>8. BooksApart' BY <1>1 DEF Sound, BooksApart
<1>9. EntriesApart' BY <1>3 DEF Sound, EntriesApart
<1>10. PagesHold' BY <1>5 DEF Sound, PagesHold, ProperConstants
<1>11. FullIsClosed' BY <1>1, <1>5 DEF Sound, FullIsClosed, ProperConstants
<1>. QED BY <1>7, <1>8, <1>9, <1>10, <1>11 DEF Sound

-----------------------------------------------------------------------------
(* The register.                                                           *)

LEMMA SoundNext ==
  ASSUME ProperConstants, Typed, Sound, [Next]_vars
  PROVE  (Typed /\ Sound)'
<1>1. ASSUME NEW b \in Book, NEW r \in Request, CloseBook(b, r) PROVE (Typed /\ Sound)'
  <2>1. /\ docs' = docs /\ books[b] # Nil
        /\ books' = [books EXCEPT ![b] = Closed(books[b], r)]
    BY <1>1 DEF CloseBook
  <2>2. Typed' /\ BooksApart' BY <2>1, CloseSound DEF Typed
  <2>3. EntriesApart' /\ PagesHold' BY <2>1, PagesStay DEF Sound
  <2>4. /\ books'[b].status = "CLOSED"
        /\ \A c \in Book : c # b => books'[c] = books[c]
    BY <2>1, CloseSound
  <2>5. FullIsClosed' BY <2>1, <2>4, PagesStay DEF Sound, FullIsClosed
  <2>. QED BY <2>2, <2>3, <2>5 DEF Sound
<1>2. CASE UNCHANGED vars
  BY <1>2, PagesStay DEF vars, Typed, Sound, BooksApart, FullIsClosed
<1>. QED
  BY <1>1, <1>2, AddSound, RemoveSound, FileSound, SupersedeSound DEF Next

LEMMA RegisterInvariant ==
  ASSUME ProperConstants
  PROVE  Spec => [](Typed /\ Sound)
<1>1. Init => Typed /\ Sound
  <2>1. Init => \A b : Entries(b) = {} BY DEF Init, Entries
  <2>2. Init => \A b, p : Cardinality(OnPage(b, p)) = 0
    BY <2>1, FS_EmptySet DEF OnPage
  <2>. QED
    BY <2>1, <2>2, FS_EmptySet
    DEF Init, Typed, Sound, BooksApart, EntriesApart, PagesHold, FullIsClosed,
        ProperConstants
<1>2. Typed /\ Sound /\ [Next]_vars => (Typed /\ Sound)' BY SoundNext
<1>. QED BY <1>1, <1>2, PTL DEF Spec

\* A register that is used through its operations only is sound for ever: its
\* books have numbers of their own and at most one is open per year, its entries
\* have numbers of their own, no page is overfilled and a full book is closed.
THEOREM RegisterIsSound ==
  ASSUME ProperConstants
  PROVE  Spec => []Sound
BY RegisterInvariant, PTL

-----------------------------------------------------------------------------
(* The desk.                                                               *)

CallsNameBooks ==
  \A c \in Asked : c.op \in {"close", "delete", "file"} => c.book \in Book

\* A call that waits to be served is one that was asked.
Queue ==
  /\ call \in [Request -> Asked \cup {Nil}]
  /\ desk \in [Request -> {"free", "asked", "served", "success", "refused", "error"}]
  /\ \A r \in Request : desk[r] = "asked" => call[r] \in Asked

LEMMA QueueNext ==
  ASSUME Queue, [DeskNext]_deskVars
  PROVE  Queue'
<1>. USE DEF Queue
<1>1. ASSUME NEW r \in Request, Ask(r) PROVE Queue' BY <1>1 DEF Ask
<1>2. ASSUME NEW r \in Request, Serve(r) PROVE Queue' BY <1>2 DEF Serve
<1>3. ASSUME NEW r \in Request, Refuse(r) PROVE Queue' BY <1>3 DEF Refuse
<1>4. ASSUME NEW r \in Request, Report(r) PROVE Queue' BY <1>4 DEF Report
<1>5. ASSUME NEW r \in Request, Leave(r) PROVE Queue' BY <1>5 DEF Leave
<1>6. CASE Crash BY <1>6 DEF Crash
<1>7. CASE UNCHANGED <<call, desk>> BY <1>7
<1>. QED BY <1>1, <1>2, <1>3, <1>4, <1>5, <1>6, <1>7 DEF DeskNext, deskVars

\* Serving a call is one operation of the register, or none.
LEMMA ServingIsOneOperation ==
  ASSUME CallsNameBooks, Queue, NEW r \in Request, Serve(r)
  PROVE  [Next]_vars
<1>1. call[r] \in Asked BY DEF Serve, Queue
<1>2. CASE Create(call[r]) BY <1>2 DEF Create, Next
<1>3. CASE call[r].op = "close" /\ Close(call[r], r)
  BY <1>1, <1>3 DEF CallsNameBooks, Close, Next
<1>4. CASE call[r].op = "delete" /\ Delete(call[r])
  BY <1>1, <1>4 DEF CallsNameBooks, Delete, Next, vars
<1>5. CASE call[r].op = "file" /\ File(call[r], r)
  BY <1>1, <1>5 DEF CallsNameBooks, File, Next
<1>. QED BY <1>2, <1>3, <1>4, <1>5 DEF Serve

LEMMA DeskStepsAreRegisterSteps ==
  ASSUME CallsNameBooks, Queue, [DeskNext]_deskVars
  PROVE  [Next]_vars
<1>1. ASSUME NEW r \in Request, Ask(r) \/ Refuse(r) \/ Report(r) \/ Leave(r)
      PROVE  UNCHANGED vars
  BY <1>1 DEF Ask, Refuse, Report, Leave, vars
<1>2. CASE Crash \/ UNCHANGED deskVars BY <1>2 DEF Crash, deskVars, vars
<1>. QED BY <1>1, <1>2, ServingIsOneOperation DEF DeskNext, Next

\* Whatever is asked at the desk, in whatever order calls are served, refused and
\* lost, the register behind it is used through its operations only.
THEOREM DeskIsRegister ==
  ASSUME CallsNameBooks
  PROVE  DeskSpec => Spec
<1>1. DeskInit => Init /\ Queue BY DEF DeskInit, Queue
<1>2. Queue /\ [DeskNext]_deskVars => Queue' BY QueueNext
<1>3. Queue /\ [DeskNext]_deskVars => [Next]_vars BY DeskStepsAreRegisterSteps
<1>. QED BY <1>1, <1>2, <1>3, PTL DEF DeskSpec, Spec

\* So what clients are served from is sound.
THEOREM DeskIsSound ==
  ASSUME ProperConstants, CallsNameBooks
  PROVE  DeskSpec => []Sound
BY RegisterIsSound, DeskIsRegister, PTL

\* Closing a book is one-way at the register, whoever closes, files or supersedes
\* (books/router.py:95).
ClosingIsFinal ==
  [][\A b \in Book :
       books[b] # Nil /\ books[b].status = "CLOSED" /\ books'[b] # Nil =>
         books'[b].status = "CLOSED"]_vars

\* No operation opens a book: what is closed stays closed until it is removed.
THEOREM RegisterClosesForGood ==
  ASSUME ProperConstants
  PROVE  Spec => ClosingIsFinal
<1>1. ASSUME Typed, Sound, [Next]_vars, NEW b \in Book,
             books[b] # Nil, books[b].status = "CLOSED", books'[b] # Nil
      PROVE  books'[b].status = "CLOSED"
  <2>1. ASSUME NEW c \in Book, NEW r \in Request, books[c] # Nil,
               books' = [books EXCEPT ![c] = Closed(books[c], r)]
        PROVE  books'[b].status = "CLOSED"
    BY <1>1, <2>1, CloseSound
  <2>2. ASSUME NEW c \in Book, AddBook(c) \/ RemoveBook(c)
        PROVE  books'[b].status = "CLOSED"
    BY <1>1, <2>2 DEF AddBook, RemoveBook, Typed
  <2>3. ASSUME NEW c \in Book, NEW r \in Request, CloseBook(c, r) \/ FileDocument(c, r)
        PROVE  books'[b].status = "CLOSED"
    BY <1>1, <2>1, <2>3 DEF CloseBook, FileDocument
  <2>. QED BY <1>1, <2>2, <2>3 DEF Next, Supersede, vars
<1>2. Spec => [](Typed /\ Sound) BY RegisterInvariant
<1>3. Typed /\ Sound /\ [Next]_vars =>
        [\A b \in Book : books[b] # Nil /\ books[b].status = "CLOSED" /\ books'[b] # Nil =>
           books'[b].status = "CLOSED"]_vars
  BY <1>1
<1>. QED BY <1>2, <1>3, PTL DEF Spec, ClosingIsFinal
=============================================================================
