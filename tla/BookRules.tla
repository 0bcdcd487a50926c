------------------------------ MODULE BookRules ------------------------------
(***************************************************************************)
(* The data of the register books and the pure decisions BookService and   *)
(* BookRepository take about it: which rows a query returns, which numbers *)
(* a filing may use, which entry is suggested next, which rows the unique  *)
(* indexes keep apart.  Nothing here has a state: every operator is given  *)
(* the books table and the documents table it is evaluated on.             *)
(*                                                                         *)
(* A definition whose name ends in a bug ("..._NoLock", "..._OffByOne")    *)
(* is a deliberately wrong variant of the definition below it.  No module  *)
(* uses it; it is what the properties are shown to reject.                 *)
(***************************************************************************)
EXTENDS Integers, FiniteSets

CONSTANTS
  Request,            \* slots of concurrently served HTTP requests
  Book,               \* uuids a book row can get
  User,               \* owners of books
  Number,             \* book_number values
  Year,               \* series_year values
  MaxPages,           \* MAX_PAGES, 106 in the code
  MaxEntriesPerPage,  \* MAX_ENTRIES_PER_PAGE, 5 in the code
  MaxDocNo,           \* largest value the doc_no column of documents holds
  Nil                 \* Python's None, and "no such row"

ASSUME CapacityAssumption ==
  /\ MaxPages \in Nat \ {0}
  /\ MaxEntriesPerPage \in Nat \ {0}
  /\ MaxDocNo \in Nat

BookStatus == {"OPEN", "CLOSED"}

(***************************************************************************)
(* A row of "books".  closed_at names the request that stamped it instead  *)
(* of a time: two stamps differ exactly when two requests wrote them.      *)
(***************************************************************************)
Row == [user: User, number: Number, year: Year, status: BookStatus,
        closed_at: Request \cup {Nil}]

Page == 1 .. MaxPages

DocNo == 1 .. MaxDocNo

(***************************************************************************)
(* A row of "documents", the table of a feature that is not in the         *)
(* repository: the columns BookRepository reads.  by is the request that   *)
(* filed it, so that two rows with the same numbers stay two rows.         *)
(***************************************************************************)
Document == [book: Book, doc_no: DocNo, page_no: Page, latest: BOOLEAN,
             by: Request]

ASSUME NilAssumption ==
  /\ Nil \notin Int
  /\ Nil \notin Request
  /\ Nil \notin Book
  /\ Nil \notin Row
  /\ Nil \notin Document

-----------------------------------------------------------------------------
(* Reading the books table T: Book -> Row or Nil.                          *)

Live(T, b) == T[b] # Nil

Owned_AnyUser(T, user, b) == Live(T, b)

\* The row get_one and get_one_for_update select: this id, of this user.
Owned(T, user, b) == Live(T, b) /\ T[b].user = user

SameNumber(x, y) ==
  x.user = y.user /\ x.number = y.number /\ x.year = y.year

BothOpen(x, y) ==
  /\ x.user = y.user /\ x.year = y.year
  /\ x.status = "OPEN" /\ y.status = "OPEN"

Conflicting_NumberOnly(x, y) == SameNumber(x, y)
Conflicting_OpenOnly(x, y)   == BothOpen(x, y)

\* Two rows that uq_book_user_number_year or uq_book_one_open_per_year
\* refuses to hold together.
Conflicting(x, y) == SameNumber(x, y) \/ BothOpen(x, y)

-----------------------------------------------------------------------------
(* Reading the documents table D.                                          *)

InBook(D, b) == {d \in D : d.book = b}

\* Only the current version of a document occupies its register entry.
Latest(D, b) == {d \in D : d.book = b /\ d.latest}

HasDocuments_LatestOnly(D, b) == Latest(D, b) # {}

\* "Whether any document, in any version, is filed in this book."
HasDocuments(D, b) == InBook(D, b) # {}

IsDocNoTaken(D, b, n) == \E d \in Latest(D, b) : d.doc_no = n

OnPage(D, b, p) == {d \in Latest(D, b) : d.page_no = p}

CountOnPage(D, b, p) == Cardinality(OnPage(D, b, p))

PageFull_OffByOne(D, b, p) == CountOnPage(D, b, p) > MaxEntriesPerPage

PageFull(D, b, p) == CountOnPage(D, b, p) >= MaxEntriesPerPage

\* The documents once a new version has taken over from d: the row stays.
Superseded(D, d) == (D \ {d}) \cup {[d EXCEPT !.latest = FALSE]}

\* The highest number among the latest documents: func.max of register_stats.
Highest(S) == CHOOSE n \in S : \A m \in S : m <= n

LastDocNo(D, b)  == Highest({d.doc_no  : d \in Latest(D, b)})
LastPageNo(D, b) == Highest({d.page_no : d \in Latest(D, b)})

-----------------------------------------------------------------------------
(* Numbering.                                                              *)

NumbersRefused_NoUpperPage(book, doc_no, page_no) ==
  \/ book.status = "CLOSED" /\ (doc_no = Nil \/ page_no = Nil)
  \/ doc_no # Nil /\ doc_no < 1
  \/ page_no # Nil /\ page_no < 1

\* _validate_numbers: a closed book takes explicit numbers only, and explicit
\* numbers must be in range.
NumbersRefused(book, doc_no, page_no) ==
  \/ book.status = "CLOSED" /\ (doc_no = Nil \/ page_no = Nil)
  \/ doc_no # Nil /\ doc_no < 1
  \/ page_no # Nil /\ page_no \notin Page

NextDocNo_Count(D, b) == Cardinality(Latest(D, b)) + 1

NextDocNo(D, b) == IF Latest(D, b) = {} THEN 1 ELSE LastDocNo(D, b) + 1

NextPageNo_OffByOne(D, b) ==
  IF Latest(D, b) = {} THEN 1
  ELSE IF CountOnPage(D, b, LastPageNo(D, b)) + 1 < MaxEntriesPerPage
       THEN LastPageNo(D, b)
  ELSE LastPageNo(D, b) + 1

NextPageNo(D, b) ==
  IF Latest(D, b) = {} THEN 1
  ELSE IF ~PageFull(D, b, LastPageNo(D, b)) THEN LastPageNo(D, b)
  ELSE LastPageNo(D, b) + 1

\* _next_entry gives up when the suggestion falls off the register.
NoPagesLeft(D, b) == NextPageNo(D, b) > MaxPages

UsesUpLastPage_OffByOne(D, b, p) ==
  p = MaxPages /\ CountOnPage(D, b, p) = MaxEntriesPerPage

\* claim_entry closes the register with the entry that fills its last page.
UsesUpLastPage(D, b, p) ==
  p = MaxPages /\ CountOnPage(D, b, p) + 1 = MaxEntriesPerPage
=============================================================================
