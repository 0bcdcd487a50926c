-------------------------------- MODULE Desk --------------------------------
(***************************************************************************)
(* What the books feature promises each caller: between the call and its   *)
(* answer the register serves the call once and at once, or not at all.    *)
(* A success has been served; a refusal was right at the moment it was     *)
(* made and changed nothing; an error leaves the caller in doubt.          *)
(* BookService serves a call in several statements, with those of other    *)
(* requests in between; Books.tla shows that nobody can tell.              *)
(***************************************************************************)
EXTENDS Register

CONSTANTS
  Asked,     \* the calls clients make
  KeepsBook  \* a filing may rely on the book as check_filing saw it

VARIABLES
  call,  \* Request -> the call a client waits with
  desk   \* Request -> where that call stands

deskVars == <<books, docs, call, desk>>

DeskInit ==
  /\ Init
  /\ call = [r \in Request |-> Nil]
  /\ desk = [r \in Request |-> "free"]

Ask(r) ==
  /\ desk[r] = "free"
  /\ desk' = [desk EXCEPT ![r] = "asked"]
  /\ \E c \in Asked : call' = [call EXCEPT ![r] = c]
  /\ UNCHANGED <<books, docs>>

-----------------------------------------------------------------------------
(* The work itself: one operation of the register, the one asked for.      *)

Mine(c) == books[c.book] # Nil /\ books[c.book].user = c.user

Automatic(c) == c.doc_no = Nil \/ c.page_no = Nil

Create(c) ==
  \E b \in Book :
    /\ AddBook(b)
    /\ books'[b].user = c.user /\ books'[b].number = c.number
    /\ books'[b].year = c.year /\ books'[b].status = c.status

Close(c, r) == Mine(c) /\ CloseBook(c.book, r)

\* Somebody else may have deleted the book in the meantime.
Delete(c) ==
  \/ Mine(c) /\ RemoveBook(c.book)
  \/ books[c.book] = Nil /\ UNCHANGED <<books, docs>>

\* The numbers asked for are the numbers given; the others come last.
File(c, r) ==
  /\ Mine(c) /\ FileDocument(c.book, r)
  /\ Automatic(c) /\ ~KeepsBook => books[c.book].status = "OPEN"
  /\ \E d \in docs' \ docs :
       /\ c.doc_no # Nil => d.doc_no = c.doc_no
       /\ c.page_no # Nil => d.page_no = c.page_no
       /\ \A e \in Entries(c.book) : /\ c.doc_no = Nil => e.doc_no < d.doc_no
                                     /\ c.page_no = Nil => e.page_no <= d.page_no

Serve(r) ==
  LET c == call[r] IN
  /\ desk[r] = "asked"
  /\ \E s \in {"served", "success", "error"} : desk' = [desk EXCEPT ![r] = s]
  /\ \/ c.op = "create" /\ Create(c)
     \/ c.op = "close" /\ Close(c, r)
     \/ c.op = "delete" /\ Delete(c)
     \/ c.op = "file" /\ File(c, r)
  /\ UNCHANGED call

-----------------------------------------------------------------------------
(* What may be refused, and when.                                          *)

Clashing(c) ==
  \E b \in Book :
    /\ books[b] # Nil /\ books[b].user = c.user /\ books[b].year = c.year
    /\ books[b].number = c.number \/ (books[b].status = "OPEN" /\ c.status = "OPEN")

Full(b, p) == Cardinality({d \in Entries(b) : d.page_no = p}) >= MaxEntriesPerPage

NoPlace(c) ==
  \/ Automatic(c) /\ (books[c.book].status = "CLOSED" \/ Full(c.book, MaxPages))
  \/ c.doc_no # Nil /\ (c.doc_no < 1 \/ \E d \in Entries(c.book) : d.doc_no = c.doc_no)
  \/ c.page_no # Nil /\ (c.page_no \notin 1 .. MaxPages \/ Full(c.book, c.page_no))

Impossible(c) ==
  \/ c.op = "create" /\ Clashing(c)
  \/ c.op = "close" /\ (~Mine(c) \/ books[c.book].status = "CLOSED")
  \/ c.op = "delete" /\ (~Mine(c) \/ \E d \in docs : d.book = c.book)
  \/ c.op = "file" /\ (~Mine(c) \/ NoPlace(c))

Refuse(r) ==
  /\ desk[r] = "asked"
  /\ \/ Impossible(call[r]) /\ desk' = [desk EXCEPT ![r] = "refused"]
     \/ desk' = [desk EXCEPT ![r] = "error"]
  /\ UNCHANGED <<books, docs, call>>

\* The answer to what has been done may fail to tell so.
Report(r) ==
  /\ desk[r] = "served"
  /\ \E s \in {"success", "error"} : desk' = [desk EXCEPT ![r] = s]
  /\ UNCHANGED <<books, docs, call>>

Leave(r) ==
  /\ desk[r] \in {"success", "refused", "error"}
  /\ desk' = [desk EXCEPT ![r] = "free"]
  /\ call' = [call EXCEPT ![r] = Nil]
  /\ UNCHANGED <<books, docs>>

\* Everybody is sent away without an answer; the register stays as it is.
Crash ==
  /\ desk' = [r \in Request |-> "free"]
  /\ call' = [r \in Request |-> Nil]
  /\ UNCHANGED <<books, docs>>

DeskNext ==
  \/ \E r \in Request : Ask(r) \/ Serve(r) \/ Refuse(r) \/ Report(r) \/ Leave(r)
  \/ \E d \in docs : Supersede(d) /\ UNCHANGED <<call, desk>>
  \/ Crash

DeskSpec == DeskInit /\ [][DeskNext]_deskVars
=============================================================================
