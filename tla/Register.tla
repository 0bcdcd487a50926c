------------------------------ MODULE Register ------------------------------
(***************************************************************************)
(* What the books feature promises its lawyers, as if every request were   *)
(* served alone and at once: a notarial register in which each book has    *)
(* its own number and at most one book is open per year, each entry its    *)
(* own document number, no page is overfilled, a closed book stays closed  *)
(* and the book whose last page fills up is closed with that entry.        *)
(* BookService serves the same requests as interleaved transactions;       *)
(* Books.tla shows that what it commits is a behaviour of this module.     *)
(*                                                                         *)
(* The rules are stated here on their own terms, not with the operators    *)
(* that transcribe the code's decisions.                                   *)
(***************************************************************************)
EXTENDS Integers, FiniteSets

CONSTANTS Request, Book, User, Number, Year, MaxPages, MaxEntriesPerPage,
          MaxDocNo, Nil

CONSTANT DocumentsKeepBook   \* the documents table refuses to lose its book

VARIABLES
  books,  \* Book -> row or Nil
  docs    \* the documents filed, every version

vars == <<books, docs>>

Entries(b) == {d \in docs : d.book = b /\ d.latest}

Init ==
  /\ books = [b \in Book |-> Nil]
  /\ docs = {}

(* A book opens, or a finished one is migrated, under a number of its own  *)
(* and without an entry.                                                   *)
AddBook(b) ==
  /\ books[b] = Nil
  /\ \A d \in docs : d.book # b
  /\ \E user \in User, number \in Number, year \in Year,
        status \in {"OPEN", "CLOSED"}, stamp \in Request \cup {Nil} :
       /\ \A c \in Book : books[c] # Nil /\ books[c].user = user
                              /\ books[c].year = year =>
            /\ books[c].number # number
            /\ ~(books[c].status = "OPEN" /\ status = "OPEN")
       /\ books' = [books EXCEPT ![b] =
            [user |-> user, number |-> number, year |-> year,
             status |-> status, closed_at |-> stamp]]
  /\ UNCHANGED docs

Closed(row, r) == [row EXCEPT !.status = "CLOSED", !.closed_at = r]

CloseBook(b, r) ==
  /\ books[b] # Nil
  /\ books' = [books EXCEPT ![b] = Closed(books[b], r)]
  /\ UNCHANGED docs

RemoveBook(b) ==
  /\ books[b] # Nil
  /\ DocumentsKeepBook => \A d \in docs : d.book # b
  /\ books' = [books EXCEPT ![b] = Nil]
  /\ UNCHANGED docs

(* A document takes a free number and a free line.  The entry that leaves  *)
(* no line on the last page closes an open book; only an entry on the last *)
(* page ever stamps the book.                                              *)
FileDocument(b, r) ==
  /\ books[b] # Nil
  /\ \E n \in 1 .. MaxDocNo, p \in 1 .. MaxPages :
       LET onPage == {d \in Entries(b) : d.page_no = p}
       IN  /\ \A d \in Entries(b) : d.doc_no # n
           /\ Cardinality(onPage) < MaxEntriesPerPage
           /\ docs' = docs \cup {[book |-> b, doc_no |-> n, page_no |-> p,
                                  latest |-> TRUE, by |-> r]}
           /\ \/ /\ p = MaxPages
                 /\ books' = [books EXCEPT ![b] = Closed(books[b], r)]
              \/ /\ \/ books[b].status = "CLOSED"
                    \/ p # MaxPages
                    \/ Cardinality(onPage) + 1 < MaxEntriesPerPage
                 /\ UNCHANGED books

(* A later version of the document takes over: the row stays, its entry    *)
(* is free again.                                                          *)
Supersede(d) ==
  /\ d.latest
  /\ docs' = (docs \ {d}) \cup {[d EXCEPT !.latest = FALSE]}
  /\ UNCHANGED books

Next ==
  \/ \E b \in Book : AddBook(b) \/ RemoveBook(b)
  \/ \E b \in Book, r \in Request : CloseBook(b, r) \/ FileDocument(b, r)
  \/ \E d \in docs : Supersede(d)

Spec == Init /\ [][Next]_vars
=============================================================================
