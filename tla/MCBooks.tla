------------------------------- MODULE MCBooks -------------------------------
(***************************************************************************)
(* The calls of the model-checked instances of Books.                      *)
(***************************************************************************)
EXTENDS Books, TLC

CONSTANTS u1, u2, b1, b2

Creates(users, numbers, statuses) ==
  [op : {"create"}, user : users, number : numbers, year : {2026},
   status : statuses]

OnBooks(ops, users, bs) == [op : ops, user : users, book : bs]

Files(users, nos, pages, checked) ==
  [op : {"file"}, user : users, book : {b1}, doc_no : nos, page_no : pages,
   checked : checked]

\* Two lawyers create, close and delete books of one year; one of them files.
ShelfCalls ==
  Creates({u1}, {1, 2}, BookStatus) \cup Creates({u2}, {1}, {"OPEN"})
    \cup OnBooks({"close", "delete"}, {u1}, Book)
    \cup OnBooks({"close", "delete"}, {u2}, {b1})
    \cup Files({u1, u2}, {Nil}, {Nil}, {FALSE})

\* One lawyer fills one book, closes it, deletes it.
FilingCalls ==
  Creates({u1}, {1}, BookStatus) \cup OnBooks({"close", "delete"}, {u1}, {b1})
    \cup Files({u1}, {Nil, 3}, {Nil, 2}, {FALSE, TRUE})
    \cup Files({u1}, {0, 1}, {3}, {FALSE})

\* Calls that wait for each other's row locks and index entries.
LiveCalls ==
  Creates({u1}, {1, 2}, {"OPEN"}) \cup OnBooks({"close", "delete"}, {u1}, {b1})
    \cup Files({u1}, {Nil}, {Nil}, {TRUE})

Sym == Permutations(Request)
=============================================================================
