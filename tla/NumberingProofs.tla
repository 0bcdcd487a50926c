--------------------------- MODULE NumberingProofs ---------------------------
(***************************************************************************)
(* The numbers of a register: explicit ones are honoured, and suggested    *)
(* ones leave no gap.                                                      *)
(*                                                                         *)
(* The argument: from claim_entry's suggestion to the commit the filing    *)
(* holds the lock of its book, so nobody else files there and the          *)
(* suggestion is still the next entry when the document appears.  A new    *)
(* version of a document takes no lock: without one (Superseding) the      *)
(* suggestion stays exact, with one it is only after every current entry   *)
(* (SuggestionsComeLast).                                                  *)
(***************************************************************************)
EXTENDS BooksProofs

\* The entry r has claimed is the one it asked for, where it asked, and the
\* next one of the book where it did not.
Numbered(r) ==
  pc[r] = "commit_file" =>
    /\ call[r].doc_no # Nil  => entry[r].doc_no = call[r].doc_no
    /\ call[r].page_no # Nil => entry[r].page_no = call[r].page_no
    /\ ~Superseding =>
         /\ call[r].doc_no = Nil  => entry[r].doc_no = NextDocNo(docs, call[r].book)
         /\ call[r].page_no = Nil => entry[r].page_no = NextPageNo(docs, call[r].book)

AllNumbered == \A r \in Request : Numbered(r)

\* The suggestion depends on the documents of the book alone.
LEMMA SameSuggestion ==
  ASSUME NEW D, NEW E, NEW b, InBook(D, b) = InBook(E, b)
  PROVE  NextDocNo(D, b) = NextDocNo(E, b) /\ NextPageNo(D, b) = NextPageNo(E, b)
<1>1. Latest(D, b) = Latest(E, b) /\ \A p : CountOnPage(D, b, p) = CountOnPage(E, b, p)
  BY SameBook
<1>2. LastDocNo(D, b) = LastDocNo(E, b) /\ LastPageNo(D, b) = LastPageNo(E, b)
  BY <1>1 DEF LastDocNo, LastPageNo
<1> QED BY <1>1, <1>2 DEF NextDocNo, NextPageNo, PageFull

\* Only claim_entry brings a filing before its commit.
LEMMA OnlyClaimsArePending ==
  ASSUME TypeOK, NEW r \in Request, StepOf(r), pc'[r] = "commit_file"
  PROVE  Claim(r)
<1>1. ~Begin(r)
  BY BeginPc
<1> QED BY <1>1
    DEF StepOf, TypeOK, Finish, Rollback, Refuse, Answer, Advance, Settle, Insert,
        Goto, FlushClose, FlushDelete, Check, Lock

\* No step takes a claimed number back or moves the next entry past it.
LEMMA NumberedNext ==
  ASSUME IInv, AllNumbered, [Next]_vars
  PROVE  AllNumbered'
<1>1. TypeOK
  BY DEF IInv
<1>2. SUFFICES ASSUME NEW q \in Request, pc'[q] = "commit_file" PROVE Numbered(q)'
  BY DEF AllNumbered, Numbered
<1>3. Numbered(q)
  BY DEF AllNumbered
<1>4. CASE UNCHANGED vars
  BY <1>3, <1>4 DEF vars, Numbered
<1>5. ASSUME NEW r \in Request, StepOf(r), r # q PROVE Numbered(q)'
  <2>1. Unmoved(q) /\ GroundKept(q)
    BY <1>1, <1>5, OthersUnmoved, OthersGround
  <2>2. pc[q] = "commit_file"
    BY <1>2, <2>1 DEF Unmoved
  <2>3. call[q].book \in Book /\ Holds(q, call[q].book)
    BY <1>1, <2>2, CallOnBook DEF IInv, RequestInv, FilePending, FilePc
  <2>4. InBook(docs', call[q].book) = InBook(docs, call[q].book)
    BY <2>1, <2>3 DEF GroundKept
  <2>5. /\ NextDocNo(docs', call[q].book) = NextDocNo(docs, call[q].book)
        /\ NextPageNo(docs', call[q].book) = NextPageNo(docs, call[q].book)
    BY <2>4, SameSuggestion
  <2> QED BY <1>3, <2>1, <2>2, <2>5 DEF Numbered, Unmoved
<1>6. ASSUME StepOf(q) PROVE Numbered(q)'
  <2>1. Claim(q)
    BY <1>1, <1>2, <1>6, OnlyClaimsArePending
  <2>2. /\ entry'[q].doc_no = EntryDocNo(q) /\ entry'[q].page_no = EntryPageNo(q)
        /\ call' = call /\ docs' = docs
    BY <1>1, <2>1 DEF Claim, TypeOK
  <2> QED BY <2>2 DEF Numbered, EntryDocNo, EntryPageNo
<1>7. ASSUME NEW d \in docs, Supersede(d) PROVE Numbered(q)'
  BY <1>3, <1>7 DEF Supersede, Numbered
<1>8. CASE Crash
  BY <1>2, <1>8 DEF Crash
<1> QED BY <1>4, <1>5, <1>6, <1>7, <1>8, StepKinds DEF StepOf

LEMMA NumberedInvariant == Spec => [](IInv /\ AllNumbered)
<1>1. Init => IInv /\ AllNumbered
  BY InvInit DEF Init, AllNumbered, Numbered
<1>2. IInv /\ AllNumbered /\ [Next]_vars => (IInv /\ AllNumbered)'
  BY InvStep, NumberedNext
<1> QED BY <1>1, <1>2, PTL DEF Spec
-----------------------------------------------------------------------------
(* Gaps.                                                                   *)

\* A book whose documents stay as they are stays without a gap.
LEMMA SameBookUnbroken ==
  ASSUME NEW D, NEW E, NEW b, InBook(D, b) = InBook(E, b), Unbroken(D, b)
  PROVE  Unbroken(E, b)
<1>1. Latest(D, b) = Latest(E, b) /\ \A p : CountOnPage(D, b, p) = CountOnPage(E, b, p)
  BY SameBook
<1> QED BY <1>1 DEF Unbroken, IsDocNoTaken, PageFull

\* The last entry of a book is one of its current documents, and so is the
\* last page one that is in use.
LEMMA LastIsUsed ==
  ASSUME NEW D \in SUBSET Document, NEW b \in Book, Latest(D, b) # {}
  PROVE  /\ \E d \in Latest(D, b) : d.doc_no = LastDocNo(D, b)
         /\ \E d \in Latest(D, b) : d.page_no = LastPageNo(D, b)
<1> DEFINE N == {d.doc_no : d \in Latest(D, b)}
           P == {d.page_no : d \in Latest(D, b)}
<1>1. N \in SUBSET (1 .. MaxDocNo) /\ N # {} /\ MaxDocNo \in Nat
  BY CapacityAssumption DEF Latest, Document, DocNo
<1>2. P \in SUBSET (1 .. MaxPages) /\ P # {} /\ MaxPages \in Nat
  BY CapacityAssumption DEF Latest, Document, Page
<1>3. Highest(N) \in N /\ Highest(P) \in P
  BY <1>1, <1>2, HighestExists
<1> QED BY <1>3 DEF LastDocNo, LastPageNo

\* A document at the suggested entry continues the register.
LEMMA NextEntryLeavesNoGap ==
  ASSUME NEW D \in SUBSET Document, IsFiniteSet(D), NEW b \in Book, Unbroken(D, b),
         NEW e \in Document, e.book = b, e.latest,
         e.doc_no = NextDocNo(D, b), e.page_no = NextPageNo(D, b)
  PROVE  Unbroken(D \cup {e}, b)
<1> DEFINE E == D \cup {e}
<1>1. Latest(E, b) = Latest(D, b) \cup {e}
  BY DEF Latest
<1>2. \A d \in Latest(E, b) : d.doc_no \in Nat \ {0} /\ d.page_no \in Nat \ {0}
  <2>1. \A d \in Latest(E, b) : d \in Document
    BY DEF Latest
  <2> QED BY <2>1, CapacityAssumption DEF Document, DocNo, Page
<1>3. \A d \in Latest(D, b) : d.doc_no < e.doc_no /\ d.page_no <= e.page_no
  BY NextEntry
<1>4. \A n : IsDocNoTaken(D, b, n) => IsDocNoTaken(E, b, n)
  BY <1>1 DEF IsDocNoTaken
<1>5. \A p : PageFull(D, b, p) => PageFull(E, b, p)
  <2>1. SUFFICES ASSUME NEW p, PageFull(D, b, p) PROVE PageFull(E, b, p)
    OBVIOUS
  <2>2. OnPage(D, b, p) \subseteq OnPage(E, b, p)
    BY <1>1 DEF OnPage
  <2>3. IsFiniteSet(E)
    BY FS_AddElement
  <2>4. /\ CountOnPage(D, b, p) \in Nat /\ CountOnPage(E, b, p) \in Nat
        /\ CountOnPage(D, b, p) <= CountOnPage(E, b, p)
    BY <2>2, <2>3, CountMonotone, CountType
  <2> QED BY <2>1, <2>4, CapacityAssumption DEF PageFull
<1>6. \A n \in 1 .. (e.doc_no - 1) : IsDocNoTaken(D, b, n)
  <2>1. CASE Latest(D, b) = {}
    BY <2>1 DEF NextDocNo
  <2>2. CASE Latest(D, b) # {}
    <3>1. PICK d \in Latest(D, b) : d.doc_no = LastDocNo(D, b)
      BY <2>2, LastIsUsed
    <3>2. e.doc_no = d.doc_no + 1 /\ d.doc_no \in Nat
      BY <1>1, <1>2, <2>2, <3>1 DEF NextDocNo
    <3> QED BY <3>1, <3>2 DEF Unbroken
  <2> QED BY <2>1, <2>2
<1>7. \A p \in 1 .. (e.page_no - 1) : PageFull(D, b, p)
  <2>1. CASE Latest(D, b) = {}
    BY <2>1 DEF NextPageNo
  <2>2. CASE Latest(D, b) # {}
    <3>1. PICK d \in Latest(D, b) : d.page_no = LastPageNo(D, b)
      BY <2>2, LastIsUsed
    <3>2. \A p \in 1 .. (d.page_no - 1) : PageFull(D, b, p)
      BY <3>1 DEF Unbroken
    <3>3. d.page_no \in Nat
      BY <1>1, <1>2, <3>1
    <3>4. \/ e.page_no = d.page_no
          \/ e.page_no = d.page_no + 1 /\ PageFull(D, b, d.page_no)
      BY <2>2, <3>1 DEF NextPageNo
    <3> QED BY <3>2, <3>3, <3>4
  <2> QED BY <2>1, <2>2
<1>8. \A d \in Latest(E, b) : \A n \in 1 .. d.doc_no : IsDocNoTaken(E, b, n)
  <2>1. SUFFICES ASSUME NEW d \in Latest(E, b), NEW n \in 1 .. d.doc_no
                 PROVE  IsDocNoTaken(E, b, n)
    OBVIOUS
  <2>2. CASE n = d.doc_no
    BY <2>2 DEF IsDocNoTaken
  <2>3. CASE n # d.doc_no
    <3>1. d.doc_no \in Nat
      BY <1>2
    <3>2. n \in 1 .. (d.doc_no - 1)
      BY <2>3, <3>1
    <3> QED BY <1>1, <1>4, <1>6, <3>2, <2>1 DEF Unbroken
  <2> QED BY <2>2, <2>3
<1>9. \A d \in Latest(E, b) : \A p \in 1 .. (d.page_no - 1) : PageFull(E, b, p)
  BY <1>1, <1>5, <1>7 DEF Unbroken
<1>10. \A d, f \in Latest(E, b) : d.doc_no <= f.doc_no => d.page_no <= f.page_no
  <2>1. SUFFICES ASSUME NEW d \in Latest(E, b), NEW f \in Latest(E, b),
                        d.doc_no <= f.doc_no
                 PROVE  d.page_no <= f.page_no
    OBVIOUS
  <2>2. /\ d.doc_no \in Nat /\ f.doc_no \in Nat /\ e.doc_no \in Nat
        /\ d.page_no \in Nat /\ f.page_no \in Nat
    BY <1>1, <1>2
  <2>3. CASE f = e
    BY <1>1, <1>3, <2>2, <2>3
  <2>4. CASE f # e /\ d = e
    <3>1. f \in Latest(D, b)
      BY <1>1, <2>4
    <3>2. f.doc_no < d.doc_no
      BY <1>3, <2>4, <3>1
    <3> QED BY <2>1, <2>2, <3>2
  <2>5. CASE f # e /\ d # e
    BY <1>1, <2>1, <2>5 DEF Unbroken
  <2> QED BY <2>3, <2>4, <2>5
<1> QED BY <1>8, <1>9, <1>10 DEF Unbroken

\* A filing that commits puts its document at the end of the register.
LEMMA FilingContinues ==
  ASSUME Superseding = FALSE, IInv, AllNumbered, NEW r \in Request, FileSettles(r),
         call[r].doc_no = Nil, call[r].page_no = Nil, Unbroken(docs, call[r].book)
  PROVE  Unbroken(docs', call[r].book)
<1>1. /\ docs \in SUBSET Document /\ IsFiniteSet(docs)
      /\ call[r].book \in Book /\ entry[r] \in Document
      /\ entry[r].book = call[r].book /\ entry[r].latest
      /\ docs' = docs \cup {entry[r]}
  BY DEF IInv, TypeOK, DocsInv, FileSettles, FilePending
<1>2. /\ entry[r].doc_no = NextDocNo(docs, call[r].book)
      /\ entry[r].page_no = NextPageNo(docs, call[r].book)
  BY DEF AllNumbered, Numbered, FileSettles
<1>3. Unbroken(docs \cup {entry[r]}, call[r].book)
  BY <1>1, <1>2, NextEntryLeavesNoGap
<1> QED BY <1>1, <1>3

\* The step that files for r is the commit of r.
LEMMA FilingSettles ==
  ASSUME IInv, Next, NEW r \in Request, Filing(r), Superseding = FALSE
  PROVE  FileSettles(r)
<1>1. pc[r] = "commit_file" /\ pc'[r] # "commit_file" /\ docs' # docs
  BY DEF Filing
<1>2. PICK q \in Request : Settle(q)
  BY <1>1, StepKinds, TablesKept DEF Supersede, Crash
<1>3. q = r
  BY <1>1, <1>2, OthersUnmoved DEF StepOf, Unmoved, IInv
<1> QED BY <1>1, <1>2, <1>3, CommitEffect
        DEF CreateSettles, CloseSettles, DeleteSettles

\* As long as no document gets a new version, suggested numbers never leave a
\* gap, for registers of every size and any number of concurrent filings
\* (books/service.py:206-225).
THEOREM SuggestedNumbersLeaveNoGap ==
  ASSUME Superseding = FALSE
  PROVE  Spec => SuggestionsLeaveNoGap
<1> DEFINE A == \A r \in Request :
                  /\ Filing(r) /\ call[r].doc_no = Nil /\ call[r].page_no = Nil
                  /\ Unbroken(docs, call[r].book)
                  => Unbroken(docs', call[r].book)
<1>1. IInv /\ AllNumbered /\ [Next]_vars => [A]_vars
  BY FilingSettles, FilingContinues
<1> QED BY <1>1, NumberedInvariant, PTL DEF Spec, SuggestionsLeaveNoGap

-----------------------------------------------------------------------------
(* A practice that leaves all numbering to the program.                    *)

NoGaps == \A b \in Book : Unbroken(docs, b)

\* Nobody asks for a number.
OnlySuggestions ==
  \A c \in Asked : c \in FileCall => c.doc_no = Nil /\ c.page_no = Nil

\* A call that is being filed is one that clients make.
Genuine == \A r \in Request : pc[r] \in FilePc => call[r] \in Asked

LEMMA GenuineNext ==
  ASSUME IInv, Genuine, [Next]_vars
  PROVE  Genuine'
<1>1. TypeOK
  BY DEF IInv
<1>2. SUFFICES ASSUME NEW q \in Request, pc'[q] \in FilePc PROVE call'[q] \in Asked
  BY DEF Genuine
<1>3. ASSUME call'[q] = call[q], pc[q] \in FilePc PROVE call'[q] \in Asked
  BY <1>3 DEF Genuine
<1>4. ASSUME NEW r \in Request, StepOf(r), r # q PROVE call'[q] \in Asked
  BY <1>1, <1>2, <1>3, <1>4, OthersUnmoved DEF Unmoved
<1>5. CASE Begin(q)
  BY <1>1, <1>5 DEF Begin, TypeOK
<1>6. CASE Finish(q) \/ Rollback(q) \/ Advance(q) \/ Settle(q) \/ Insert(q)
           \/ FlushClose(q) \/ FlushDelete(q)
  <2>1. pc'[q] \notin FilePc
    BY <1>1, <1>6
       DEF FilePc, TypeOK, Finish, Rollback, Refuse, Answer, Advance, Settle, Insert,
           Goto, FlushClose, FlushDelete
  <2> QED BY <1>2, <2>1
<1>7. CASE Check(q) \/ Lock(q) \/ Claim(q)
  BY <1>3, <1>7 DEF Check, Lock, Claim, FilePc
<1>8. ASSUME NEW d \in docs, Supersede(d) PROVE call'[q] \in Asked
  BY <1>2, <1>3, <1>8 DEF Supersede
<1>9. CASE Crash
  BY <1>2, <1>9 DEF Crash, FilePc
<1>10. CASE UNCHANGED vars
  BY <1>2, <1>3, <1>10 DEF vars
<1> QED BY <1>4, <1>5, <1>6, <1>7, <1>8, <1>9, <1>10, StepKinds DEF StepOf

\* Every step then continues the registers or leaves them alone.
LEMMA NoGapsNext ==
  ASSUME Superseding = FALSE, OnlySuggestions,
         IInv, AllNumbered, Genuine, NoGaps, [Next]_vars
  PROVE  NoGaps'
<1>1. CASE docs' = docs
  BY <1>1 DEF NoGaps
<1>2. ASSUME NEW r \in Request, FileSettles(r) PROVE NoGaps'
  <2>1. call[r] \in FileCall /\ call[r] \in Asked
    BY <1>2 DEF FileSettles, FilePc, IInv, TypeOK, Genuine
  <2>2. call[r].doc_no = Nil /\ call[r].page_no = Nil
    BY <2>1 DEF OnlySuggestions
  <2>3. call[r].book \in Book /\ Unbroken(docs, call[r].book)
    BY <1>2 DEF FileSettles, NoGaps
  <2>4. Unbroken(docs', call[r].book)
    BY <1>2, <2>2, <2>3, FilingContinues
  <2>5. \A b \in Book : b # call[r].book => InBook(docs, b) = InBook(docs', b)
    BY <1>2 DEF FileSettles, FilePending, InBook
  <2> QED BY <2>4, <2>5, SameBookUnbroken DEF NoGaps
<1>3. ASSUME NEW r \in Request, Settle(r) PROVE NoGaps'
  BY <1>1, <1>2, <1>3, CommitEffect DEF CreateSettles, CloseSettles, DeleteSettles
<1> QED BY <1>1, <1>3, StepKinds, TablesKept DEF Supersede, Crash, vars

\* A practice that leaves all numbering to the program has registers without a
\* gap, whatever requests run concurrently, fail or crash.
THEOREM RegistersHaveNoGaps ==
  ASSUME Superseding = FALSE, OnlySuggestions
  PROVE  Spec => []NoGaps
<1> DEFINE I == IInv /\ AllNumbered /\ Genuine /\ NoGaps
<1>1. Init => I
  BY InvInit DEF Init, AllNumbered, Numbered, Genuine, FilePc, NoGaps, Unbroken, Latest
<1>2. I /\ [Next]_vars => I'
  BY InvStep, NumberedNext, GenuineNext, NoGapsNext
<1> QED BY <1>1, <1>2, PTL DEF Spec
=============================================================================
