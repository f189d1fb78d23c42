------------------------------- MODULE Imports --------------------------------
(***************************************************************************)
(* Books that come from external sources (ImportService.import_book, for   *)
(* an administrator's request or a job of the worker), and a user's        *)
(* library that comes from a file (import_rows).                           *)
(*                                                                         *)
(* Both look for what is there and INSERT what is not, statement by        *)
(* statement, in a transaction that ends with the request or the job.  A   *)
(* job's searches commit what it has done so far.  An INSERT under a       *)
(* unique key waits for the transaction that has inserted the same key,    *)
(* and is refused if a committed row has it.                               *)
(***************************************************************************)
EXTENDS Integers, SequencesExt

CONSTANTS Details,   \* what the sources say of books: title, people, codes
          BookIds,   \* primary keys of the books imported
          Files,     \* CSV files: a sequence of ISBNs each
          Requests,  \* concurrent requests and jobs
          MaxCount   \* bound: statuses for one book

VARIABLES rows,      \* the catalog: people, books, links, codes
          shelf,     \* statuses that imports have given the user, per book
          owned,     \* books the user has put on the shelf by hand
          records,   \* import_records: the files that were imported
          work,      \* the transaction of each request
          crossed    \* history: two uploads of the user have overlapped

vars == <<rows, shelf, owned, records, work, crossed>>

CodesOf(detail) == Range(detail.codes)

Codes == UNION ({CodesOf(d) : d \in Details} \cup {Range(f) : f \in Files})
People == UNION {d.people : d \in Details}

(* A contributor goes by the name and the slug made of it.                 *)
Person(p) == [row |-> "person", name |-> p]
Link(b, p) == [row |-> "link", book |-> b, name |-> p]
Isbn(c, b) == [row |-> "isbn", code |-> c, book |-> b]

(* from: history, the detail a book was made of.                           *)
Book(b, d) == [row |-> "book", book |-> b, from |-> d]

Rows == {Person(p) : p \in People}
        \cup {Link(b, p) : b \in BookIds, p \in People}
        \cup {Isbn(c, b) : c \in Codes, b \in BookIds}
        \cup {Book(b, d) : b \in BookIds, d \in Details}

Idle == [at |-> "idle"]

(* added: the rows inserted since the last commit.  created: the statuses  *)
(* that an upload has inserted, per book.                                  *)
Work == [at : {"between", "people", "book"}, job : BOOLEAN, detail : Details,
         missing : SUBSET People, added : SUBSET Rows]
        \cup [at : {"write"}, job : BOOLEAN, detail : Details, missing : SUBSET People,
              added : SUBSET Rows, book : BookIds, found : {"isbn", "title", "none"}]
        \cup [at : {"rows"}, file : Files, next : Nat, created : [BookIds -> Nat]]

Importing(r) == work[r].at \in {"between", "people", "book", "write"}
Uploading(r) == work[r].at = "rows"

Added(R) == UNION {work[r].added : r \in {s \in R : Importing(s)}}

(* Rows of the catalog that the request sees.                              *)
View(r) == rows \cup work[r].added

BooksIn(S) == {x.book : x \in {y \in S : y.row = "book"}}

(* Mutant of SameKey: codes are not unique.                                *)
SameIfNotCode(x, y) ==
    \/ x = y
    \/ x.row = "book" /\ y.row = "book" /\ x.book = y.book

(* Primary keys, the slug of a contributor, code_normalized.               *)
SameKey(x, y) ==
    \/ x = y
    \/ x.row = "book" /\ y.row = "book" /\ x.book = y.book
    \/ x.row = "isbn" /\ y.row = "isbn" /\ x.code = y.code

(* The INSERT of these rows goes through.                                  *)
Insertable(r, new) ==
    \A x \in new : \A y \in View(r) \cup Added(Requests \ {r}) : ~SameKey(x, y)

-----------------------------------------------------------------------------
(* import_book: the request of an administrator, or a job at its first hit.*)
Begin(r, d, job) ==
    /\ work[r] = Idle
    /\ work' = [work EXCEPT ![r] =
           [at |-> "people", job |-> job, detail |-> d, added |-> {},
            missing |-> {p \in d.people : Person(p) \notin rows}]]
    /\ UNCHANGED <<rows, shelf, owned, records, crossed>>

Become(r, w) ==
    /\ work' = [work EXCEPT ![r] = w]
    /\ UNCHANGED <<rows, shelf, owned, records, crossed>>

(* run_profile goes on to the next hit.                                    *)
NextHit(r, d) ==
    LET w == work[r]
    IN  /\ w.at = "between"
        /\ w.job
        /\ Become(r, [w EXCEPT !.at = "people", !.detail = d,
                      !.missing = {p \in d.people : Person(p) \notin View(r)}])

(* _resolve_contributors, after get_by_name.                               *)
AddContributors(r) ==
    LET w == work[r]
        new == {Person(p) : p \in w.missing}
    IN  /\ w.at = "people"
        /\ Insertable(r, new)
        /\ Become(r, [w EXCEPT !.at = "book", !.added = @ \cup new])

(* get_by_isbn, for any code of the detail.                                *)
ByIsbn(S, d) == {x.book : x \in {y \in S : y.row = "isbn" /\ y.code \in CodesOf(d)}}

(* The first code that is known decides.                                   *)
FirstByIsbn(S, d) ==
    {b \in ByIsbn(S, d) :
        \E i \in DOMAIN d.codes :
            /\ Isbn(d.codes[i], b) \in S
            /\ \A j \in 1 .. i - 1 : \A c \in BookIds : Isbn(d.codes[j], c) \notin S}

(* find_book_by_title_and_contributors: nobody to look for, nothing found. *)
ByTitle(S, d) ==
    {x.book : x \in {y \in S :
        /\ y.row = "book"
        /\ y.from.title = d.title
        /\ d.people # {}
        /\ {p \in People : Link(y.book, p) \in S} = d.people}}

(* _resolve_book.                                                          *)
ResolveBook(r, b) ==
    LET w == work[r]
        S == View(r)
        how == IF FirstByIsbn(S, w.detail) # {} THEN "isbn"
               ELSE IF ByTitle(S, w.detail) # {} THEN "title" ELSE "none"
    IN  /\ w.at = "book"
        /\ b \in CASE how = "isbn"  -> FirstByIsbn(S, w.detail)
                   [] how = "title" -> ByTitle(S, w.detail)
                   [] how = "none"  -> BookIds \ BooksIn(S \cup Added(Requests))
        /\ Become(r, [at |-> "write", job |-> w.job, detail |-> w.detail,
                      missing |-> {}, added |-> w.added, book |-> b, found |-> how])

(* add_book, link_book_contributor, _create_release: a release comes with  *)
(* its codes, one INSERT each, so a code that is there twice is refused.   *)
NewRows(r) ==
    LET w == work[r]
        d == w.detail
    IN  (IF w.found = "none" THEN {Book(w.book, d)} ELSE {})
        \cup {Link(w.book, p) : p \in {q \in d.people : Link(w.book, q) \notin View(r)}}
        \cup (IF w.found = "isbn" THEN {} ELSE {Isbn(c, w.book) : c \in CodesOf(d)})

WriteBook(r) ==
    LET w == work[r]
    IN  /\ w.at = "write"
        /\ Insertable(r, NewRows(r))
        /\ w.found # "isbn" => IsInjective(w.detail.codes)
        /\ w.found # "none" /\ NewRows(r) # {} => w.book \in BooksIn(View(r))
        /\ Become(r, [at |-> "between", job |-> w.job, detail |-> w.detail,
                      missing |-> {}, added |-> w.added \cup NewRows(r)])

(* The commit of an external source record, as the next query is searched. *)
Search(r) ==
    LET w == work[r]
    IN  /\ w.at = "between"
        /\ w.job
        /\ w.added # {}
        /\ rows' = rows \cup w.added
        /\ work' = [work EXCEPT ![r] = [w EXCEPT !.added = {}]]
        /\ UNCHANGED <<shelf, owned, records, crossed>>

(* The request or the job ends, and commits.                               *)
Finish(r) ==
    /\ work[r].at = "between"
    /\ rows' = rows \cup work[r].added
    /\ work' = [work EXCEPT ![r] = Idle]
    /\ UNCHANGED <<shelf, owned, records, crossed>>

(* A constraint refuses an INSERT, the file or the source is unreadable,   *)
(* the worker shuts down: the transaction is rolled back.                  *)
Fails(r) ==
    /\ work[r] # Idle
    /\ Become(r, Idle)

-----------------------------------------------------------------------------
(* import_rows.                                                            *)
Upload(r, f) ==
    /\ work[r] = Idle
    /\ work' = [work EXCEPT ![r] =
           [at |-> "rows", file |-> f, next |-> 1, created |-> [b \in BookIds |-> 0]]]
    /\ crossed' = (crossed \/ \E s \in Requests : Uploading(s))
    /\ UNCHANGED <<rows, shelf, owned, records>>

(* Mutant of OnShelf: the rows before this one are not flushed.            *)
OnShelfAtStart(r, b) == b \in owned \/ shelf[b] > 0

(* find_existing_status.                                                   *)
OnShelf(r, b) == b \in owned \/ shelf[b] > 0 \/ work[r].created[b] > 0

(* _process_import_row: a row whose ISBN is unknown is skipped (title and  *)
(* author alone find nothing), one whose book is on the shelf is counted.  *)
ProcessRow(r) ==
    LET w == work[r]
        new == {b \in BookIds : Isbn(w.file[w.next], b) \in rows /\ ~OnShelf(r, b)}
    IN  /\ w.at = "rows"
        /\ w.next <= Len(w.file)
        /\ Become(r, [at |-> "rows", file |-> w.file, next |-> w.next + 1,
                      created |-> [b \in BookIds |->
                          IF b \in new THEN w.created[b] + 1 ELSE w.created[b]]])

(* create_import_record, and the commit at the end of the request.         *)
FinishUpload(r) ==
    LET w == work[r]
    IN  /\ w.at = "rows"
        /\ w.next > Len(w.file)
        /\ \A b \in BookIds : shelf[b] + w.created[b] <= MaxCount
        /\ shelf' = [b \in BookIds |-> shelf[b] + w.created[b]]
        /\ records' = records \cup {w.file}
        /\ work' = [work EXCEPT ![r] = Idle]
        /\ UNCHANGED <<rows, owned, crossed>>

-----------------------------------------------------------------------------
(* Books that rows of open transactions refer to: their rows are locked.   *)
Referred ==
    {x.book : x \in {y \in Added(Requests) : y.row \in {"link", "isbn"}}}
    \cup {b \in BookIds : \E r \in Requests : Uploading(r) /\ work[r].created[b] > 0}

(* delete_book, with its releases, their codes, and its links.             *)
DeleteBook(b) ==
    /\ b \in BooksIn(rows) \ Referred
    /\ b \notin owned
    /\ shelf[b] = 0
    /\ rows' = {x \in rows : x.row = "person" \/ x.book # b}
    /\ UNCHANGED <<shelf, owned, records, work, crossed>>

(* create_status and delete_status by the user.                            *)
Own(b) ==
    /\ b \in BooksIn(rows) \ owned
    /\ owned' = owned \cup {b}
    /\ UNCHANGED <<rows, shelf, records, work, crossed>>

Drop(b) ==
    /\ \/ b \in owned /\ owned' = owned \ {b} /\ UNCHANGED shelf
       \/ shelf[b] > 0 /\ shelf' = [shelf EXCEPT ![b] = @ - 1] /\ UNCHANGED owned
    /\ UNCHANGED <<rows, records, work, crossed>>

-----------------------------------------------------------------------------
Init ==
    /\ rows = {}
    /\ shelf = [b \in BookIds |-> 0]
    /\ owned = {}
    /\ records = {}
    /\ work = [r \in Requests |-> Idle]
    /\ crossed = FALSE

Next ==
    \/ \E r \in Requests :
           \/ \E d \in Details :
                  \/ \E job \in BOOLEAN : Begin(r, d, job)
                  \/ NextHit(r, d)
           \/ AddContributors(r)
           \/ \E b \in BookIds : ResolveBook(r, b)
           \/ WriteBook(r)
           \/ Search(r)
           \/ Finish(r)
           \/ \E f \in Files : Upload(r, f)
           \/ ProcessRow(r)
           \/ FinishUpload(r)
           \/ Fails(r)
    \/ \E b \in BookIds : DeleteBook(b) \/ Own(b) \/ Drop(b)

Spec == Init /\ [][Next]_vars

-----------------------------------------------------------------------------
TypeOK ==
    /\ rows \subseteq Rows
    /\ shelf \in [BookIds -> 0 .. MaxCount]
    /\ owned \subseteq BookIds
    /\ records \subseteq Files
    /\ work \in [Requests -> Work \cup {Idle}]
    /\ crossed \in BOOLEAN

(* However requests and jobs overlap, fail or run again, no book is left   *)
(* half imported, without one of its codes or links, and no two were made  *)
(* of editions that share a code.                                          *)
ImportedOnce ==
    \A x \in {y \in rows : y.row = "book"} :
        /\ \A c \in CodesOf(x.from) : Isbn(c, x.book) \in rows
        /\ \A p \in x.from.people : {Link(x.book, p), Person(p)} \subseteq rows
        /\ \A y \in rows :
               y.row = "book" /\ CodesOf(y.from) \cap CodesOf(x.from) # {} => y.book = x.book

(* A book is imported to the shelf once, though the file names it twice,   *)
(* or is uploaded again, unless two uploads overlap.                       *)
RowsOnce == crossed \/ \A b \in BookIds : shelf[b] <= 1
=============================================================================
