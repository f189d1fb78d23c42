------------------------------- MODULE Catalog --------------------------------
(***************************************************************************)
(* Books and the rows that refer to them: BookService over BookRepository, *)
(* with the requests that create and delete releases, credits, reviews,    *)
(* statuses, collection items and chat messages, where the API has them.   *)
(*                                                                         *)
(* Merging a book into another is one transaction of many statements at    *)
(* READ COMMITTED: each sees what has been committed by then, locks the    *)
(* rows it changes until the end, and waits for rows another transaction   *)
(* has locked.  Everything else here is one statement and its commit.      *)
(***************************************************************************)
EXTENDS Integers, Sequences

CONSTANTS Books,     \* primary keys of books
          Users,     \* users who write reviews
          RowIds,    \* primary keys of the rows that refer to books
          Kinds,     \* the kinds of those rows in use
          Requests   \* concurrent HTTP requests that merge

VARIABLES books,      \* the books there are
          refs,       \* those rows: a function on the keys in use
          merges,     \* the transaction of each request
          disturbed   \* history: requests that began beside another
                      \* transaction, or have seen another commit since

vars == <<books, refs, merges, disturbed>>

(* message: attachment_book_id of a chat message.  credit: book_contributors. *)
AllKinds == {"release", "credit", "review", "status", "item", "message"}

(* user: whose review it is, {} for anybody's other row and a review whose *)
(* author is forgotten.                                                    *)
Row == [kind : Kinds, book : Books, user : {{}} \cup {{u} : u \in Users}]

(* The statements of merge, in order: it moves the rows of four kinds, but *)
(* first drops the reviews that would be second ones.                      *)
Statements == <<"release", "duplicates", "review", "status", "item", "source", "commit">>

Idle == [at |-> 0]

(* seen: the rows on the source when the merge began, for MergeKeepsAll.   *)
Work == [at : 1 .. Len(Statements), source : Books, target : Books,
         moved : SUBSET RowIds, dropped : SUBSET RowIds, seen : SUBSET RowIds]

Merging(r) == merges[r].at > 0

At(r, statement) == Merging(r) /\ Statements[merges[r].at] = statement

On(b) == {i \in DOMAIN refs : refs[i].book = b}

OfKind(k) == {i \in DOMAIN refs : refs[i].kind = k}

ReviewsOf(u, b) == {i \in On(b) \cap OfKind("review") : refs[i].user = u /\ u # {}}

(* What the transactions of R hold: rows, the target of a row that was     *)
(* moved, the source once it is deleted.                                   *)
Open(R) == {r \in R : Merging(r)}
Locked(R) == UNION {merges[r].moved \cup merges[r].dropped : r \in Open(R)}
Shared(R) == {merges[r].target : r \in {s \in Open(R) : merges[s].moved # {}}}
Deleted(R) == {merges[r].source : r \in {s \in Open(R) : At(s, "commit")}}

(* Users whose reviews they have moved to b, and not yet committed.        *)
Arriving(R, b) ==
    UNION {{refs[i].user : i \in merges[r].moved \cap OfKind("review")} :
           r \in {s \in Open(R) : merges[s].target = b}}

Others(r) == Requests \ {r}

(* A review of the user can be put on the book: uq_review_user_book.       *)
Unreviewed(u, b, dropped) ==
    /\ ReviewsOf(u, b) \subseteq dropped
    /\ u = {} \/ u \notin Arriving(Requests, b)

-----------------------------------------------------------------------------
(* The first reads of merge; merging a book into itself is a 409.          *)
MergeBooks(r, source, target) ==
    /\ ~Merging(r)
    /\ source # target
    /\ {source, target} \subseteq books
    /\ merges' = [merges EXCEPT ![r] =
           [at |-> 1, source |-> source, target |-> target,
            moved |-> {}, dropped |-> {}, seen |-> On(source)]]
    /\ disturbed' = IF Open(Requests) = {} THEN disturbed \ {r}
                    ELSE disturbed \cup Open(Requests) \cup {r}
    /\ UNCHANGED <<books, refs>>

(* Rows of the kind that the merge finds on its source.                    *)
Remaining(r, k) == (On(merges[r].source) \cap OfKind(k)) \ (merges[r].moved \cup merges[r].dropped)

Step(r, w) ==
    /\ merges' = [merges EXCEPT ![r] = [w EXCEPT !.at = @ + 1]]
    /\ UNCHANGED <<books, refs, disturbed>>

(* The unique constraint refuses to move these reviews.                    *)
Clashing(r) ==
    LET w == merges[r]
    IN  {i \in Remaining(r, "review") : ~Unreviewed(refs[i].user, w.target, w.dropped)}

(* UPDATE .. SET book_id = target WHERE book_id = source.                  *)
MoveRows(r, k) ==
    LET w == merges[r]
        hits == Remaining(r, k)
    IN  /\ At(r, k)
        /\ hits \cap Locked(Others(r)) = {}
        /\ hits # {} => w.target \in books \ Deleted(Others(r))
        /\ k = "review" => Clashing(r) = {}
        /\ Step(r, [w EXCEPT !.moved = @ \cup hits])

(* Mutants of Duplicates: reviews are just moved; all of them are dropped. *)
NoDuplicates(r) == {}
EveryReview(r) == Remaining(r, "review")

(* Reviews of users who have reviewed the target too.                      *)
Duplicates(r) ==
    {i \in Remaining(r, "review") : ReviewsOf(refs[i].user, merges[r].target) # {}}

DropDuplicates(r) ==
    LET w == merges[r]
    IN  /\ At(r, "duplicates")
        /\ Duplicates(r) \cap Locked(Others(r)) = {}
        /\ Step(r, [w EXCEPT !.dropped = @ \cup Duplicates(r)])

(* What session.delete(source) deletes with it: the releases it loads, and *)
(* the credits.                                                            *)
Cascade(r) == Remaining(r, "release") \cup Remaining(r, "credit")

(* Rows that still refer to the source then.                               *)
LeftBehind(r) == (UNION {Remaining(r, k) : k \in AllKinds}) \ Cascade(r)

(* A source that is gone by now is no error.                               *)
DeleteSource(r) ==
    LET w == merges[r]
    IN  /\ At(r, "source")
        /\ Cascade(r) \cap Locked(Others(r)) = {}
        /\ LeftBehind(r) = {}
        /\ w.source \notin Shared(Others(r)) \cup Deleted(Others(r))
        /\ Step(r, [w EXCEPT !.dropped = @ \cup Cascade(r)])

(* Every open merge has seen another's commit.                             *)
Committed(R) == disturbed' = disturbed \cup Open(R)

CommitMerge(r) ==
    LET w == merges[r]
    IN  /\ At(r, "commit")
        /\ books' = books \ {w.source}
        /\ refs' = [i \in DOMAIN refs \ w.dropped |->
               IF i \in w.moved THEN [refs[i] EXCEPT !.book = w.target] ELSE refs[i]]
        /\ merges' = [merges EXCEPT ![r] = Idle]
        /\ Committed(Others(r))

(* A constraint refuses a statement, two merges lock each other out, or    *)
(* the request dies: the transaction is rolled back.                       *)
Fails(r) ==
    /\ Merging(r)
    /\ merges' = [merges EXCEPT ![r] = Idle]
    /\ UNCHANGED <<books, refs, disturbed>>

-----------------------------------------------------------------------------
CreateBook(b) ==
    /\ b \notin books
    /\ \A r \in Open(Requests) : b \notin {merges[r].source, merges[r].target}
    /\ books' = books \cup {b}
    /\ Committed(Requests)
    /\ UNCHANGED <<refs, merges>>

(* delete_book: releases and credits go with it, other rows forbid it.     *)
DeleteBook(b) ==
    /\ b \in books \ (Shared(Requests) \cup Deleted(Requests))
    /\ On(b) \subseteq OfKind("release") \cup OfKind("credit")
    /\ On(b) \cap Locked(Requests) = {}
    /\ books' = books \ {b}
    /\ refs' = [i \in DOMAIN refs \ On(b) |-> refs[i]]
    /\ Committed(Requests)
    /\ UNCHANGED merges

(* An INSERT that refers to the book, whatever has been checked before.    *)
Refer(i, k, b, u) ==
    /\ k \in Kinds
    /\ i \notin DOMAIN refs \cup Locked(Requests)
    /\ \A r \in Open(Requests) : i \notin merges[r].seen
    /\ b \in books \ Deleted(Requests)
    /\ refs' = [j \in DOMAIN refs \cup {i} |->
           IF j = i THEN [kind |-> k, book |-> b, user |-> u] ELSE refs[j]]
    /\ Committed(Requests)
    /\ UNCHANGED <<books, merges>>

CreateRelease(i, b) == Refer(i, "release", b, {})

AddContributor(i, b) == Refer(i, "credit", b, {})

(* A second review of the user's is a 409.                                 *)
CreateReview(i, b, v) == Unreviewed({v}, b, {}) /\ Refer(i, "review", b, {v})

CreateStatus(i, b) == Refer(i, "status", b, {})

AddItem(i, b) == Refer(i, "item", b, {})

(* send_message, with the book attached.                                   *)
SendMessage(i, b) == Refer(i, "message", b, {})

(* The DELETE of a row that no merge has changed.                          *)
Remove(i, k) ==
    /\ i \in OfKind(k) \ Locked(Requests)
    /\ refs' = [j \in DOMAIN refs \ {i} |-> refs[j]]
    /\ Committed(Requests)
    /\ UNCHANGED <<books, merges>>

RemoveContributor(i) == Remove(i, "credit")

DeleteReview(i) == Remove(i, "review")

DeleteStatus(i) == Remove(i, "status")

RemoveItem(i) == Remove(i, "item")

(* The purge of a user's account leaves the reviews, without their author. *)
ForgetAuthor(u) ==
    LET written == {i \in OfKind("review") : refs[i].user = {u}}
    IN  /\ written # {}
        /\ written \cap Locked(Requests) = {}
        /\ refs' = [i \in DOMAIN refs |->
               IF i \in written THEN [refs[i] EXCEPT !.user = {}] ELSE refs[i]]
        /\ Committed(Requests)
        /\ UNCHANGED <<books, merges>>

-----------------------------------------------------------------------------
Init ==
    /\ books = {}
    /\ refs = << >>
    /\ merges = [r \in Requests |-> Idle]
    /\ disturbed = {}

Statement(r) ==
    \/ \E k \in {"release", "review", "status", "item"} : MoveRows(r, k)
    \/ DropDuplicates(r)
    \/ DeleteSource(r)
    \/ CommitMerge(r)
    \/ Fails(r)

Next ==
    \/ \E r \in Requests :
           \/ \E source, target \in Books : MergeBooks(r, source, target)
           \/ Statement(r)
    \/ \E b \in Books : CreateBook(b) \/ DeleteBook(b)
    \/ \E i \in RowIds, b \in Books :
           \/ CreateRelease(i, b)
           \/ AddContributor(i, b)
           \/ \E u \in Users : CreateReview(i, b, u)
           \/ CreateStatus(i, b)
           \/ AddItem(i, b)
           \/ SendMessage(i, b)
    \/ \E i \in RowIds :
           \/ RemoveContributor(i) \/ DeleteReview(i) \/ DeleteStatus(i) \/ RemoveItem(i)
    \/ \E u \in Users : ForgetAuthor(u)

Spec == Init /\ [][Next]_vars

-----------------------------------------------------------------------------
(* A row refers to a book there is.                                        *)
TypeOK ==
    /\ books \subseteq Books
    /\ DOMAIN refs \subseteq RowIds
    /\ refs \in [DOMAIN refs -> [kind : Kinds, book : books, user : {{}} \cup {{u} : u \in Users}]]
    /\ merges \in [Requests -> Work \cup {Idle}]
    /\ disturbed \subseteq Requests

(* A merge loses nothing of what was on its source, as it is committed and *)
(* whatever other calls have done since it began, except the credits, the  *)
(* releases that came while it ran (the cascade of the last statement      *)
(* deletes both), and the reviews of users who keep one of the target, or  *)
(* had one before another call took it away.                               *)
MergeKeepsAllStep ==
    \A r \in Requests : At(r, "commit") /\ books' # books /\ merges'[r] = Idle =>
        LET w == merges[r]
        IN  \A i \in On(w.source) :
                \/ i \in DOMAIN refs' /\ refs'[i] = [refs[i] EXCEPT !.book = w.target]
                \/ refs[i].kind = "credit"
                \/ refs[i].kind = "release" /\ i \notin w.seen
                \/ refs[i].kind = "review" /\ i \in w.dropped /\ r \in disturbed
                \/ /\ refs[i].kind = "review"
                   /\ \E j \in DOMAIN refs' :
                          /\ refs'[j].kind = "review"
                          /\ refs'[j].user = refs[i].user
                          /\ refs'[j].book = w.target

MergeKeepsAll == [][MergeKeepsAllStep]_vars

(* A merge that no other transaction disturbs is not refused by a          *)
(* constraint, unless a message has the source attached.                   *)
MergeGoesThrough ==
    \A r \in Requests \ disturbed :
        /\ At(r, "review") => Clashing(r) = {}
        /\ At(r, "source") => LeftBehind(r) \subseteq OfKind("message")

(* "Reassign everything pointing at source_id to target_id, then delete    *)
(* the source book" (merge's docstring): nothing of an undisturbed merge's *)
(* source is in the way of deleting it.                                    *)
EverythingReassigned ==
    \A r \in Requests \ disturbed : At(r, "source") => LeftBehind(r) = {}
=============================================================================
