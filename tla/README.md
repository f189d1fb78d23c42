# Bookworm Hole API: a TLA+ verification project

Bookworm Hole is a FastAPI service over PostgreSQL: a shared catalog of books
and releases, the users' shelves, collections and reading sessions, friends and
chat, and the background jobs that import, refresh and purge. This directory
holds TLA+ models of the parts of it in which steps of several actors, or a
crash between two commits, decide whether the service is correct; TLC checks
them on small instances, and the TLA+ proof system proves the main results for
every size.

    tlc -config MCFriendshipSerial.cfg MCFriendship      # one run
    tlapm FriendshipProofs.tla                           # one module of proofs

Everything below `src/` is the reference. Paths in this file are relative to it.

## 1. How the program runs, and what that makes hard

Every HTTP request is a coroutine with a database session of its own
(`app/core/db.py`: `expire_on_commit=False`, `autoflush=False`). A router builds
a service over repositories; the service reads rows, decides on the copies it
holds, and each mutating repository method **commits by itself**. There is no
row lock, no version column and no `SELECT FOR UPDATE` anywhere, and PostgreSQL
runs in its default READ COMMITTED level. So:

* **Check then act.** Every guard is evaluated on a copy; another request can
  commit before the guarded edit does.
* **Partial UPDATEs.** The ORM sends only the columns with a net change against
  the loaded copy. Two overlapping edits of a row leave a *mixture*.
* **Several commits per operation.** A service method that calls two mutating
  repository methods is two transactions. A crash, a cancelled request or an
  exception between them leaves the first one in place.
* **One long transaction.** Merging books, replacing a library by a backup and
  importing are the exceptions: many statements and one commit. At READ COMMITTED
  each of those statements sees what others have committed by then.
* **Background work.** `scripts/purge_deleted_users.py`, the script that refreshes
  releases and the arq worker act beside the requests; nothing keeps two runs of
  a script apart, and only the API's process registers the version listeners.

The semantics of that layer, which is third-party code, is stated once in
`UnitOfWork.tla` and is an assumption of everything else:

| assumption | where it is used |
|---|---|
| an UPDATE names only the net-changed columns | `Flushed` |
| an UPDATE that matches no row raises `StaleDataError` and the transaction rolls back | `StaleUpdate` |
| a DELETE by key that matches no row is only a warning | `Written`, `DeleteUser` |
| no UPDATE is sent for a copy without net change | `Emits` |
| unique and foreign keys are checked at commit | `Conflicts`, `Referenced`, `Attached`, `UniqueThread`, `Taken` |
| a statement locks the rows it changes until its transaction ends; another's statement on them waits | `Locked`, `Shared`, `Deleted`, `Arriving` |
| a DELETE or UPDATE by condition works on what is committed when it starts | `StartDelete`, `Remaining` |
| the flush of a mapped row runs its listeners on the same connection | `FlushUpdate`, `CommitUpdate` |
| `rollback()` expires loaded instances, and a lazy load outside the async context raises `MissingGreenlet` | `PurgeFails` |
| `uuid4` keys are never reused | `FreshIds`, `Create` |

## 2. Inventory

| component | state | operations | what is hard | correct when | here |
|---|---|---|---|---|---|
| Sessions, transactions (`app/core/db.py`) | connection pool, identity map | begin, flush, commit, roll back | stale copies, mixed updates | see above | `UnitOfWork` |
| Friendships (`friendship_service.py`) | one row per ordered pair: requester, addressee, status | send request, accept, decline, unfriend, block, unblock | requests in both directions at once; block against anything | one relation per pair; friends only by consent; a block ends by its maker | `Friendship`, `FriendGraph` |
| Contributions (`contribution_service.py`) | owner, payload, status, reviewer, notes | create, update, submit, delete, claim, approve, reject | two-commit claim and reject; author and reviewers overlap | no decision without reviewer and notes; no way back; what is reviewed is what was submitted | `Contribution` |
| Account deletion (`account_deletion_service.py`, `purge_deleted_users.py`) | `deletion_scheduled_at`, every foreign key to users | schedule, cancel, purge | a job over a list read once; two commits per user; killed or overlapping runs; foreign keys | only due accounts go; others lose nothing; everyone due is erased at last | `AccountDeletion` |
| Chat (`chat_service.py`, `share_service.py`) | threads, messages, read marks | start, send, share, read, list | first message of both sides; friendship checked in another transaction; two or three commits | messages only between friends; one thread per pair; `last_message_at` is the newest message's | `Chat` |
| WebSockets (`websocket_manager.py`) | user -> live sockets, heartbeat tasks | connect, disconnect, broadcast, heartbeat, shutdown | awaits inside loops over live collections | a message reaches every live socket | no, see *Not modelled* |
| Collections (`collection_service.py`) | items with positions | add, remove, reorder, edit notes | max+1 read before an insert; whole-list rewrites; positions set by hand | items that nobody raced on have distinct positions; a reorder that ran alone leaves the order asked for | `Collections` |
| Statuses and reading sessions (`book_status_service.py`, `reading_session_service.py`) | status, borrower; started/ended | lend, return, set status; start, stop, edit | lend against return; two starts | lent exactly when there is a borrower; at most one open session | `Statuses`, `ReadingSessions` |
| Authentication (`auth_service.py`, `user_service.py`) | refresh and reset tokens, password | register, login, refresh, logout, reset, change | one token used twice; two-commit refresh and reset | a login has one good token at most; what is logged out stays so; a reset token is used once | `Accounts` |
| Users and profiles | profile, flags | edit, activate, promote | edits from stale copies of one row | edits of different columns keep each other | `Accounts`, `AccountDeletion` |
| Catalog (`book_service.py`, `release_service.py`, `contributor_service.py`) | books, releases, contributors | create, edit, delete, merge | merge moves children in several statements | a merge loses nothing and is not refused | `Catalog`, `EntityVersions` |
| Entity versions (`entity_version_listeners.py`) | numbered snapshots | record on flush, list | a greatest number plus one; snapshots of stale copies; processes without listeners | numbers in order; the last version is the row | `EntityVersions` |
| Reviews (`review_service.py`) | one per user and target | create, edit, delete, moderate | check then insert; merges | at most one per user and target, also after a merge | `Catalog` |
| Imports, worker (`import_service.py`, `catalog_import_service.py`, `worker/`) | catalog rows, import records, statuses | import a book, run a job, upload a file | look up, then insert; jobs run again | no book twice or by half; no shelf row twice | `Imports` |
| External sources, refresh (`external_search_service.py`, `refresh_metadata_service.py`) | cached answers, releases | search, refresh metadata | a stale copy written after a slow answer | a refresh keeps what users filled in | `EntityVersions`, `Imports` |
| Google, backups (`google_integration_service.py`, `backup_service.py`, `backup_restore_service.py`) | integration row, backup records | connect, refresh, revoke, back up, restore | refresh against revoke; half a restore | tokens of the last consent; a merge idempotent, a replacement whole | `GoogleBackup`, `Restore` |
| Statistics, exports, listings | none (reads) | - | - | - | no |
| ISBN | none | normalise | pure function | - | no; its effect is an input of `Imports` |
| Audit log | a table nobody writes | list | - | - | no |
| Moderation rules, AI provider | none | - | - | - | no |
| Infrastructure, migrations, seeds | configuration | - | - | - | no; constraints appear where they matter |

How they interact: friendships gate chat and the friend library; the purge
touches every table that names a user; contributions, when merged, are applied
to the catalog by hand (the service only sets the status); merging a book moves
reviews, statuses, collection items and releases; statuses and reading sessions
refer to releases; imports and refreshes write the catalog that requests edit.
All of these interactions are foreign keys and reads inside one database; the
only in-memory state shared by requests is the WebSocket manager's registry,
which stays empty.

`PROJECT.json` lists each hazard with its line, and the properties that cover
it or why none does.

## 3. The modules and the code

**`UnitOfWork`** - `Flushed`, `Written`, `StaleUpdate`: what a commit makes of a
row another request may have changed since it was read.

**`Friendship`** - `friendship_service.py` with its repository. Every operation
is two steps. The first (`SendFirstRequest`, `SendMutualRequest`,
`SendRequestAgain`, `Accept`, `Decline`, `Unfriend`, `Block`, `Unblock`) is the
read with all guards that reject the call, and puts into `inflight[r]` what the
request is going to commit. The second is the repository's `Save` or `Delete`
(`SaveFails` when the row is gone or the unique key is taken). `calls` is a
history variable: who ever asked or blocked whom. Rows that `get_between` may
return when a pair has two are chosen nondeterministically, as `.first()`
without an order does.

**`FriendGraph`** - the abstract specification: one relation per pair, and the
edges along which it may change. `Relation`, in `Friendship`, is the mapping: the
row of a pair, or none, as a relation.

**`Contribution`** - `contribution_service.py` with its repository. A call is a
read, then `Commit` or `CommitDelete`; `claim` and `reject` go on with `Refresh`
(the repository's `session.refresh`) and a second `Commit`, without checking
the status again. `Interrupted` ends a call anywhere. `raced` is a history
variable: the rows on which two calls have overlapped. Row ids may be used again
in the model after a row is gone (nothing in flight may name them), which only
keeps `Ids` small.

**`AccountDeletion`** - the two endpoints, the purge job, and what every other
handler does to references to users: of each row only its table, its owner and
the other user it names are kept, because that is what foreign keys, and so the
purge, depend on. `PurgeUserData` and `DeleteUser` are the two commits;
`PurgeFails` an `IntegrityError` in either, with what the handler's own log
message then does; `Crash` a killed process. `late` is a history variable: users
who rescheduled or cancelled after a running job had listed them.

**`Collections`** - `collection_service.py` with its repository, for one
collection. A call is its reads (`_get_owned`, the highest position, the set of
ids) and then one commit; a reorder reads twice, and `LoadItems` is its second
read. SQLAlchemy writes only the columns a request changed, so `CommitReorder`
updates the items whose position moves, and `CommitEdit` writes a position only
if the PATCH changes the one it read. Two history variables: `raced`, the
requests whose writing of positions overlapped another's, and `muddled`, that
such a request, or a position set by hand, has been committed since the last
reorder that ran alone.

**`Accounts`** - `auth_service.py`, `user_service.py` and
`email_verification_service.py` with the user and token repositories. A call is
its reads with their guards, then one or two commits: a registration and a
refresh go on to `CommitToken`, a password reset to `CommitUsed`. Accounts are
named by their e-mail and username, so the two unique columns are `~Exists`;
`Flags` are the columns other than the password, each edited by itself. `Erase`
is the purge as the tokens see it (`ondelete="CASCADE"`). `Expire` lets any token
that is still good run out at any time. Access tokens and verification links
are signed and stored nowhere, so they add no state: a call is made for whom it
is made. `reset_password_with_token` is modelled as the service has it, although
no router calls it yet. History variables say which token a login began with
(`login`), how often a reset token set the password (`resets`), what the edits
committed so far asked for (`asked`), and on what two calls overlapped
(`shared`, `upset`, `raced`, `crossed`).

**`Statuses`** - `book_status_service.py` with its repository. A call reads the
status and remembers which columns its UPDATE will name (`Emitted`: those with a
net change, and `returned_at`, which always differs); `CommitUpdate` applies just
those to the row as it is by then. The PATCH may set any kind by hand, without a
borrower. `handmade` and `crossed` are history variables, for what `LentToOne`
has to except.

**`ReadingSessions`** - the table and the calls of
`reading_session_service.py`. `Taken` is the partial unique index that backs up
the check in `start_session`; the effect of an edit is what it changes against
the copy (`NetEffect`), so a PATCH that clears an `ended_at` which the copy did
not have sends nothing.

**`Chat`** - `chat_service.py` and `share_service.py` with the chat repository.
`friends` stands for what `Friendship` decides; `Befriend` and `Part` may happen
between any two steps. Starting a thread is a read and a commit (`EndThread`, or
`KeepThread` in a share, which goes on with `Share`); sending is a read and two
commits; reading marks the ids that were found. `ended` and `behind` are history
variables.

**`Restore`** - `backup_restore_service.py` with its repository. A merge looks up
and commits entry by entry. A replacement is one transaction: each DELETE is two
steps, `StartDelete` (the rows it finds) and `FinishDelete` (which waits while
another transaction holds one of them), and `CommitReplace` stands for the
inserts and the commit. The user creates and deletes rows meanwhile.

**`GoogleBackup`** - `google_integration_service.py`, its repository and
`backup_service.py`. Every call reads the row, waits for Google and then
commits; tokens are named by the consent they come from. Google refuses what is
revoked, and `Withdraw` and `Expire` happen at any time.

**`Catalog`** - `book_service.py` with `BookRepository.merge`, and the handlers
that insert or delete rows which refer to a book. The merge goes through its
`Statements` in order, each of which sees what is committed by then, waits for
rows held by other merges and is refused by a constraint as PostgreSQL would.
`disturbed` is a history variable: merges beside which anything was committed.

**`EntityVersions`** - the edits of books, releases and
contributors, `entity_version_listeners.py`, and `refresh_metadata_service.py`.
An edit is read, flushed (the UPDATE takes the row lock, then the version is
numbered) and committed. A refresh is an edit of what the source fills in
(`Filled`), flushed without a version, as the script's process registers no
listeners; `missed` remembers rows made or refreshed that way. `stale` marks
copies that another commit has outdated.

**`Imports`** - `import_book`, the worker's job and `import_rows`: one
transaction per request, statement by statement, with the unique keys on people,
links and ISBNs, a commit inside each search of a job, and the duplicate checks
of an upload.

`MCFriendship`, `MCFriendshipBlocks`, `MCContribution`, `MCAccountDeletion`,
`MCCollections` and `MCAccounts` instantiate these for TLC. `MemberData` composes
`Chat`, `Statuses`, `ReadingSessions`, `Restore` and `GoogleBackup`, and
`CatalogData` composes `EntityVersions`, `Catalog` and `Imports`; `MCMembers` and
`MCCatalog` instantiate these two. A composition is a module apart from the
values TLC needs, so that the runs and the proofs name the same properties. In `PROJECT.json`
an `Init` is mapped to the migration that creates the tables it leaves empty, and
a set of rows to the mapper class. A definition commented as a *mutant* is no part of a
model: it is a plausible mistake in the definition after it, kept to show that
the property named in `PROJECT.json` would notice.

## 4. The runs

| run | instance | shows |
|---|---|---|
| `friendship_serial` | 3 users, 2 rows, 1 request | without overlap: one row per pair, friendship by consent, and the service implements `FriendGraph` |
| `friendship_overlap` | 3 users, 2 rows, 2 requests, at most 4 kinds of call | under any overlap: nobody becomes a party who never acted, and only a row's own two users change it |
| `friendship_blocks` | 2 users, 2 rows, 1 request | **violated**: a blocked user can lift the block against themselves |
| `contribution` | 2 authors, 2 reviewers, 2 payloads, 1 row, 3 overlapping calls | a claimed or decided contribution always has its reviewer and notes, never becomes a draft again, and follows the lifecycle if no two calls overlapped on it |
| `contribution_frozen` | the same, 2 calls | **violated**: an edit can land after the submission |
| `account_deletion` | 2 users, 1 row, 2 runs, 2 upsets | only due accounts are erased, others are spared, and everyone due is erased at last |
| `account_deletion_aborts` | the same | **violated**: one user that cannot be deleted ends the run |
| `collections` | 3 items, 2 requests, positions 0 to 3 | positions stay distinct and in order while nobody races on them or sets one by hand, whatever else overlaps; a reorder that ran alone restores both |
| `accounts` | 1 account, 2 passwords, 1 flag, 2 refresh tokens, 1 reset token, 2 requests | a login has one good token at most unless two calls spent one at a time, and never comes back once it is over; a reset token works once; edits of different columns keep each other |
| `members` | 2 requests each on chat (2 users, 2 threads, 3 messages), lending (1 status, 2 users and 1 name to lend to), sessions (2, of 2 releases), restores (2 entries, 4 rows), Google (3 consents, 1 file) | one thread per pair, messages of friends only, the newest message on top and nothing left unread; a status is lent to one or none; one open session per release, and a stopped one stays so; a merging restore is idempotent, a replacing one whole; tokens are those of the last consent |
| `catalog` | 2 books, 2 rows of six kinds, 2 merges; 1 row with 2 values and 2 editors; imports of 4 descriptions and a file, 2 requests | a merge loses nothing and is refused only for a message or another's commit; versions are in order and current; a refresh keeps what it found; nothing is imported twice or by half |
| `merge_refused` | 2 books, 1 row, 1 merge | **violated**: a message that has the book attached stands in the way of an undisturbed merge |

### Bounds, and why they are enough

* *Friendship.* A row relates two users, so two rows are enough for the pair
  that has one row in each direction, or for two pairs that share a user; the
  third user is there to be confused with them. The serial run has no bound but
  the constants (`MaxCalls` is not used there). The overlapping run is cut by
  `FewCalls`: at most four *different* calls of asking or blocking, each as often
  as one likes, and any number of the others. With two users both directions of
  both calls fit.
* *Contribution.* No action relates two rows, so one row is enough; three calls
  give a pair that races and a third that comes in between. Two payloads and two
  reviewers are needed to tell a change from none.
* *Account deletion.* Purging a user treats every row by itself and by table
  kind, so one row at a time is enough for what a purge does to it, and
  `OneOfEachKind` has one table for each way the purge treats one. Two users
  are the purged one and another. `MaxUpsets` bounds together killed runs and
  new references to users: two are enough for a run that is killed and a write
  that slips in between the two commits of the next. The proofs have none of
  these bounds.

* *Collections.* Two requests are enough for any pair of calls to overlap, and
  a third only repeats that; three items are the least for which an order can
  be changed without being reversed. `MaxPosition` bounds what may be given to
  a new item or set by hand: with 3 a removal leaves a gap and the next item
  is still added behind it. The bound cuts off adding beyond it, and nothing
  else depends on it.

* *Accounts.* No action relates two accounts, so one is enough, and the two
  columns there are make an edit of one overlap an edit of the other. Two
  refresh tokens are a token and its successor, or two rivals for its place;
  the successor of either is again the successor of a token. Two requests
  overlap in every way a pair can. Ids of refresh tokens are not used twice,
  which ends the logins of a behaviour after two tokens, never its other calls;
  the proofs have any number of all of these. `OneKind` lets a behaviour have
  refresh tokens or reset tokens, not both: no call touches both kinds.

* *Members, catalog.* In both a behaviour moves one part while the others are
  where they began. The parts of an instance share no row, so a behaviour of all
  at once is an interleaving of behaviours of each, and a property of one part
  sees nothing of the others. Two requests are enough for any pair of calls to
  overlap. Three messages are the least for which two that overlap are followed
  by one that does not; two threads let a pair try for a second one. A restore
  has one entry the database keeps unique and one it does not; four rows are a
  backup written twice. A connection, a reconnection and a refresh that
  straddles them need three consents. Two books and two rows are a source and
  its target with a review on each by one user. For versions one row is enough,
  as no action relates two; a row that the worker made has no version yet, and
  `MaxVersions` lets two more edits of it overlap with a refresh between. The
  four descriptions of books are two editions, another book that shares a code,
  and one whose two ISBNs are the same code; `MaxCount` lets the shelf show a
  second row if there is one.

Deadlock is checked in every run except `contribution`, `members` and `catalog`:
a merged or rejected contribution is final, and in the other two a part comes to
rest when its bounded messages, rows, consents or versions are used up.

### Fairness

Only `AccountDeletion` has any: weak fairness of each purge process, because
the script is started by a scheduler again and again and a started process
takes its steps. Users, their writes and crashes are not fair; neither are
the HTTP requests of the other modules, whose properties are all safety.
`DueIsPurged` assumes that nobody ever chatted or imported (`NothingUnhandled`):
`purge_user_data` handles neither, so such accounts are never erased, which is
the reason for the third finding below.

## 5. What is proved

Each proof module proves an inductive invariant `IInv` (`Init => IInv`, one
lemma per kind of step, `IInv` implies the property), for any sets of users,
rows and requests. The two modules about compositions have one for each part;
their theorems are about the specification of the part, and `EachPart` says that
a behaviour of the composition (`AllSpec`, what the run checks) is one of each.

* **`FriendshipProofs`.** `Involved` is not inductive: a request may commit a
  stale copy. `IInv` adds what is true of a request in flight (`Underway`): its
  copy is perhaps stale in every column but relates the same two users as the
  row, its actor is one of them, its edited form is backed by the calls made,
  and a new row's key is its own. `FlushedRow` is the heart: an UPDATE from a copy
  that relates the same pair turns the row round completely or not at all.
  From `IInv`: `TypeCorrect`, `NobodyUninvolved`, `RowsBelongToTheirUsers`.
  For one request at a time a second, stronger invariant gives `SerialOneRow`
  and `SerialConsent`; with what a request may be about to commit (`Allowed`) it
  gives `SerialRefinement`, that the service implements `FriendGraph`: the row of
  a pair says how the two stand (`Standing`), and a commit changes the relation
  of its own pair only (`OnePairChanges`), along an edge (`SaveIsAnEdge`,
  `DeleteIsAnEdge`).
* **`ContributionProofs`.** `Underway` says that since a call read its copy the
  row has only *grown* (`Grew`: same owner, reviewer and notes not lost, not a
  draft again), and that the status it has yet to set is already accounted for.
  `FlushedGrew` shows that a stale commit of a copy that grew makes the row grow.
  From it `AlwaysAccountable`, `NeverADraftAgain`; a second invariant, for
  rows no two calls overlapped on, gives `UnracedLifecycle`.
* **`AccountDeletionProofs`.** `ListHolds`: everyone a run still has on its list,
  or is erasing, is past the grace period, gone, or late. From it `ErasesOnlyDue`
  and `PurgeSparesOthers`.

* **`CollectionsProofs`.** `DistinctPositions` is not inductive, because a
  request commits what it found earlier. `IInv` adds that two requests that
  write positions at one time have both raced, that what a request which has not
  raced found is still `Current` (a new item's position is behind all others, a
  reorder's list names every item that is left, and loaded it where it is), and
  that a new item's key is its own. From it `TypeCorrect`, `Distinct`,
  `Reordered` and `OrderKept`.

* **`AccountsProofs`.** Four parts that need only the types of each other.
  `Logins`: a login on which no two calls collided is one line, its good token,
  or the call that spends it, or the call about to issue the next, never two of
  these; and every token leads back to a login. `Resets`: a request
  that has set the password has counted it, and an unspoilt token that set it
  is used or about to be. `Edits`: a copy that nobody raced is right in the
  column it is going to change. From them `TypeCorrect`, `OneLive`,
  `OverForGood`, `ResetsOnce` and `LastWordStays`. That tokens survive no account
  is part of the types: the commit of a token needs its account, and `Erase`
  takes them along.

* **`MembersProofs`.** Of the members' parts but chat.
  * `SessionInv`: one open session is kept by the index at every commit;
    `StaysStopped` needs `SessionUnderway`, that a call which has read but not
    committed ends a session if it is a stop, and reopens it only if asked to.
    From it `OneOpenSession` and `Stopped`.
  * `ShelfInv`: `LentToOne` is a property of a whole row, but a commit writes only
    the columns the call found to differ. `ShelfPlanned` says that what a call
    *wants* is consistent, `ShelfCurrent` that the columns an uncrossed call will
    not send are in the row as it assumes (but for a borrower whose account has
    been deleted), and `ShelfApart` that of two calls on one status both are
    crossed. From it `LentToOneBorrower`.
  * `RestoreInv`: an undisturbed merge is the only restore and has a row for each
    entry it is past (`RestoreAlone`), which gives `MergesOnce`; of the rows there
    were when a replacement began, those of the tables it is past are deleted or
    to be deleted with it (`RestoreSwept`), which gives the action property
    `ReplacesAll`.
  * `GoogleInv`: the row and the calls hold tokens of consents there have been
    (`GoogleGranted`), and the copy of an uncrossed refresh has the refresh token
    of the row (`GoogleCurrent`). From it `LastConsent`.

  With the chat, `AllTypes` gives the types of all parts.

* **`CatalogProofs`.** Of the catalog's three parts.
  * `IInv`, of the versions. `Exclusive`: of the edits that have sent an UPDATE of
    a row one at most is open. With it `Above`, that the number such an edit has
    taken is above those recorded, gives `NumbersInOrder`; `Fresh`, that a copy
    nobody has outdated is the row, gives `LatestIsCurrent`; and `Respectful`,
    that a refresh writes what it found, gives the action property. From them
    `History` and `RefreshKeeps`. `Bounded` says that the numbers of an entity
    have a greatest one, which `Max` needs.
  * `MergeInv`: what a merge moves or drops are rows of its source, which it has
    locked (`MergeRows`); no two merges lock one row, and none moves rows to a
    book another has deleted (`MergesApart`); what was on the source goes nowhere
    else, and nothing is left on it in the end (`MergeComplete`). These give
    `KeepsAll`. An undisturbed merge is the only one, has dropped just the
    reviews of users who reviewed the target too, and each statement leaves none
    of its rows (`MergeAlone`), so no constraint is in its way: `GoesThrough`.
  * `ImportInv`: among all rows, committed or about to be, no two have one key
    (`KeysOnce`) and none is inserted twice (`AddedOnce`); a book is there with its
    codes and people, in the table and in what its import sees (`Whole`), because
    an import has found or is about to add each person (`PeopleThere`). From it
    `ImportsOnce`. `UploadInv`, that uploads which have not overlapped are one at
    most and create a status only where there is none, gives `OnShelfOnce`.

* **`ChatProofs`.** `WellKept`: threads name their users in order, a pair has one,
  and every message has its thread. One part for what a request is doing
  (`Creating`, `Sharing`, `SendingOwn`, `Marking`: it checked the friendship or
  is marked as `ended`, its message's number is its own, its thread exists, what
  it marks was unread) and one for each thread (`Placed`: unless it is `behind`,
  its last message is the newest but for one on its way). From them
  `OneThreadEach`, `FriendsOnly`, `NewestLast` and `Reading`.

Assumptions: the named `ASSUME`s of the modules, which TLC evaluates in the runs,
and nothing else. `Absent` and `None` are no values of the data; bounds are
natural numbers; user ids are ordered; the two kinds of tokens and the columns
have names of their own; the tables and kinds of rows are some of those the code
has; a backup is a sequence of entries, each of a table in the purge's order. The
serial theorems assume one request, in their statements.

Only model-checked: `DueIsPurged`, as liveness under fairness is out of the
prover's reach. Every other property of a passing run is stated by a theorem. The
four violated properties are counterexamples of TLC. What the proofs do not
replace is the runs' evidence that the interesting states are reached at all:
history variables such as `crossed` or `disturbed` except what other calls have
interfered with, and the mutants show that what is left can go wrong.

## 6. Findings

1. `friendship_blocks`: `block()` takes over whatever row stands between two
   users. A blocked user who blocks back and unblocks has removed the other's
   block, although a test says who did not block cannot unblock.
2. `contribution_frozen`: `update_contribution` checks for a draft and commits
   unconditionally; overlapping a submit it changes a submitted payload.
3. `account_deletion_aborts`: the handler that is to keep one bad row from
   aborting the purge itself fails, by reading an expired instance for its log
   message.

4. `merge_refused`: `merge` is to "reassign everything pointing at" its source,
   but leaves chat messages that have it attached, and the foreign key then
   refuses the DELETE with an error nothing handles.

Met while modelling, and claimed by no run:

* With overlapping requests `Consent` does not hold (a stale re-send turns a
  fresh block into a pending request of the blocker), and two first requests in
  opposite directions leave a pair with two rows; both are why the serial
  properties of friendships are stated serially.
* Versions are said to be recorded on every mutation
  (`app/models/entity_version.py:28`), but the worker and the refresh script run
  without the listeners: that is what `missed` excepts.
* A PATCH without a change is recorded without a lock, so its version may have
  the number of another and a snapshot that never was the row.
* A refresh that found a column blank overwrites what a user has filled in
  while the source was asked.
* A book whose ISBN-10 and ISBN-13 are one code cannot be imported: the second
  INSERT ends the import, and in a job the whole job.
* Two overlapping merging restores, or uploads of one file, put rows twice where
  no constraint forbids it.
* No WebSocket is ever registered, and nothing ever writes the audit log.

## 7. The plan, and what is left

Done: `UnitOfWork`, `Friendship` + `FriendGraph`, `Contribution`,
`AccountDeletion`, `Collections`, `Accounts`, `Statuses`, `ReadingSessions`,
`Chat`, `Restore`, `GoogleBackup`, `Catalog`, `EntityVersions`, `Imports`, with
their runs; proofs, in eight modules, of every safety property that a passing run
checks.

Worth doing next: an abstract specification for a second component beside
friendships (`Accounts` against a table of logins that are alive or over, or
`Collections` against a plain sequence), shown to be implemented as `FriendGraph`
is; and types of the catalog's parts as a property of their run.

### Not modelled

* *WebSockets.* The endpoint accepts a socket and `connect` accepts it again,
  which raises; no connection is ever registered. Broadcast, heartbeat and
  shutdown run on an empty registry, and a model of connections the program
  cannot have would show nothing about it.
* *Statistics, exports, listings, searches of the catalog.* They only read.
* *ISBN normalisation* is a third-party call on a string; *HTTP adapters*,
  parsing and caching of external answers are input of `Imports` and
  `EntityVersions`.
* *Audit log, moderation rules, AI provider*: a table nothing writes, warnings
  nothing depends on, and an interface that answers nothing.
* *Infrastructure, migrations, seeds*: configuration and generated schema; the
  constraints are modelled where they matter.
* Of modelled parts: the text, rating and moderation of reviews, the links
  between a release and its contributors and ISBNs, and the connection pool.
