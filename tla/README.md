# A TLA+ verification of Illarin's server

Illarin (this repository, `api/`) is a catalog for AI roleplay assets. Creators upload files, the
server reads them into assets, stores their bytes by content, lets creators edit the pages made of
them, writes them out again in the formats of several applications, and sends them to applications a
creator has linked. One Go process works on one PostgreSQL database and one directory of files; every
request handler is a goroutine, and every safety argument rests on SQL statements, row locks, advisory
locks and a few mutexes. The web front end, nginx and the operations scripts sit around that process.

## Inventory

| part | state | operations | hard behaviour |
|---|---|---|---|
| delivery queue (`internal/delivery`) | `instance_deliveries` | Queue, Collect (acknowledge, claim), Artifact, Discard, Sweep | sends race each other, claims and revocation; leases, retries, lost answers, restarts |
| wait hub (`delivery/waiting.go`) | one waiter per instance, in memory | hold, release, signal | superseded waits, lost wakeups, closing a channel twice |
| linking (`internal/linking`) | requests, authorizations, instances, tokens, rate windows | Start, Approve, Deny, Poll, Exchange, Refresh, Authenticate, Revoke | token rotation and reuse detection, lost answers, revoke racing refresh |
| blob store (`internal/storage`, `asset/sweep.go`, `asset/purge.go`) | files, `blobs`, marks, tombstones, references | Put, RecordOrphans, Sweep, Purge, backup | files and rows change in different systems; crashes between; references added meanwhile |
| ingest queue (`asset/ingest.go`) | `ingest_operations` | Accept, lease, retry, fail, finalize | a worker that outlives its lease, crash loops, purge of the bytes it reads |
| accounts (`internal/account`) | users, retired handles, sessions, verification links, resets, Discord identities and flows | sign-up, verify, change address, rename, sign in, reset, attach and detach Discord | several locks taken one after another, in different orders by different requests |
| assets (`internal/asset`) | assets, blocks, elements, revisions, preserved rows, projections, content generation | every edit, replacement by a file, publish, withhold, delete, restore | what one edit must write besides its own rows; two pages open at once; frozen assets |
| pages (`internal/block`) | none: the rules for `asset_blocks` | placing a file, add tray, save, arrange, move, remove, publish floor | import, save and arrangement check different rules |
| protected content (`internal/protected`) | sealed fragments, allowed apps | sync, restore, import | text that is in one table or the other, and answers that blank it |
| formats (`internal/format`) | none: ten readers and writers, one registry | recognise, read, offer, report losses, write | a declaration and a writer that nothing ties together; data no reader understands |
| old site's rows (`format/v1`, `internal/migration`) | one-off run and its ledger | stage, commit, read a row | placeholders where sealed prompts were |
| library mirror (`delivery/library.go`) | `instance_library_entries` | Sync | concurrent reports of one instance, reports after revocation |
| probe, media | none | pure inspection and rendering | bounds of untrusted files |
| HTTP layer, web, nginx, ops | none | transport and presentation | none of their own |

How the parts meet:

- **Linking and delivery.** A delivery goes to an instance that linking created. Revoke is one SQL
  statement that marks the instance, deletes its tokens and deletes its deliveries; the delivery
  queue sees the instance's state only through `revoked_at`, read at different moments by Queue,
  by the claim and by the download.
- **Delivery and assets.** Whether an asset may be sent, in which formats and whether its content is
  sealed, is read afresh at queueing, at the claim and when a signed address is opened.
- **Delivery and the wait hub.** A Collect request that finds nothing waits on a channel of the hub.
  Queue commits its row and only then signals; the hub is memory and the queue a table.
- **Ingest and the blob store.** An upload stores bytes first (Put), records an operation that refers
  to them later, and a worker turns that reference into an asset's. The sweeper removes bytes nobody
  refers to, a purge removes them whoever does, and the backup job copies them while both run.
- **Formats and pages.** A reader makes elements with roles; `block.Place` finds each a place on the
  page of its kind. Two tables in two packages have to agree (`ImportsFindAPlace`).
- **Pages, protected content and projections.** An edit of a page moves sealed text out of the public
  row, drops what was preserved for elements that went, writes the projections that the download menu and
  the facets read, and counts the content generation that installed copies are compared with.

What makes each part correct, in a line: the queue hands an asset over only while that is allowed,
once per pair and a bounded number of times; a waiting application is not forgotten; a link exists by
its owner's approval and a stolen refresh token is noticed; bytes in use are never removed and purged
bytes do not come back; an upload has one result and it stays; a verified address has one owner and
nobody is locked out of an account; an edit writes everything that depends on it and a frozen asset does
not change; a page never gets stuck; and the report of what a download loses is true.

## The modules

| module | stands for | kind |
|---|---|---|
| `Delivery` | `internal/delivery`, the delivery and revoke queries, the download handler | component |
| `SendPromise` | what the queue promises creator and application | abstract specification |
| `DeliveryRefinement` | the mapping from `Delivery` to `SendPromise` | refinement |
| `WaitHub` | `delivery/waiting.go` and the loop of `Collect` | component |
| `QueueSettings` | the constants `Delivery` and `WaitHub` share | constants |
| `BlobStore` | `storage/content.go`, `asset/sweep.go`, `asset/purge.go`, `cmd/backup` | composition of store, sweeper, purge and backup |
| `Ingest` | `asset/ingest.go` and the accepting half of `asset/service.go` | component |
| `Linking` | `internal/linking` | component |
| `Accounts` | `internal/account` | component |
| `AssetLife` | `internal/asset`'s edits with `internal/protected` | composition of editing, sealing, projections and replacement files |
| `PageCatalog` | `internal/block`: catalogs, layouts, placing, rules, publish floor | operators |
| `Pages` | `asset/blocks.go` over those rules | component |
| `Lists` | choosing places of a list in their order, for `PageCatalog` and the formats | operators |
| `FormatContract` | `format/format.go`, `format/keys`: declarations, claims, keys taken and restored | operators |
| `Lorebooks`, `Cards`, `Presets`, `Themes`, `Packs` | the readers and writers of `format/book`, `lorebook`, `character`, `preset`, `theme`, `pack` | operators |
| `LegacyRows` | `format/v1` | operators |
| `Formats` | `format/registry.go`, `capability.go`, `export.go` | operators |
| `Exchange` | a file's way through all of them, with `PageCatalog` at its end | composition |
| `MC...` | small instances and symmetry | model checking |
| `DeliveryProofs` (queue and hub), `IngestProofs`, `LinkingProofs`, `BlobStoreProofs`, `AccountsProofs`, `AssetLifeProofs`, `PagesProofs`, `ExchangeProofs` | theorems | proofs |

Operators with a name such as `RotateForgetting` or `LeasableAgain` stand next to the definition they
vary. They are plausible mistakes in that code, are used by no specification, and exist to show that
each property fails when the mistake is made.

### Delivery

`rows` is `instance_deliveries`, numbered by arrival, which is the order claims take them in. A row
has the table's columns that decide anything: state, attempts, target, and its two deadlines as flags
(`LeaseRunsOut`, `RetentionRunsOut`) that time may raise in any order.

- *Queue* is a step per statement: read the instance (`QueueReadsInstance`), resolve the
  asset and choose its target (`QueueReadsAsset`), count (`QueueCounts`) and insert (`QueueInserts`).
  Where the partial unique index finds a live delivery of the same pair, the handler reads that row in a
  statement of its own (`QueueRereads`), by which time it may have gone. `QueueEnds` is the answer, with the
  row inserted or read.
- *Collect* acknowledges what it is told (`Collect`), then *claims* in one transaction
  (`Claim`): abandon exhausted rows, lock up to `Batch` claimable rows, resolve each, release or fail it.
  `skip locked` is the free choice of the rows passed over (`Lockable`): those a revocation deletes, and any
  while another request of the instance may have a claim open. The claim's statements are one step, at a moment
  between authorising the instance and reading the catalog. Nobody else touches the rows it holds, so what
  this leaves out is only where in the transaction a withdrawal, a seal or a revocation falls; one that commits after the claim
  read the asset counts as one after the claim. What an open claim means to other requests is `WaitHub`'s
  subject. The answer may be lost (`heard` is nondeterministic), so `held` is what the application can acknowledge.
- *The download* resolves the delivery (`ArtifactResolves`), then opens an export or the creator's own
  file in a later step (`ArtifactOpens`, `SourceOpens`), with policy changes in between.
- *Revoke* is a statement with a snapshot: `RevokeStarts` fixes which deliveries it will delete,
  `RevokeCommits` deletes those.
- `Sweep`, `Discard`, `UpdateDeclaration`, `CatalogChanges` (publishing, withdrawing, sealing) and
  `Restart` (the signing key is made at start, so every address dies with the process) are one step.

### WaitHub

`waiting` is the hub's map; a waiter's two channels are membership in `woken` (a channel of one) and
`superseded` (closed). A Collect handler acknowledges and holds (`AcknowledgeAndHold`, `Hold`, under
the hub's mutex), claims, and on an empty claim selects on work, superseded, the recheck ticker and
the deadline: one action per case (`WakesForWork`, `Supersedes`, `Rechecks`, `WaitsOut`). A claim takes its rows
(`ClaimTakes`) and later commits (`ClaimCommits`) or gives them back (`ClaimFails`). In between they are
locked, and a claim of a newer request passes over them, though not where both give up on spent rows: that
statement waits. A sender inserts and signals in two steps (`SenderInserts`, `Signal`). Deliveries are counts here; the rows are
`Delivery`'s. The definitions carry `Hub` in their names (`HubInit`, `HubNext`, `HubSpec`), so that one module can prove
about the queue and the hub.

### BlobStore

A file and its row cannot change in one transaction, so each transaction that touches a file is
several steps with the locks it holds between them: `DigestFree` is the advisory lock of a digest,
`RowFree` the row lock. `PutInstalls`/`PutCommits` store bytes; `InsertReference` is everything that
later refers to them (ingest operations, revisions, media). Such a reference goes with a failed operation
(`DropReference`), with an asset past recovery or with a purge; a newer file leaves the rows of the older one. `Sweeps` walks orphans, resumes purges,
marks and removes marked blobs; `PreparePurge` and `Removal` are a purge; `Backup...` is the job that
takes the storage lock exclusively, dumps the database and copies the files under it. `MarkRipens` assumes
that the sweep delay, a day, is longer than an upload takes from Put to its reference. `Crash`, `PutFails`,
`SweepFails` and `RemovalFails` interrupt any of it, and draw on `Faults`, except where a statement
fails for a reason of its own (a foreign key), which costs nothing.

### Ingest

`op` is `ingest_operations`; a new asset is known by the operation that made it. A worker leases
(`Lease`, with a fresh token), reads (`Read`: probing and parsing as one choice of outcome) and ends in
`Finalize`, `FinalizeRefused`, `FinishFailure` or, if the row no longer holds its token, `LeaseLost`.
`WorkerDies` and `LeaseLapses` under a live worker draw on `Faults`; a lapsed lease of a dead worker is
free. `Purge` fails operations that wait on the bytes and ends the assets made of them. `AccountBlobs`
is the query of the storage cap (0 is none). It counts every media row of an asset: the images of replaced
files, whose rows are only marked as no longer current, and the pictures a creator adds by hand (`AddMedia`).

### Linking

A device request and a browser authorization are one kind of request: Poll and Exchange redeem under
the same row lock. `Start` sweeps expired requests before it opens one, so a name may come back.
`Redeem`, `Rotate`, `RevokeInactive` run under the instance's row lock and are one step each; the path
of a spent token (`Miss`, `ReadHistory`, `ReuseStarts`, `ReuseCommits`) takes no lock until it revokes
and is one step per statement. A pair of tokens is a number, `parent` the token it replaced. `heard`
and `CallLost` model answers that never arrive; an installation may send any token it ever
received, and is `careless` once it departs from `protocol.md`: one refresh at a time, with the newest
token, and no retry once an outcome is unknown.

### Accounts

A request is a `job`: an operation, the place in its transaction (`at`), and what it has read so far.
Each step takes one lock the code takes there and reads what the code reads under it: the advisory locks of
handles, addresses and Discord subjects, in the order the code asks for them, and the row locks of users and
verification links. `held` is who holds what; the last step commits, writes the tables and releases.
`DeadlockAborts` is PostgreSQL's answer to a cycle of waits, `Fails` any other rollback. Operations of one
statement (`SignOut`, `SetPassword`, `RequestPasswordReset`...) are one step. Discord's answers (subject,
address, whether it is verified) are inputs of any value, and a flow's state is taken once.

### AssetLife

One preset with its required block, an optional one that files bring and an optional one no writer writes.
An edit is a tab's transaction: `LockEditableAsset` takes the row with FOR UPDATE and refuses a frozen
asset, the edit's own step (`SaveCore`, `SaveOptional`, `AddBlock`, `RemoveBlock`, `MoveBlockContent`,
`ArrangeBlocks`, `SetIdentity`, `Publish`, `AddMedia`, `AcceptRevision`...) takes the fingerprint, writes rows, syncs sealed
fragments, drops unowned preserved rows, writes the projections and moves the generation where the
fingerprint differs; what the tab is answered becomes its `view`, because the editor works on it
(`AnswerSave` restores sealed text after the commit, in a step of its own). `IngestRevision` is the worker's
transaction for a replacement file accepted earlier. Withholding, deletion, restoring and discovery are
statements that wait for the row. `Deploy` starts a server whose contract measures projections anew.

### PageCatalog and Pages

`PageCatalog` holds the catalogs of all five kinds as `block/catalog.go` declares them, and the rules over
them: `Place` for a file's elements, the add tray, `ValidateStructure` of one block,
`ValidateBuilderConstraints` of a page before and after an edit, `ContentFloors`. An element is its id, type,
role, slot, presentation and number of items. `Pages` starts a page from nothing or from a file's elements
(`Placeable`, `Place`) and edits it, replacement by a file included; each edit states the checks its
operation makes and no others, so that what holds of all pages is a consequence, not a guard. A refused
edit changes nothing.

### The formats and Exchange

A payload is a map from keys to typed values, and a reader takes the keys it knows where their values have the
type it wants; what it does not take is preserved by owner (the asset, a book, an item) and namespace. Each
module has its reader, its leftovers, its writer and its `Declaration`: what it recognises, which
roles it grades as read and written in full, in part (with the condition that decides) or not, which header
fields it carries. One field stands for those treated alike, and each module says which. Items are numbered as they
are read, and `IdText` is what a file can hold of such an id. The keys a sealed prompt may have and the placeholder text
of each (`SourceKeys`, `Placeholder`) are constants; `PlaceholderAssumption` says that a placeholder is a text and tells
which key it stands for, as `{{presetBlock::key}}` does.

`Formats` is the registry: `Resolve` (claims, authority, supersession, ambiguity), `OfferedTargets`,
`Verdict` on a role (carried, reduced, dropped), `Travelling` leftovers. `Exchange` follows one asset and one
file: `Bring` a file, `Build` an asset here or `Migrate` a row of the old site; `Import` or `Refuse`; edit
content, header and preserved data; `Download` to any offered target; and import again, any
number of times. `written` remembers what the last file was written from, so that the properties compare the
copy with it. `DownloadFails` is a writer that returns an error or panics.

Three operators state where the code is known to differ from its report: `KnownLoss` (content reported carried
that does not come back), `Signed` (two writers whose file their own reader may not recognise) and
`WriterKeys` (keys a writer owns, whatever was preserved under them). Each is narrow, and the losses are listed under
Observations.

## The runs

| run | question | bounds |
|---|---|---|
| `queue` | how far can concurrent sends pass the per-instance limit? | limit 1, two senders, three assets: both may be between count and insert |
| `collect` | is the table sound, is work handed over and served only when allowed? | one instance, asset and row, one sender, two collectors, one download, two attempts, a catalog that withdraws and seals: a row is claimed, lapses, is claimed again by the other and abandoned while addresses are out |
| `promise` | does `Delivery` implement `SendPromise`, is a pair sent once and both senders told of the same row, and does every row go in the end (liveness)? | two senders of one asset to one instance, one collector, two rows, a sweep batch of one, so one sweep is not enough; `PromiseKept` is for any number of instances |
| `hub` | map, channels and limit; no lost wakeup; leftover, lapsed and given back work is collected while a wait stays open and a superseded wait answers (liveness) | two handlers, used again and again, over two instances and one place; batch 1 and two deliveries, so a claim leaves one behind; a superseded claim and its successor's may be open at once |
| `store` | are bytes in use kept, is a backup whole, do files move only as ordered, and do unused and purged bytes go in the end (liveness)? | two digests, because a purge that is stuck holds up the others; two uploads, two faults, one backup. The second digest comes in through one of the uploads, while no backup has run, at most one fault has struck and no asset is past recovery (`Bounded`): the backup, the second fault and recovery meet one digest only |
| `ingest` | one result, one writer, final outcomes, storage cap; every upload settles (liveness) | two operations, the second possibly a replacement file, two workers, two attempts, one picture added by hand (`Pictures`), a cap that the image inside a file, or a replaced file together with the new one, would pass, one death or lapse under a live worker |
| `linking` | approval, rotation, replay, revocation; a well-behaved installation is never taken for a thief | two creators, two concurrent Refresh handlers, three pairs: a current token, a spent one and one in the making |
| `accounts` | addresses, links and handles stay sound, nobody loses their way in, a creator's address stays | two accounts, two addresses, two handles tried in the order that deadlocks, one Discord subject and flow, two requests at once, two mails |
| `life` | page and sealed text; do preserved rows stay with what they belong to; projections and generation after any interleaving; frozen assets | two tabs, two texts, three replacement files of different sorts, four edits, one revision, one deploy |
| `sealed` | see "Where the code and its words differ" | one tab, three edits |
| `exchange` | is the loss report true, are files read back, do leftovers travel where they belong, does sealed text stay out, does an import find its place? | files of all ten formats with known, unknown and ill-typed fields, old rows of every sort, assets built here, two edits between downloads |
| `page` | can a page get stuck, lose what its kind requires or content in a move, or a draft become unpublishable? | characters and themes, from nothing and from files, three edits of any kind; a save keeps the width or asks for a third or for one that does not exist; the collection limit 1 |

Every race these components have is between two actors; the history of linking needs three pairs of tokens to
show. Where an instance has no download, `promise` and `queue` keep no signed addresses (`Signed`): nobody could
follow one. Symmetry is used only in runs without a liveness property, over sets no action orders or names.
`linking`, `life` and `sealed` do not check deadlock: a link whose pairs are used up and whose requests are
over, or an asset whose deletion is past recovery, has nothing left to happen. The other systems never stop,
and are checked not to.

Most components have one invariant that gathers the soundness of their tables (`RowsSound`, `HubSound`,
`StoreSound`, `IngestSound`, `LinkSound`, `AddressesSound`, `BlocksSound`, `PageSound`): the conjunction of its
typing with named parts, each stated and explained by itself in the module. `BlocksKept` adds to `BlocksSound` what no single state
shows: a preserved row goes only with its element or at the creator's word (`PreservedFollows`). Every property fails in a variant of
the code with one mistake, listed in `PROJECT.json`.

### Fairness

- `Delivery`: the sweeper runs on a ticker for the life of the process (`WF(Sweep)`), and a retention
  window ends. Nothing is assumed of creators or applications.
- `WaitHub`: handlers and senders are goroutines that run on; the recheck is a ticker. A handler at a
  `select` whose superseded channel is closed is chosen in the end though another channel is ready
  again and again: Go picks among ready cases at random, hence strong fairness for `Supersedes`.
  An open claim commits or fails; a statement that waits for locked rows is served when the lock is
  freed, hence strong fairness for `ClaimTakes`. Claims that fail again and again are an outcome `WorkIsCollected` allows.
- `BlobStore`: the sweeper's ticker, uploads that end, a backup that ends, marks that ripen. Where the
  sweeper or a purge waits for a digest's lock that uploads keep taking, PostgreSQL grants locks in
  the order asked, hence strong fairness, for the sweeper's own steps taken together. No step of it is favoured over
  another: a purge it cannot finish is tried again at every sweep and fails every time, and `PurgedBytesGo` says that nothing but
  such a purge stands in the way of another for ever.
- `Ingest`: workers poll; leases and retry delays pass. Deaths are bounded by `Faults`, without which
  nothing could settle; the code bounds them per operation by `MaxAttempts` likewise.

The other components promise nothing that must eventually happen.

### Where the code and its words differ

Run `sealed` is expected to fail, in a trace of a few steps. `ArrangeBlocks` (`asset/blocks.go:306`) and
`MoveBlockContent` (`:486`) answer the owner with rows whose sealed text `SyncPromptFragments` has just
blanked, where `SaveBlock` and `Detail` restore it. The editor takes that answer for its page, so the next save
of the block sends an empty text, which is stored over the sealed one (`protected/prompt.go:261`). `SealedTextKept`
says that the text of a fragment nobody cleared is kept. `life` shows what holds all the same: the text is
never in the public row, and policy and payload stand exactly while something is sealed.

### Observations

Met while modelling, each visible in a definition of the model; none is an error in a state the properties
above speak of.

Delivery and storage:

- Queue counts and inserts in separate statements, so two sends of different assets can both pass the count
  (`delivery/service.go:138`), while `:33` calls the limits "each a wall rather than a target". `OvershootBounded`
  says by how much.
- A send that read the instance before it was revoked inserts after the revocation deleted the others
  (`service.go:145`); `protocol.md:484-485` says revoking deletes pending deliveries. The claim asks for
  `revoked_at`, so the row is never handed out, and the sweeper removes it.
- An upload that finished Put before a purge can record its reference between `preparePurge`'s commit and the
  deletion of the bytes (`asset/service.go:175`, `purge.go:121`). The bytes go, as ordered, but the blob's row cannot be
  deleted while the reference stands, and later sweeps stop there. `purge_test.go:161-162` wants no
  surviving reference. `resumePurges` returns at its first error (`sweep.go:126-159`), so the bytes of other
  interrupted purges may stay for as long.
- A request that superseded another passes over rows the other's claim still holds (`skip locked`, `queries.sql:1097`).
  If that claim rolls back, the rows are queued again, the newer request may be asleep, and nothing signals it: only the recheck
  ticker finds them. A claim that stops a whole batch of withdrawn assets leaves the rest to the ticker likewise.
- A library report authenticated before a revocation leaves entries for the revoked instance.

Assets and pages:

- An export reads preserved data and cover through the pool after its snapshot was released
  (`asset/export.go:86-95`), so a file may mix two states.
- The gallery is exported in page order, but the fingerprint ignores order: arranging pictures moves no generation.
- Re-measuring at start skips deleted assets; one restored later keeps its old projection until it is edited.
- `SaveBlock`'s restore after the commit can fail although the edit was saved.
- The add tray offers a block whose singular role was moved into another block, and the save then refuses it.

Formats, as `KnownLoss`, `Signed`, `WriterKeys` and `LeftoversComeBack` record them:

- A card with a preserved book row and no entries cannot be downloaded: the restore assigns into a nil map
  (`character/restore.go:44`).
- Entry recursion is graded full and never written by listed books and cards; names on group greetings likewise.
- A turn of dialogue nobody speaks that contains a colon is read back with a speaker.
- A variable whose fragment is gone is reported carried and written nowhere; a fragment without a group after a
  heading is read back under it; a marker loses its name in SillyTavern when its identifier was not preserved.
- The Lumiverse preset writer writes no `schemaVersion` of its own, and a SillyTavern theme without blur or text
  colour is not recognised: a file built here may not be read again.
- A key of a wrong type that a writer always writes is preserved and never restored.
- A pack version such as "+1" or ".5" is written as a bare number and the document cannot be encoded.
- A book's entry that is no object is preserved whole when a book is read, and every writer drops it, because it
  takes what was preserved apart as an object (`lorebook/write.go:63-80`, and likewise for SillyTavern's books).
- Read and gone at once: a card's `extensions` that are no object (`character/character.go:451-456`), `null` where a card or a listed book
  wants a text, a theme's mode that is `null`, and a theme's `createdAt`, which is taken (`theme/lumiverse.go:36-44`) and
  never written.
- Preserved `assets`, and `group_only_greetings` of a v2 card, never travel; nor do preserved rows of characters from
  the old site.

## The proofs

All theorems are of the form `Spec => []P`, `Spec => [][A]_vars` or `Spec => Abstract!Spec`, for every value of
the constants that satisfies the component's assumption. Each inductive invariant was first checked by TLC on
the instance of the component's run.

**DeliveryProofs** (`BoundsAssumption`, `SetsAssumption`: limits are positive naturals, the sentinel
values lie outside their sets, the senders are finitely many). Typing first (`TypeCorrect`). `RowsInv` says of each row alone that the
table's CHECK constraints hold and that an abandoned row has spent its attempts; it is inductive because
every statement maps a row to one of a few successors (`RowsWellFormed`; with typing, `RowsStaySound`).
`OneDelivery` is inductive with `ArrivalInv` and `AnswerInv`: the only step that makes a row live is the insert, and it asks; numbers
are not given out twice, so the row a handler answered with is still of its pair, or gone (`RowStaysOfPair`), and two
answers that name live rows name the same one.
`HandsOverOnlyWhenAllowed` and `ServesOnlyWhenAllowed` are action properties; they say what each step that hands
over or serves had to have read then, not earlier. `WallHolds` counts: `WallInv` adds to the live rows of an
instance the handlers that have counted and not inserted, and says that both together stay below the limit plus the number of
handlers; a handler joins the second set only while the first is below the limit, and an insert moves one from
the second to the first. The count is meaningful only for finitely many senders. `PromiseKept` is the refinement:
under `DeliveryRefinement`'s mapping every step is one of `SendPromise`'s or a stutter, shown by one lemma per abstract
action. It needs `ArrivalInv` (numbers not given out have no row, and what a revocation has set out to delete is of
its instance or gone), without which a late revocation could delete somebody else's row.

The hub, in the same module (`HubAssumption`; the instances are finite). `HubInv` is typing with three properties that need
one another: the registered waiter's channel is open (`NeverClosedTwice`), an admitted handler is registered or
has been told to leave (`NobodyIsForgotten`), and a handler whose last claim left nothing and passed over nothing sleeps over new
work, queued or held by another's open claim, only while a sender has yet to signal (`WakeupsArrive`). The open claims must be
counted in: one that rolls back queues its rows without a signal, which is harmless only because somebody was signalled for them before. The limit (`LimitIsKept`) is inductive given typing:
a step empties places, or fills one while there is room (`PlacesStep`), and the rest is cardinality.
`HubStaysSound` gathers them.

**IngestProofs** (`IngestAssumption`). `IngestInv` strengthens row consistency and `ResultOnce` with
`LeasesDistinct`: no token is above the counter, a worker at work holds one, and no two workers hold the
same. Without it a late worker could hold by chance the token of the lease that replaced its own, and neither one
writer (`LeaseFences`) nor one result (`WrittenOnce`) would be inductive. `IngestStaysSound` is what follows for the
table, and `OutcomesStay` is proved step by step. `CapHolds` adds `AssetsAreResults`: an asset exists only once its
operation succeeded and holds no files before. Otherwise a finalize could bring files of an asset that was beyond
recovery back into the account's count without anybody asking for the room. What a finalize and `AddMedia` add fits the cap because
they ask (`FitsAccount`); what they leave behind was counted already.

**LinkingProofs** (`LinkingAssumption`). `LinkInv` adds to the properties: an approval is
somebody's and a cleared request does not expire (`RequestsSound`), an instance's current token is its own
(`CurrentIsOwn`), the token a pair replaced is not current any more (`ParentsSpent`), and a handler at work has an
issued token (`CallsHaveTokens`). `SpentOnce` needs `ParentsSpent`: a token can be traded a second time only
if it is current. `LinksStaySound` follows, and `RevocationIsFinal` is an action property that uses `LinkInv` in
both states. `CarefulStaysKept` says that reuse detection never revokes an installation that follows `protocol.md`. `CarefulInv`
relates its calls to the history: tokens are heard in the order they were made; one call at most is under way, with the token
that is current unless the instance was revoked; between calls the newest token heard is the current one.

**BlobStoreProofs** (`StoreAssumption`). `StoreInv` is typing and `BytesKept` with the claims that steps make between
transactions: who is installing has its file, the digest's lock excludes uploads from removals, a purge
in progress was ordered, a ripe mark is on a blob nobody has claimed since, and what a sweep is about to unlink is
unheld (`Claims`); and, for the backup, that what the dump refers to is still there while the storage lock is held
(`DumpedIsThere`). `StoreStaysSound`, `BackupsAreComplete` and the action property `FilesMoveOnOrders` follow, for any number
of digests, uploads and faults, where the run lets its second digest meet only some of them.

**AccountsProofs** (`AccountsAssumption`: `None` is no value of a table; a Discord handle has a candidate). `AccountsInv`
(`RequestsStayRight`) is the soundness of the tables, the exclusion of locks and, for every request under way, what it
relies on (`Relies`): the locks it has taken so far and that what it read under them is still so. The argument is one
for all operations: a step writes only what its own locks cover (`WritesUnder`), so it leaves every other request what
that one relies on (`OthersRely`), and a commit that relies on its reads keeps the tables sound.
`AddressesStaySound`, `HandlesStayUnique` and the action properties `WayBackStays` and `CreatorAddressStays` follow, for any number of
accounts, addresses, handles, links and concurrent requests.

**AssetLifeProofs** (`LifeAssumption`). `LifeInv` adds two parts to `BlocksSound`, `SealedIsHeld` and
`ProjectionsFollowPage`: the shape of what tabs and accepted files carry (`Shapes`), and that an edit under way holds the row of an
editable asset (`EditHoldsRow`). `SealedStaysHeld` and `ProjectionsStayTrue` are its conjuncts, and so is the first half of
`BlocksStaySound`; the second, that preserved rows stay with what they belong to, is shown edit by edit (`EditFollows`).
`GenerationMoves` rests on the lemma that the fingerprint tells apart whatever a download tells apart; `FrozenStays`
on `EditHoldsRow`.

**PagesProofs** (`PagesAssumption`: pages are of the five kinds, a file's elements are roles, types and counts;
`LimitAssumption`). First the catalogs as they stand in `block/catalog.go`, definition by definition (`CatalogsSound`): ids
are distinct, a role that may be on a page once has its place in one block only, a block's first layout with
room is no wider than the block, a required block pins something. From that, what `Place` makes of a file
(`PlaceRows`, `PlacedSound`): one row for each definition shown, with distinct elements, although only the structure of
each row is checked. `Place` selects by rank in a set of kept places (`Kept`), so that what is selected can be reasoned about by
cardinality instead of by recursion (`KeptPlaces`). Then the edits. `PageInv` (`PageInvHolds`) adds to `PageSound` that block
ids are distinct and that ids come from edits made so far. An edit checked against the page before it keeps the rules by itself
(`RulesStand`); a required block stays because its pinned elements must be found again in a block of the same id, and that
block is the same one only while ids are distinct (`RequiredStaysOn`); what a request sends is loose until the rules have
seen it (`Tightened`). One lemma per edit shows that it hands on blocks with their id and definition and hides only what may be hidden
(`EditKeeps`). `PageStaysSound` follows. `FloorIsMet` rests on the floor's roles being pinned in required blocks (`FloorsPinned`),
`BlocksGoWhole` on element ids being distinct. All of it holds for any number of edits, any files and any tags a save sends; the run
has two kinds and three edits.

**ExchangeProofs** (`PlaceholderAssumption`, and nothing of the files, rows, builds and edits: they may be any values at all).
`FreshInv` is inductive: an asset nobody has edited is one a reader made, and what a reader makes is `WellRead`. Only `Import` and
`Migrate` make one, so the weight is in the readers. `Resolved` says that the registry gives a file to one of its ten
readers or to none, and there is one lemma for each of these and for each of the five readers of old rows (`FilesWellRead`,
`RowsWellRead`). `WellRead` has two halves.

- Sealed text. In a Lumiverse preset every protected fragment comes from one sealed block and has one prompt of
  its own beside the page, and no other fragment has any (`OnePromptEach`, `LumiverseApart`): ids are the blocks' places, and the
  fragments are the blocks that are no headings, selected by rank. SillyTavern's order moves, drops and switches prompts
  but marks none as protected (`PromptsOrdered`). For old presets `activateCurrentSealedPrompts` turns placeholders into prompts of
  their own and gives every prompt the text its row keeps (`OldPresetApart`); that no placeholder is left needs the check that
  refuses a row whose kept text is one, and that different keys have different placeholders.
- Room. Every role a reader of a kind fills has an element of its type in that kind's catalog (`EveryRolePlaced`), and every
  block has a layout for as many of its elements as a file may bring (`CatalogRoomy`), so all of them find a place at
  once (`RolesPlaced`). The readers' tables and the catalog are in two packages, and nothing in the code compares them.

`SealedTextNeverRead` and `ImportsAlwaysPlaced` follow. The reading of lists is written without recursion for this (`Kept` and `Ordered`
select by rank, as in `PageCatalog`); where a fold is needed, for the variables of all fragments, no property looks inside.

Only model-checked:

- liveness (`EveryDeliveryLeaves`, `WaitsAreAnswered`, `BytesGo`, `EveryUploadSettles`), which is out of the prover's reach;
- `LossReportHolds`, `ExportReadsBack` and `LeftoversTravel`. They say what a reader makes of what a writer wrote, item by
  item, so they compare two walks over lists of any length, one of which (`WriteBlocks`, headings before the fragments under
  them) only induction over the list describes. They also depend on what an asset holds: a creator's edits
  are well-formed content, which the run enumerates and an assumption would have to restate type by type.

## What is not modelled

Byte-level inspection of containers and images, and image rendering, are pure functions. The HTTP layer decodes and
answers; the web front end, nginx and the deployment scripts keep no state the server depends on, apart from the
editor's use of an answer, which is part of `AssetLife`. Catalog reads change nothing. Profiles, avatars and
preferences are columns nothing else reads. HMAC, SHA-256, encryption and random tokens are taken as perfect:
addresses cannot be forged, digests name their bytes and tokens do not collide. PostgreSQL is modelled by the
locks and snapshots the statements rely on at READ COMMITTED. The migration's staging and commit are one run of an
operator; only what it makes of each row is modelled. Derivative images, the library mirror, the polling
interval and the link rate limits are left out of the components they belong to.

## Plan

Done, in order of weight: the delivery queue with its promise, the wait hub, the blob store with
sweeper, purge and backup, the ingest queue, linking; then accounts, the life of an asset, pages, and the formats
with their way through the system. Theorems for every safety property of all of these but the three about a file written
and read again, and for the refinement.

Next, in this order:

1. `LibraryMirror`: a late report after a revocation, overlapping snapshots that leave the union of both.
2. The link rate limiter and the polling interval; a backup that loses its lock connection; derivatives of a
   blob that is purged meanwhile; the migration restarted midway.
