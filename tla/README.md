# subflux: a TLA+ project

subflux finds and writes subtitles for the videos that Sonarr and Radarr manage. The repository is in the
middle of a rebuild: `internal/statedb`, the store every part of the new program shares, is complete and
tested, and most of its callers (the pass runner, the work drainer, the subtitle writer) are not in the tree
yet. This project models, first, the store's protocols with the settings service and the drain around them,
because that is where the program's guarantees are; then the services that talk to the outside (sources and
subtitle sites), each with its concurrent callers; and last the pure rules, as operators judged over bounded
inputs. Callers that are absent are modelled only from what the store's comments and tests say of them.

Run a check with `tlc -workers 2 -config <cfg> <module>`, a proof with `tlapm <module>.tla`.

## Inventory

| Part | State it keeps | Operations | What is hard |
|---|---|---|---|
| `statedb` write side (`intents, coverage, locks, external, embedded, downloads`) | intents, file records, baselines, local and embedded inventories, locks, coverage, download log | Begin/End of deliver, retime, delete; PutExternal, PutEmbedded, SetLock, RecordAttempts | crashes between Begin, disk and End; repeated End; coverage is a cache of four tables; the policy may change between Begin and End |
| `statedb` ownership side (`pass, observe, activate, instances`) | roots, sightings, overlaps, item records, instances, passes, activation | BeginPass, ObserveItems, FinishPass, Activate | two sources claim one path or item; renumbering; partial passes; sources removed and added back; thirty-day expiry; videos pinned by pending writes |
| `statedb` work queue (`work`) | queued rows with generations, a wake channel | EnqueueWork, NextWork, AckWork, DeferWork | enqueue during a run; commit before signal; restart |
| `statedb` change feed (`feed`) | revision, log of commits, epoch, the channel commits close | Changed, Since | an observer sleeping through a commit; retention; a reopened store |
| `statedb` reads and small tables (`reads, history, cursor, noresults, ordinals, evidence, credentials`) | downloads, no-results, ordinals, evidence, disables, the ids handed out | paged lists, Record, Reserve, Put, Disable | commits between two pages; a search that records after its item is gone; the last ordinal |
| `statedb` keys (`keys, codecs`), `media` | none | compose and read back a key | collisions, prefixes, order of numbers as bytes |
| `statedb` job records (`jobs`) + `status` | live jobs, unsaved set, alerts, stored records | Begin, Update, Cancel, Get, Keyed, Run | writes that land and report failure; replayed keys; eviction of what is not stored; restart |
| `settings` | the file, the live snapshot, the baseline last seen | Save, Shutdown, Load, merge | cancelled saves, failed restore, hand edits; secrets of list entries that move |
| `app` | phases of the process | Run, supervise, changeLoop | drain order and overrun |
| `mediasource`, `arr` | history cursor, published sets, root folders read lazily | Changes, Items, RootFolders, Rescan | records committed late or dated ahead; unreadable roots; an edit during a fill; a rescan that may have run |
| `provider` and the sites | tokens, rates, caches of packs and episodes, bans | search, download, retry, lookup | a refusal that kills the token others use; one fetch for many callers; Clear; outages heard as "nothing" |
| `provider/archive`, `epmarker` | none | choose a member; read a name | packs that name episodes in many forms; lying sizes |
| `language`, `rank`, `release`, `search/release` | none | read a policy, grade, compare, match | scripts and regions; cuts and groups; lookarounds over an engine that has none |
| `timing`, `subsync` | none | parse, retime, clean, align, vote | cues moved past both ends; votes of strategies that end in any order |

`PROJECT.json` lists every part with its sources, and every hazard at its line.

How they meet: `Activate` hands the store the configuration; passes report libraries and attach videos
(instances); an attached or changed video is queued; the drainer searches it and delivers files through
intents; every write recomputes the coverage of the items of the video. A pending intent *pins* its video, and
the ownership side refuses to move a pinned one; that refusal is the one point where the write side and the
ownership side meet, so each is modelled with the other reduced to it (`Claim` and `Activate` in WriteIntents,
`BeginWrite`, `EndUnlanded`, `EndLanded` with the locks it sets, and `PutEvidence` in Ownership). The services and the pure rules share no state with one
another: a search asks each provider by itself, and a source is polled by its own walk.

## Modules

| Module | Code | State and actions |
|---|---|---|
| `Tables`, `TableTheorems` | the use statedb makes of bolttable | a table is a function on its stored keys; one store call is one transaction, so one action |
| `CoverageRules` | `coverage.go` | judge, configured, judgeLocks as operators. Language policies enter as the constants `Wants` and `Class` |
| `WriteIntents` | `intents.go` and the inventory, lock and attempt calls | one action per call; `Reopen` closes the store at any point |
| `Library` | what the write side promises | files change in single steps; an attempt ends delivered or undelivered, once |
| `Pipeline` | WriteIntents with the disk and its caller | stage, write, finish, settle, crash, recover; refines `Library` |
| `Ownership` | `observe.go`, `pass.go`, `activate.go` | a transaction is an operator from record to record, the action commits it or gives up as the code does. `MCGrades` adds a memory of the last report, for the repeated one |
| `WorkQueue` | `work.go` | writers, signals, and one drainer |
| `ChangeFeed` | `feed.go` | which roots a commit touches, Since, Changed, and an observer that keeps a copy |
| `StoreReads` | `reads.go`, `history.go`, `cursor.go`, `noresults.go`, `ordinals.go`, ... | writers of the small tables, and one walk of a list page by page with any commit between |
| `JobBoard` | what `status` promises of a job | open, ended once, kept, forgotten; only a restart before it is kept makes it interrupted |
| `JobRecords` | `status` (`jobs.go`, `persist.go`, `retention.go`) over `statedb/jobs.go` | a step is what runs under `s.mu` or in one transaction; persist is split where it unlocks; writes fail, or land and report failure; refines `JobBoard` |
| `SettingsSave` | `settings` (`save.go`, `service.go`), `app/changeloop.go` | Save from lock to unlock, restore, the user's editor, the loop that reads Changed |
| `Drain` | `app/supervise.go` over SettingsSave | the drain's stages; Shutdown; producers and sinks as one each |
| `ArrHistory` | `mediasource/arr/history.go` | the source's history grows while the cursor re-reads its overlap |
| `SourceSet` | `mediasource/set.go`, `roots.go` | a walk of Items with any adapter; sets built by edits and probes, filled by viewers |
| `OpenSubtitles` | `provider/opensubtitles`, `provider/retry.go` | calls from token to answer: login shared, rate shared, refusals, retries, cancellation |
| `HDBits` | `provider/hdbits` | downloads through one cache with one fetch per pack and Clear; a search's dispatcher and workers |
| `AniDB` | `provider/anidb` | lookups from list to series to episode; cooldown; the rate's slot; the verdict on the key |
| `Services` | | StoreReads, ChangeFeed and the five above as one specification, of whose services a behaviour runs one |
| `LanguagePolicy`, `SettingsDocument` | `language`, `settings/{merge,load,server,...}.go` | pure: what the configuration means |
| `EpisodeMarker`, `Archive` | `epmarker`, `provider/{download.go,archive}` | pure: what a name claims and which member is taken |
| `SubtitleSites`, `SourceAnswers` | the sites' searches and downloads; `mediasource`'s check of a source's answers and its path mappings | pure: from what calls were answered to what the caller hears, and where a reported path leads |
| `Subsync` | `subsync` without audio and embeddings | pure: pairs, sweeps, splits, frame rates, the vote |
| `StoreKeys` | `statedb/{keys,codecs}.go`, `media` | pure: bytes of keys, and their text |
| `LineScan`, `SubtitleDoc` | `timing` | pure: one line's rules; documents parsed, retimed, cleaned |
| `ReleaseFit`, `Lookarounds` | `release`, `rank`, `search/release` | pure: names compared; patterns compiled and matched |
| `PipelineProofs` (WriteIntents, Pipeline), `SourceAnswersProofs`, `OwnershipProofs`, `JobRecordsProofs`, `StoreProofs` (StoreReads, ChangeFeed, WorkQueue), `DrainProofs`, `ProvidersProofs` (the clients below) | | theorems |

A definition whose comment begins with "Faulty" is a plausible mistake in the one after it; it is used to see
that the properties notice it and is no part of any specification. A property made of several conjuncts names
one idea with parts of its own; where a module has more than one Faulty form, they aim at different parts.

What is abstracted: a subtitle is what grading tells apart; bytes are a model value standing for their hash;
times are "ahead", "over" or "none", ended stamps of jobs only an order; pass ids are what the open pass has stamped; job, title, scene name and
quality columns are left out where no guard reads them. In the pure modules a text is the sequence of the
tokens its rule looks at (a name's markers, a line's brackets and letters, a document's lines), and scores are
whole numbers of a unit.

## Runs

| Run | Instance and bounds | Shows |
|---|---|---|
| `write_intents` | one video with two items of different languages, two names, two contents, two policies, two attempts, generations to 2 | coverage and locks of owned videos stay right (`OwnedGraded`), attempts are logged once, baselines have records, locks are dropped only for a reason |
| `pipeline` | one video, a disk, a crash anywhere, two names and a delivery that may supersede the other file, one attempt; the caller keeps writes that touch one file apart (`Apart`), as the code leaves to it | records name bytes on disk and have baselines (`FilesRecorded`); the protocol implements `Library` |
| `ownership` | two sources that share a path and an item, whole passes, two instances | no dangling row (`NothingDangles`), no stolen video or stale overlap (`ClaimsKept`), owned is reported, pinned videos stay put |
| `grades` | the same library with one language and a batch pass, evidence, locks and repeated reports | coverage follows every change of ownership and every landed write, and an item that loses its record loses its locks (`GradesKept`); a repeated report that no other root and no stale record contends with alternates nothing |
| `work_queue` | two videos, reads of one, two generations, one restart | nothing lost or delayed (`WorkKept`), nothing slept through, everything run at last |
| `job_records` | three calls of Begin for one user, two under one key; bounds of one record; one failing write | bounds hold and a key has one job at work (`KeysAndBounds`), no failed write is slept on |
| `job_retry` | a job of each of two users, an update, one failing write, one restart, nothing kept in the live view | refines `JobBoard`; records agree with live jobs and every end reaches its record (`EndsStored`) |
| `drain` | two Saves, one document or no file, two revisions, one edit, two failures | the file is what is live or Diverged says so, and no commit is missed (`SettingsAgree`); no update lost; the drain and every Save end (`DrainSettles`), and no Save is on a closed store |
| `services` | each service alone, see below | lists whole, rows parented, ordinals rising, observers current, one login, history reported once, caches and answers whole, every caller answered |
| `rules` | 49 parts, each over every input within its bounds, see below | eight families of rules against reference definitions |
| `alert_is_true` | one job, one failing write | a disagreement, see below |
| `quick_is_direct` | one pattern of two words, names to six runes | a disagreement, see below |

Two items on one video are what a double episode needs; two sources are what an overlap needs; one value more
of each repeats the same cases by symmetry of the code, which never compares a source, a path or a name with
anything but another for equality. Two generations are what a stale acknowledgement needs. One video suffices
for the write side because its calls name one video, except Activate, whose recompute treats each alone. A
restart forgets memory only, so a second one meets nothing new.

For jobs, three calls are what a bound needs to make room for a third while a key is asked for again; one
failing write that may have landed is what a retry needs. A job's revision is bounded by the updates and
failing writes of the run (`MaxRev` in JobRecords): a retry refused because its record is gone would raise it
for ever and meets nothing new. System jobs are in the model and in no run: they only lack the second bound.
For settings, one document against no file gives the file two contents; two failures are what a failed
activation whose restore fails needs, with another Save after it; `DrainProofs` has every number of each.

**services.** A behaviour is of one service (`part`); the others stand still, because they share nothing.
- The store's tables begin with no item or three; `MaxEdits` (2) commits fall anywhere in a walk with pages of
  one or two rows, so the row a cursor names can be deleted and the next one added. `MaxInt` is 3, and a report
  may claim it or one beyond every reserved ordinal.
- The feed keeps one commit (`Retention` 1) of three (`MaxRev`), so an observer can be too far behind, and the
  store reopens once (`MaxEpoch`).
- OpenSubtitles has a search of two pages and a download of two legs, two attempts and two tokens: a token is
  refused while the other call uses it. A login that fails for a while is told to the leader and to those that
  wait as such, and each download then backs off and tries again while it has attempts; one that fails for good
  ends them. Whether what a waiting call is told of a leader that gave up counts as transient is not decided
  in the tree (`httpclient.IsTransient`), so the model allows both.
- The history has two records, an overlap of 2 units, dates to 3 ahead and commits to 2 late, over 6 units.
- HDBits: three callers, three packs of which one is too large to keep, a cache of one, one Clear; and a search
  of three torrents by two workers. Four fetches let each caller lose and repeat one.
- AniDB: two callers of two parts of one series, of which one episode does not exist.
- A source's walk lists four roots against a budget of two failures in a row and one unread in all; its sets
  have two viewers, one edit and one probe.

**rules.** A behaviour picks a part and an input; the properties judge the answer. The bounds are the least at
which a rule's branches all meet: names of three markers (a range needs two, and a third to be ambiguous with),
archives of three members against a limit of two, five lines of a document (two cues with their stamps and a
text between), lines of five characters from each rule's alphabet, five cues for the aligners (a regression
needs three, and two to be wrong), every vote of four strategies in every order, all keys over numbers at both
ends of their widths, and patterns of one assertion among every kind of head and tail. What they are judged
against is a definition of its own: a maximum over all choices, the set of all matches, the input itself read
back.

### Fairness

Four runs check liveness.

- `work_queue`, `FairSpec`: the goroutine that committed runs its AfterCommit, time passes, and the one drainer
  keeps taking the step it can take (WorkReady's comment describes this loop). Strong fairness of AckWork says
  that the drainer does not defer for ever: DeferWork answers the row's first deferral so that its caller can
  give up. Without it an item-class row that is deferred again and again starves the others when few are read
  at a time: that is a duty of the caller.
- `job_retry`, `FairSpec`: every goroutine goes on. Run's select picks at random among what is ready, so it does
  not pass over its timer or its wake for ever (strong fairness of those two); a process whose Run has returned
  exits. Nothing says that a job ends or that Run is stopped.
- `drain`, `DrainFairSpec`: the Save that holds the slot goes on, except that its activation may hang until
  Shutdown cancels it; a waiter gives up once Shutdown has begun; the drain's budgets end. Nothing says that a
  Save is asked for, that a waiter gets the slot, or that an activation ends by itself.
- `services`: OpenSubtitles' calls and its rate limiter's timer, taken together, go on (weak fairness of one
  disjunction: it does not say which waiter the rate serves, as the code does not). AniDB's callers, the
  list's fetch, which has a deadline, and the timer of the rate go on; a series' request is served when the
  rate's one slot comes back to it again and again (strong fairness: `rate.Limiter` serves its waiters in turn).
  A fill of a source's folders ends, by its deadline if not by an answer, and a viewer whose wait is over runs.
  Nothing says that a service answers well or that a token lasts.

The systems of these runs may stop (a queue empties, jobs end, the store closes, bounds run out), so they do not
check deadlock.

## Disagreements

Two are runs, each of which finds its property violated.

- `alert_is_true`: the tests have the alert for unstored job records gone once the records are stored. `persist`
  raises and clears it after it has let go of the lock. An updater whose write failed can be overtaken by the
  runner's retry, which stores the record and clears the alert; the updater then raises it with nothing
  unsaved, and it stays until another record is stored.
- `quick_is_direct`: the binary search that stands for a lookahead of the shape `.*X` matches X on a suffix of
  the name, where a word boundary sees the cut as the start of the text. A comment says that the shortcut
  changes no answer. Two release-name words each wanted somewhere, `\ba\b(?=.*\bb)`, match a name they should not.

The others are stated in their modules, where a comment says that the code does not keep them; the property
beside each that a run does check is what holds instead. They are in no run of their own.

- `WriteIntents!AdoptedLeavesLocal` (`intents.go:281`, `rows.go:452`): the local table is documented as the files
  subflux does not manage; an adoption leaves the adopted name in it. A later delete drops the record only, and
  the name keeps counting as coverage until the next listing.
- `Ownership!OrphanKeepsItems` (`observe.go:301`, `:309`): `noVideo`'s comment excepts a record that names an
  instance; the code skips the exception when the record names the reporting ref, so a source removed and added
  back unlinks the item of an ownerless video.
- `Ownership!LocksOfRecorded` (`intents.go:259`): losing a record takes the locks with it, but a delivery written
  locked sets its lock on every item it was begun for without a look at its record. When the item of an
  ownerless video loses its record while the delivery is pending (as above), the lock stays: the recompute skips
  an item with no record, and the lock is there when the item is reported again. `LocksGo`, a part of
  `GradesKept`, is what holds: no other step locks an item without a record.
- `Ownership!ReportedIsHeld` (`observe.go:356`): a sighting of an item that another sighting of the source attached in
  the open pass is said to be, at the same path, the same file reported twice. It need not be. A source that was
  removed and added back finds ownerless videos whose records still name its refs; when such a ref moves to
  another item and a second sighting reports the first item at its old path in the same report, the record
  counts as stamped, nothing is attached, and the video, although reported, has no owner. Reported again without the
  first sighting, or after a third one joined the video, it changes. So a repeated report may
  change something (`NoStaleRecord` in `MCGrades` leaves these reports out of `RetryChangesNothing`, and `NoOtherRoot`
  those in which two roots of one source contend for an item: the pass's first wins).
- `Subsync!RatioIsFound` (`framerate_detect.go:105`): the ratio is said to be the slope and one. The drift is
  measured along the subtitle's own times, where the slope has the other sign, so a known ratio is tried
  inverted; the search that follows finds some of them.
- `Subsync!SweepsAgree` (`align_merge.go:34`): the two sweeps differ by more than a millisecond when spans
  overlap one another. `Subsync!WindowIsScored` (`crosslang/align.go`): a bound on candidates ends the scan of a
  window before all of it is scored.
- `AniDB!BanHolds` (`anidb.go:34`): requests that already wait for the rate when a ban is answered are sent.
- `Lookarounds!AcceptedIsReal` (`pcre.go:357`): an assertion is matched on the slice of the name it may look at
  and takes the slice's edge for the name's, so `a(?=^)` and `a(?=\bb)` accept where .NET would not; the
  divergences that file lists leave this out. The property is checked of assertions without anchors.
- `Lookarounds!MatchesAlike`: the layer over RE2 checks an assertion beside the match RE2 chose, so a match that a
  backtracking engine finds by another choice before the assertion is missed.
- `SubtitleDoc!RenderReadsBack` (`render.go:17`): a cue with no number, next to one that is dropped, is read back
  with other lines than it had; `NumberedReadsBack` is what holds.
- `HDBits!ThreadSafe` (`dlcache.go:14`): `put` asks the saturation guard, a `sync.Once`, before it takes the lock
  under which `clear` overwrites it; a Clear while the warning of a too large pack is logged leaves Do unlocking
  a mutex that is not locked, which ends the process.
- `OpenSubtitles!Authenticated` (`opensubtitles_http.go:68`): between the token a call found and the headers it
  sets, another call's refusal clears the token, and the request goes out without one; its own refusal follows.

One question stays open: `answered` (`set.go:172`) takes an error that wraps a deadline for no answer, so a
rescan's "outcome unknown" that wraps one, too, is reported as unanswered. No adapter in the tree makes one;
`SourceAnswers!RescanIsTold` says so of every other cause.

## Proofs

The proof modules prove, for every value of the constants under the assumptions
named in the modules (constants have their types; the items of two videos are apart; the read limit is
positive; the names for no Save, no file, an unread file, no token, no leader and a free flight are apart from
the others; the roots and episodes of a library are finite and its ordinals do not exceed the largest int; a
cache has room for an entry, there is a pack, and the walk budget is positive), what the runs check on small instances.

- `WriteIntents`: type correctness, owned videos are graded (`OwnedGraded`: coverage is current and locks are
  configured), attempts are logged once, no baseline without a record. The invariant needs besides these that a
  staged attempt is begun and that no two pending intents are of one attempt, or a repeated End could log it
  twice. The step for each action rests on `Recompute`'s lemma: items of the videos written are fresh, all
  others keep their rows *and* their evidence. `LocksKept` needs of a recompute which locks it loses
  (`RecomputeLoses`), and that each write hands it the locks it sets beside those that were there.
- `Pipeline`: `FilesRecorded` says nothing of a video while a write is pending on it, and so is not inductive.
  `PipeInv` adds what holds then: a record stands on disk unless a write that has landed rewrites or supersedes
  it (`Standing`), no pending write supersedes the file of another (`KeptApart`), and a caller that says its
  write landed, or failed, is right (`Judged`), which recovery re-establishes by looking at the bytes. The
  refinement (`ImplementsLibrary`) maps a pending write to the library at the moment its bytes arrive: the disk
  write is the step of `Library`, and staging, settling, crash and recovery are not seen, except that staging a
  delivery offers its attempt and settling one that failed refuses it.
- `Ownership`: a call is a chain of operators on a transaction record, and its tables are consistent only when
  it ends, so the invariant has two layers. `Core` is what every operator of a running call keeps: records and
  videos agree, an owned video is reported by its live source at its path, paths are apart, refusals are live,
  rows are current; it excuses an empty video that is in `emptied`, a record with no video in `released` and
  the rows of the keys in `touched`, which are the debts `Settle` works off (`Sound`, down to `Settled`). `Kept`
  is what the call owes to the videos it began with: pinned ones keep path and items, owned ones their owner.
  Each operator has a lemma that it keeps both or gives up on a pinned video; that it never gives up on a
  missing row (`NeverGone`) is part of `Sound`. `IInv`, the invariant between calls, is `Core` of a transaction
  that has done nothing. It is stronger than the runs' properties: `NothingDangles` does not say that a record
  without a video names a sighting that reports none (`Unheld`), which `Settle` needs to find what was lost. A
  report is a function over its offers; its step is an induction over the offers, by the least one that would
  fail (`Least`). That a renumbering loses no video (`RenumberKeeps`) is a second induction over the same offers:
  an offer spares the videos of its source and the records of them that refs already stamped provide (`Spares`),
  and if it is accepted at the path of one, some stamped ref provides an item there from then on (`Seats`), so
  that `Settle` finds it not empty. It needs that the report's root was not stamped before, hence none of its
  refs (`RootsStamped`, a part of `IInv`): of a root reported twice in a pass it is false, see `Ownership`.
  `GradesKept` says of an item without a record that it gains no lock but from a delivery landing on an ownerless
  video. A state cannot say what it may have gained, so `Core` takes the locks such items had as a parameter
  (`Stray`): every operator of a call keeps them within it, a lost record leaves none, and a landing widens it
  for the items of the one video (`LandingReady`).
- `JobRecords`: `JobInv` has the bounds (`KeysAndBounds`) with the reason a key has one job at work, the part
  each call of `persist` plays (`Saving`: a live job has at most one saver, and no call takes a stored job for
  unsaved), `RecordsAgree` (a record never contradicts its live job: the safety half of `EndsStored`) and
  `NoRetryLost`. The last two need `Saving`. `ImplementsBoard` follows by reading Get's answer by cases before and
  after each step.
- `WorkQueue`: `WorkKept` is not inductive. An acknowledgement leaves the row of a changed video because the
  row is at a later generation than the run (`RanBehind`); an enqueue establishes that because every row is at
  least at the generation the drainer holds (`RunStaysQueued`), for which the drainer must hold at most one work
  of a video (`OneWorkEach`). `NoLostWake` needs only the positive limit: a read that answers nothing has seen
  nothing due.
- `SettingsSave` under `Drain`: everything rests on the slot, held by exactly the Save between lock and unlock.
  The base a Save checked stays live until it commits (`BaseLive`), which gives `NoLostUpdate`. `SettingsAgree` is
  not inductive: what a restore puts back is live because the baseline is (`SeenIsLive`), what a commit makes
  live is in the file because nobody but the user wrote it since (`OwnBytes`), and of a missed commit one must
  speak while the loop applies, too (`ReadIsLive`); `StoreClosedAlone` needs that a drain with no error holds the
  slot from Shutdown on (`SlotKept`).
- `StoreReads`: `OrdinalsRise` holds because what was handed out for an instance that is still stored stays
  below its stored ordinal (`PastHanded`), and one that is deleted takes its id with it: ids only rise.
  `RowsHaveParents` is inductive: every commit that takes an item or an instance ends in the cascades
  (`CascadeKeepsParents`), and a batch of no-results, however long, adds no row of an item that is not stored
  (`BatchOfItems`, by the least prefix that would). `PagesComplete` is about every row listed since the walk
  began: it is served, or comes after the row the cursor names (`WalkGood`). A page is the first of the rows ahead,
  numbered by how many come before them (`RowsNumbered`), so that what it leaves out comes after its last row
  (`PageIsFirst`); a commit only takes rows from those listed all along (`KeptStep`). It needs lists that are
  finite and orders that are total on them (`RowsPlaced`, `PlacesOrdered`).
- `ChangeFeed`: `AsleepIsCurrent` comes from what the observer is owed. A root it holds otherwise than the store
  is one it is about to read or one a commit it has not been told of names (`CopyKept`, `DirtyNamed`), unless it
  is so far behind that it must read everything; and while the channel it took is open there was no commit
  since its answer (`AnswerHolds`). For that it must take the channel before the answer.
- `OpenSubtitles`: `LoginNeeded` needs that only the leader is past its second look at the token (`OneLogin`),
  until it has told those that wait.
- `ArrHistory`: `HistoryWhole`. No change is named twice, because the cursor holds the id of every named record
  that the next call reads again (`NamedHeld`). None is missed, because a cursor is never further past the clock
  than some record of the history is dated ahead, and never further than the overlap (`CursorNear`): a record
  committed within the slack is in the next window, and one dated past the window is past every cursor until
  its date comes.
- `HDBits`: `PackSharedOnce` needs that the flight of a pack is its leader's from the second miss to the landing
  (`OneFlight`), so no other call can store the pack a leader fetches. `ResultsAreWhole` needs that a torrent is
  given up only in a group that has ended (`GivenUp`), and that after an answer nothing runs and the group's
  end is settled (`AnsweredLast`).
- `AniDB`: `SeriesWhole` and `VerdictNamed` are inductive.
- `SourceSet`: `WalkIsWhole` is about the end of a walk; while it goes on, what was told is what was listed, one
  for one (`ToldAll`), and the two counts are those of the unread roots told, in all and at the end (`Counted`).
  `OwnRoots` needs that the set published last is built from the entry that is stored (`LiveIsConfigured`), of
  which an edit inherits.

- `SourceAnswers` has no state: its theorems are about operators. `MappingsNeverAlias` (`NoAlias`, a part of
  `ConfigurationHolds`) needs that two accepted mappings whose local sides contain one path nest under each other
  exactly (`NestedAgree`), so that it does not matter which of them `ToLocal` takes; the longest exists because
  lengths are bounded (`LongestMatches`). `SavesHaveAnswered` (`SavedHasAnswered`) is an induction over the saves
  by the least one that would fail: a connection a save does not ask was in the save before. It assumes that no
  two entries of a save have one id, which is what `SourcesHaveOneID` says of an accepted section, and that what
  answers a ping goes on doing so. `DisabledIsValidated` is the first part of `ConfigsWhole` for any number of
  entries enabled or disabled at once.

`CachesWhole` and `AnswersWhole` are proved of `Services`, each of whose steps is a step of one service or leaves it
(`StepOfEach`).

Only model-checked: of Ownership the repeated report (`RetryChangesNothing`). It relates two reports offer by
offer: a proof needs, as part of its invariant, what every offer of the first was told (attached, refused by path,
refused by item, kept without a claim, left without an item) and that neither a later offer nor `Settle` takes
that back, with the two premises under which it is true; on larger instances than the run's (three offers,
three items, two roots of one source) it was searched without a counterexample, and without the premises it has one. Also
the other rules, most of which are
recursive (`f[n \in ...]` or folds; `RECURSIVE` operators occur only in modules no theorem reaches);
and liveness (`EveryChangeRun`, `EndsStored`'s second part, `DrainSettles`, `CallersAnswered`), which is out of
the prover's reach like ENABLED.

## Not modelled, and the plan

Three hazards are known and covered by no property: a row of the queue deleted and enqueued again starts at
generation 1, so that an acknowledgement repeated very late could meet it (`work.go:60`: the one drainer does
not repeat them); a terminal job write that lands and reports failure may be swept before its retry, which is
then refused for ever (`jobs.go:121`: the runs bound the retries); and a hand edit between the baseline check and
the write is overwritten (`save.go:103`: no file system offers the exchange that would close it).

Parts left out: HTTP, JSON and XML of each site; the imported regular expressions (`patterns_gen.go`) and the
program that generates them; CLDR's language matching; archive formats; audio decoding, FFT and embeddings of
`subsync`; character sets; JSON's own syntax and the migration of a schema; the generic cache, whose single flight HDBits
has; media servers; logging, metrics and the test rig. They are data, I/O or floating point.

What is next:

1. A proof of `RetryChangesNothing`, along the invariant outlined above.
2. The pass runner, the drainer and the subtitle writer as they enter the tree, in place of the callers modelled
   from the store's comments; Ownership and WriteIntents composed by their shared pin.
