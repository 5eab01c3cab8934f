# fragvault in TLA+

fragvault finds a player's Counter-Strike 2 matches on Steam, downloads and
parses the demos, and shows the highlights worth rendering. This directory
holds TLA+ models of the parts of it that decide something, TLC configurations
that check them on small instances, and proofs that TLAPS checks for every
instance.

    tlc -workers 2 -config AnalysisQueue_safety.cfg MCAnalysisQueue
    tlapm AnalysisQueue_proofs.tla

## 1. The system

| Part | State | Operations | Hard because |
|---|---|---|---|
| Analysis queue (`backend/internal/db/analyses.go`) | `demo_analyses` and its child tables | `Enqueue`, `ClaimNext`, `Complete`, `Fail`, `ClaimNextRederive`, `SaveHighlights`, `RequeueOrphaned` | rows survive the process; updates go by id without a look at the status; parser and detector versions change under queued rows |
| Worker (`demos/worker.go`, `download.go`, `retain.go`) | one goroutine's locals, a temporary file, a blob | claim, download, parse, retain, add avatars, complete or fail; with nothing to do, re-derive | any store call may fail or take effect without its reply; the process may die between any two steps |
| Parser (`demos/parse.go`) | the events so far, who has a clutch this round, last scoreboard row of each player | one handler for each game event | rounds are not tidy: demos that begin in the middle of one, frags in the warmup and after the end, players who come, leave and change sides, bots that share an id, demos that stop or break |
| Detectors (`demos/detect.go`) | none | `Detect` | it runs on fresh events and on events read back from the tables, whose times are rounded on the way |
| GC sidecar (`gc-sidecar/index.js`) and its client (`demos/gc.go`) | a promise chain, `gcReady`, a timer and a listener per request | `/demo-url`, `/ready`, reconnect | the coordinator's answers do not say what they answer; timeouts on both sides |
| Analyze handler (`cmd/server/main.go`) | none | ask the sidecar, `Enqueue`, answer | requests for several matches overlap; a browser leaves while the sidecar goes on |
| Match discovery (`db/store.go`, `matches/poller.go`, handlers in `cmd/server/main.go`) | `players`, `matches` | sign-in, onboarding, `GET /api/matches` | handlers of one player overlap; Steam fails half-way; tables are shared by players |
| Sessions (`session/session.go`), Steam OpenID (`steamauth/openid.go`) | a signed cookie | sign in, verify, expire, log out | the cookie outlives what it vouched for |
| Sharecode codec (`matches/sharecode.go`) | none | decode | base-57 arithmetic, byte order, oversized numbers |
| Analysis reads (`GetAnalysis`, `BestHighlights`) and the matches page | the row of a match on the page | queries; poll, press, submit | four queries and no transaction; answers out of order |
| Boot (`db.go`, `migrate.go`, `import.go`) | schema, advisory lock, JSON store | connect, migrate, import | two images at once, processes and Postgres stopping anywhere, an interrupted import |
| Other pages of the frontend | none | render | nothing |
| Deployment, infrastructure, workflows | containers | restart, upgrade | unattended upgrades |

How they interact: the browser calls the backend's handlers; the analyze
handler checks that the match is in the player's list, asks the sidecar for a
demo URL when the user gave none, and enqueues; the worker polls the table and is
the only one to write results; the parser and the detectors run inside the
worker; the pages read the tables. The database is the only state that survives a
restart of the backend; the blob container and, within one container's life, the
temporary directory are the other two.

What makes each part correct:

* queue and worker: a request that was accepted is answered; results appear
  together, are of the demo asked for, and are never taken back; highlights only get newer;
* sidecar and analyze handler: one request at a time, far enough apart, each answered once, and a
  match queued with its own demo;
* discovery: no match between the starting code and the pointer is lost, and none is stored twice;
* parser and detectors: a clutch is recorded once, for somebody who is alone;
  what goes through the tables gives the same highlights, at nearly the same times;
* page: never half a result, and never work for ever;
* boot: a migration is applied once and whole, the import loses no auth code and undoes none, and
  everybody ends up serving.

## 2. Modules

| Module | What it is |
|---|---|
| `AnalysisQueue` | queue, worker, download, retention, avatars, process and deployments |
| `AnalysisPromise` | what the queue promises to its users; no worker, fault or crash in it |
| `AnalysisQueue_proofs` | the inductive invariant and the theorems that follow from it |
| `AnalysisQueue_refines` | `AnalysisQueue` implements `AnalysisPromise` |
| `GcSidecar` | sidecar, resolver and coordinator, with a clock |
| `Analyze` | the analyze handlers, composed of `GcSidecar` (EXTENDS) and the queue (INSTANCE `AnalysisPromise`) |
| `Analyze_proofs` | theorems about the composition and the sidecar in it |
| `ShareCode` | the decoder of sharecodes, and the encoder of its test as a reference |
| `ShareCode_proofs` | each of the two undoes the other, for any alphabet and any widths of the fields |
| `MatchDiscovery` | players, sessions, matches, walks of their history; EXTENDS `ShareCode` |
| `MatchDiscovery_proofs` | theorems about any number of walks |
| `AnalysisReader` | `GetAnalysis` and a row of the matches page; EXTENDS `AnalysisPromise` |
| `AnalysisReader_proofs` | theorems about any number of calls |
| `Detectors` | `Detect` as operators, and the events' way through the tables |
| `DemoParser` | the parser's handlers driven by an untidy game; EXTENDS `Detectors` |
| `DemoParser_proofs` | theorems about teams of any size and demos of any length |
| `Boot` | processes that connect, migrate, import and serve |
| `BootPromise` | what boot promises: the schema, the accounts and who serves; no lock, fault or crash in it |
| `Boot_proofs` | theorems about any number of processes, and that `Boot` implements `BootPromise` |
| `MCxxx` | the constants and symmetries of the runs |

Definitions that start with a comment "Mutant" are not part of any
specification. Each is a plausible mistake in one definition, and each property
of a passing run is violated when its mutant takes that definition's place.

### AnalysisQueue

`rows` is the table, a function of (share code, parser version) because the schema
makes the pair unique; a row carries its status, URL, the order of `created_at`,
its detector version, the events and highlights stored with it and whether
`demo_blob_path` is set. Events are identified by the demo and the parser
that read it, highlights by the events and the detector: that is all the
properties tell apart. `pc` and `job` are the worker's position and locals, `tmp` counts
demo files on disk, `blobs` is the container, `parser` and `detector` are
the constants of the running binary.

Each store call is one statement or one transaction and so one action. It may fail
(`...Error`), having taken effect or not, since a lost reply looks the same to
the caller. `Crash` kills the process anywhere, `Restart` is the container's restart policy,
`Deploy` the same with newer versions (never older: images are only upgraded).
`RequeueOrphaned` runs at boot before anything is served, and the boot goes on if it fails.

The abstraction of a download or a parse is that it ends well or not. Avatars are fetched after
the parse, while the temporary file is still there, and are optional: `AddAvatars` goes on
whatever Steam says. The worker's context is cancelled only when the process ends, so a cancelled job is
a `Crash`.

### GcSidecar and Analyze

`chain` is the promise chain behind `queue`, `stage` the life of each request in it, `timer` and
`wait` the two timeouts, `unanswered` what the coordinator still owes. A tick
passes time; a due timer may be served late. `MatchList(a)` is the coordinator's
answer about request `a`: whoever listens takes it, which is what `csgo.on("matchList")`
does. `Exit` is the process leaving on a login error: open
connections break, answers still due to the old session are lost, and the next process does not
know when the last request was made, so the gap is only kept within one process. `ReceiveBroken` is an answer
that breaks off behind its status: the backend goes on with what it has, and a 200 without a URL is
`ErrNoDemoAvailable` to it (`gc.go:58-64`).

`Analyze` puts the handler around it. A request for a match may come several times and for several
matches at once; with a `demo_url` of the user's (`ByHand`) the sidecar is not asked, and a backend that was given no sidecar (`resolver`) answers
the others with 400 (`NoLookUp`). The browser may leave
(`Leave`): the client's context is cancelled and the sidecar does not hear of it, so the request goes on in the
chain. `Enqueue` is `Ask` of `AnalysisPromise`, or nothing if the row is being worked on or done, and the worker is
whatever the promise allows, restarts included (`Analyse`), but for `Refresh`: with one detector there is nothing to refresh, and
it would not touch what the properties look at. A request is made once, so that a second press is a second request.

### MatchDiscovery and ShareCode

`session` is who has a cookie that `Verify` accepts; it says nothing of the row of the player. The sign-in
writes the row first and gives the cookie afterwards (`Login`), or fails, maybe only in its reply
(`LoginError`); a cookie ends by expiry or logout at any moment, also under a walk, which does
not look at it again.

`walk[w]` holds the locals of one `GET /api/matches` handler; several run at
once, of one player or of several. `AppendMatches` is one transaction: the inserts with
`ON CONFLICT DO NOTHING` and the unconditional pointer update. Steam is external: it names
the next match of a history that grows while walks are under way, or fails. `SetOnboarding` takes any code that decodes:
of a match of somebody else, or of one that nobody has played yet.

A sharecode is a word over the characters that the regular expression admits, of which the dictionary has
fewer. Discovery decodes each code it is given and stops at one that does not decode. The lengths
are constants: 25 characters in base 57 for 18 bytes in the code, four characters in base 3 for six bits of two-valued
"bytes" in the runs. What matters survives the reduction: more words than numbers that fit, characters
outside the dictionary, three fields of different lengths, and their bytes in the opposite order of the number's. The
loops over digits and bytes are recursive functions, not RECURSIVE operators, so that the proofs can reason about them.

### AnalysisReader

The row of a match on the matches page: `page` is the answer it shows, `submitting` and `form` its two other
states, `calls` the API calls under way, each of them a handler that has made `read` of the four
queries of `GetAnalysis`. The table it reads is not `AnalysisQueue` but `AnalysisPromise`, which
`AnalysisQueue` is proved to implement: the page depends on nothing else, and the state space
stays small. One page is open, it is not reloaded, and the backend keeps its parser version
while it is open.

### Detectors and DemoParser

A demo is a run of `MaxEvents` events at the times of a schedule `At`, which never goes back and lets several events
fall into one tick. It may begin within a round (`currentRound` is 0, so that its end is not recorded, while its kills and
defuses are), and may end or break off (`Truncated`) anywhere. Scores are in tenths, highlights a set (their order is
only for display). A handler sees the game with its event's effect already
applied, as the library dispatches it, and a round number has one `RoundEnd`: both are
assumptions about the library and the game. Bots have Steam id 0, all of them: `steamID` maps them to `Zero`, the
snapshot skips them, kills and clutches do not. `Connect`, `Disconnect` and `SwapSides` are the game's and external; a player's
team is the side they are on at the time of the event. `Unresolved` is an event that its handler drops, for want of a victim or a defuser.

Parse and Detect compute times in float64; the tables keep `time_s`, `time_left_s`, `start_s` and `end_s` as `REAL`
(`0006_events.sql:15,31,44,47`, `0005_rounds.sql:11-12`). A time is therefore a number of units that a `REAL` cannot tell apart, and
`Narrow`, a constant, is the rounding: it never reverses two times but may make them one, takes a time no further than `Ulp`, and
leaves zero and two seconds, which are exact, as they are. `Columns` is what the tables keep, `Reload` what the queries make of it, ordered by the
rounded times. The runs round every odd time up, so that two times fall together and a defuse just under two seconds comes
back with two. Nothing is said of ticks: they are stored as they are, and only displayed.

### Boot

Several processes, each built with a number of migrations (`Knows`), go through `connect`, `lock`, `check`,
`apply`, `commit` for each migration left, then `import`, `begin`, `insert`, `serve`. `sessions` is whose
connection in use is alive; a process that crashes while it holds the advisory lock leaves
a session behind (`lingering`) that Postgres closes later, and a `COMMIT` it had sent may still take effect.
`applied` and `recorded` tell the statements of a migration from its row in `schema_migrations`, which one transaction
writes. The import runs under no lock: its inserts wait for rows of another uncommitted import (`Locked`), collide
with committed ones (`InsertConflicts`), or wait for each other (`InsertDeadlocks`). `Login` and `Onboard` are
what users do through a backend that already serves. A JSON store that cannot be read or does not
parse ends the process at its import and changes nothing (`import.go:37-39`, `49-55`, `main.go:73-76`), which is what `Crash` does there; one that stays so keeps
every backend down, and `EveryoneServes` is not about it, as `MaxCrashes` bounds the crashes. `Outage` ends every session and transaction. The waits of
Postgres are external; they are modelled as far as the code relies on them.

## 3. Runs

| Run | Question | Size |
|---|---|---|
| `AnalysisQueue_safety` | Do table, worker, disk and container ever disagree? | 2 matches, 2 URLs, 2 parsers, 2 detectors, 1 fault, 1 crash, 1 retry: 1.1 M states |
| `AnalysisQueue_restarts` | What do crashes and faults leave behind, is the promise kept, and, but for store faults, is every request answered and every stale analysis refreshed? | 1 match, 2 URLs, 2 parsers, 3 detectors, 2 faults, 3 crashes: 248 k states |
| `AnalysisQueue_stuck` | (violated) Is every attempt recorded? | 1 match, 1 fault |
| `Analyze_safety` | Are requests serial, spaced, answered, once and, until one times out, rightly, and is a match queued with its own demo? | 2 matches, 3 requests of which 1 by hand, 1 expired demo, 2 troubles, with a sidecar or without: 225 k states |
| `Analyze_swapped` | (violated) Is a finished analysis of the match it was asked for? | 2 matches, 2 requests, no trouble |
| `MatchDiscovery_once` | Does discovery leave gaps, lose what it found or store a match twice? | 2 players, 2 walks, 4 codes, up to 2 onboardings each: 962 k states |
| `MatchDiscovery_overrun` | (violated) Does discovery start at the last code given? | 1 player, 1 walk, 2 onboardings |
| `MatchDiscovery_shared` | (violated) Does a player keep every match walked over? | 2 players, 1 walk |
| `DemoParser_safety` | Are clutches, scoreboard and reloaded events right? | two bots against a bot and a human, 4 events, two of them in one tick: 458 k states |
| `DemoParser_duel` | (violated) Does the last one alive always get a clutch? | two humans against two, 4 events |
| `AnalysisReader_page` | Does a row of the page show half a result or wait for ever? | 2 calls at once, 2 URLs, 2 detectors, 1 failing call: 565 k states |
| `Boot_upgrade` | Do an old and a new image that boot at once spoil the schema or the import, and do both come up? | 2 images, 3 migrations, 2 legacy players and a new one, 3 crashes, 1 outage: 219 k states |

Each takes less than four minutes with two workers.

Why the bounds are enough. Queue: two rows are needed for a claim to choose and
for one row to be changed while the worker holds another; two matches under two parser
versions make four. Two URLs let a retry name another demo. One upgrade of each
version is enough for a row to outlive the binary it was asked of; `restarts` gives up the
second match to see three processes and three detectors, so that a refresh can be interrupted
and followed by another.

Analyze: three requests are one asking, one waiting behind it and one that does not go through the sidecar at all; the
two matches have different fates at the coordinator. The timers are one tick each, which is enough because nothing is
urgent: a due timer may be served late, so every order of the two timeouts and the answer occurs, the client's
ending first included, as it does when the 60 s of the client are used up by waiting in the chain.
`Analyze_swapped` keeps the client's timer the longer by as much as the queue in front of it needs, so that what it
shows is not owed to a hasty client. Two troubles let a request throw and the process exit, or the
process exit twice, or break an answer.

Page: two calls
under way can overtake each other, and slots are used again, so a late answer can arrive after any number
of others. Discovery: two walks can overlap in every order, the shared matches sit in the middle of the
longer history and the undecodable code at its end. Parser: in a demo that begins within a round four events allow
a kill, its end, a second round and a kill in it, or a plant, a defusal and what comes after, and the second and the third of them fall into one tick, so that the order of events at one time is at stake
when they come back from the tables; two against two is the smallest game with a clutch against
more than one and a duel. Bots on both sides share their id across the teams, and all but one player being a bot
lets a second bot be left alone after a first; `DemoParser_duel` has humans only. The runs of the parser do not check for deadlock, for a demo ends.

Boot: the old image knows one migration and the new one three, so that the new one finds one recorded, applies the
next, and may die with a third to go; two legacy players are the least that can wait for each
other, a third is nobody's but the users'. Two pings stand for thirty.
Three crashes let either image die in the middle of what the other left, and once more.

Fairness. `AnalysisQueue` assumes weak fairness of the worker and of the boot (`restart: unless-stopped`). Of
the worker's calls the download has a deadline that its author explains (`download.go:22-25`), and the database and
the blob client give up; the request for avatars is made without one, so a Steam that accepts a connection and
never answers would hold the only worker for ever. Nothing is assumed of that call: `AskedIsAnswered` and `StaleIsRefreshed`
exempt the worker that hangs in it. `Analyze`
assumes fairness of Node's event loop, of time, of the restart, of the client and of `net/http`, which runs a handler to its end. Nothing is
assumed of users, of Steam, of the coordinator, of faults or crashes. `Boot` assumes that each process that is not dead goes on booting, that
Postgres comes back and that it notices sessions whose client is gone.

The two liveness properties of the
queue end where a store fault strikes, since one fault is enough to strand a row (see below), and
`StaleIsRefreshed` where the process dies, since a row is marked current before it is refreshed.
`AnalysisReader` assumes that the browser polls and delivers, that a server answers, and of the queue
that an analysis taken up again and again ends some day (strong fairness of its end). The last is an assumption and more than
`AskedIsAnswered` says, which holds only where no store fault strikes and no call for avatars hangs: where one does, the page
shows work for as long as the row does.

### What the properties say

* `JobIsRunning`, `DoneIsWhole`, `RederivesStoredEvents`, `JobCarriesItsResults`, `BlobBehindPath`:
  why unguarded updates by id do no harm. The worker's row stays running until the worker
  ends it, a done row has events of its own demo and highlights of these very events, and
  a path names a blob that is there.
* `DoneIsFinal`, `HighlightsOnlyImprove`: what no step may do to a published analysis.
* `StrandedByFaults`: running rows that nobody works on are at most as many as store faults,
  plus the one a crash leaves until the boot.
* `TempFilesBounded`: one file in use, and one for each crash.
* `KeepsPromise`: the refinement of `AnalysisPromise`.
* `AskedIsAnswered`, `StaleIsRefreshed`: the two liveness properties.
* `ChainIsSerial`, `AskKeepsGap`, `AnsweredOnce`, `ChainMovesOn`, `RightUntilTimeout`: the sidecar. The
  last says how far serialising goes: as long as no request timed out, answers are not mixed up.
* `QueuedIsOwnUntilTimeout`: the same where it matters, in the table: whoever presses, leaves or presses again,
  before the first timeout no match is queued with another's demo, and no match is shown the results of one. `RequestIsAnswered`: and the browser gets an answer.
* `FoundIsSegment`, `NothingSkipped`, `OwnerIsForever`: discovery.
  `NothingSkipped` holds although a slower walk may move the pointer back, because every walk
  stores all it found before its pointer moves, for players who gave a code once.
* `StoredOnce`: the sharecode may be the key of the table, because decoding loses nothing; an oversized code
  would break it. And whoever has a match in their list has played it, though a starting code may be anybody's.
* `OneClutchEach`, `SurvivorIsAlone`, `NobodyVanishes`, `RederivesTheSame`: parser and detectors, bots included.
  `RederivesTheSame` says that no event is lost, merged with another or put in another order where a detector looks: the highlights of the
  reloaded events are those of the analysis, of the same kind, player and round, with windows and time left no further off than the rounding. It
  rests on the ids of the rows, which break the ties of events in one tick and of those whose times the rounding makes one (`ORDER BY time_s, id`).
  It does not say that they are equal: a defuse with just under two seconds left may come back with two and score as an ordinary one.
* `ShownIsWhole`, `WorkingSettles`: the page. That a torn answer never shows a finished
  analysis without its results follows from the order of the queries, status first, together with
  `DoneIsFinal`; highlights of one detector with a scoreboard read later are harmless since both are of one parse.
* `CheckStillHolds`: between the look into `schema_migrations` and the commit nobody else applies the migration: what
  the advisory lock is for, and why it has to outlive its process as long as its session.
  `SchemaIsWhole`: what is served on has every migration, whole.
* `NoCodeIsLost`, `KeepsPromise` (of `BootPromise`), `EveryoneServes`: boot and import. To its users a boot is three things: the schema gains
  its next migration, the accounts of the JSON store appear all at once in a table that has none, and a process serves, on a whole schema
  and with those accounts there; what a user stored is never undone by it. The import needs no lock: the primary key and the transaction make the second
  of two imports fail whole, and a failed boot is repeated until it finds the players there.

## 4. Disagreements

Between the code and what its comments say, each with a run that shows it:

1. `AnalysisQueue_stuck`: a store error from `Complete` or `Fail` (`worker.go:166`, `174`) is logged and the job
   dropped; the row stays running and only a restart frees it.
2. `Analyze_swapped`: an answer later than its timeout is taken by the next request, and so on
   down the line (`index.js:193`); the next match is queued with it, analysed, and done for good with
   the results of another game.
3. `MatchDiscovery_overrun`: a walk begun before an onboarding overwrites the code given (`store.go:128`).
4. `MatchDiscovery_shared`: a match is stored for the first of its players only (`store.go:121`).
5. `DemoParser_duel`: in one against one the player who just became alone is passed over
   for the terrorist (`parse.go:237`).

Seen while modelling, with no run of their own:

* `ClaimNext` analyses a row queued before an upgrade
  with the newer parser under the older version (`analyses.go:227` against `0006_events.sql:52`);
* a coordinator that is merely slow is reported as an expired demo (`index.js:250` against `gc.go:13`), and the
  comment there expects the backend to record a failed analysis, while it answers 404 and records nothing
  (`main.go:316`);
* a kill after the end
  of a round still makes a clutch of that round, reported as won (`parse.go:123` against
  `detect.go:100`);
* all bots have one id, so the kills of several of them in a round add up to one multi-kill, and the second bot that
  is left alone in a round has no clutch (`parse.go:211`);
* an answer that was on its way
  when the user pressed Analyse or Retry and arrives after the answer to that puts "none" or "failed" back on
  the row, which then no longer polls although work is in flight (`MatchesPage.tsx:95` against lines 89-90);
* headshots are counted over the warmup and divided by kills that are not
  (`parse.go:188` against `events.go:124`);
* a second process that boots beside one that works, as `migrate.go:32` provides for, would requeue the row that
  is being worked on (`main.go:115`); the deployment runs one;
* a sign-in for which Steam gives no profile stores the Steam id over a good name, and no avatar over a good one (`main.go:151`);
* `loadEvents` "reassembles what the parser originally produced" (`analyses.go:396`) but for the rounding of its times, so that a
  re-derived defuse may lose its five points at the edge of two seconds (`detect.go:204`); `RederivesTheSame` allows exactly that;
* if the JSON store is not there at the first boot and somebody signs in, it is never imported (`import.go:45`).

## 5. Proofs

Each proof is for any sets, any bounds and any number of actors: the constants are limited only by the named
assumption of the module. Each follows one pattern: an inductive invariant `IInv`, one lemma for each step
or group of alike steps, and the theorems from `Invariance`.

`AnalysisQueue_proofs` (from `BoundsAssumption`):

* `Invariance`. No single property is inductive. `Complete` may write to the row in
  hand only because it is still running (`JobIsRunning`), what it writes is whole only because of what the
  worker carried there (`JobCarriesItsResults`), a refresh is right only because done rows keep their
  events (`DoneIsWhole`) and the worker re-read them (`RederivesStoredEvents`). `IInv` is their conjunction with
  the types and `BlobBehindPath`; `AnalysisQueue_safety` checks every conjunct. One more fact is needed of the versions,
  `VersionsGrow`: no row asks for a parser newer than the binary, so events are never older than their row says.
* `TypeCorrect`, `JobRowIsRunning`, `ResultsAreWhole`, `PathsHaveBlobs`, `RederivesStored`, `JobIsEquipped`: the conjuncts as theorems.
* `FilesAreBounded`, and `StrandedHasReason`: each fault and each death adds at most one to a finite set, and a boot empties it.
* `DoneForGood`, `HighlightsForBetter`: the two action properties.

`AnalysisQueue_refines` proves `ImplementsPromise`: the initial states map, and under `IInv` every step is a
step of `AnalysisPromise` or leaves its four variables alone. There is a lemma for each step that is
visible to users (enqueue, claim, complete, fail, save, requeue) and one for all the others.

`Analyze_proofs` (from `TimesAssumption`, `NamesAssumption` and `ByHandAssumption`): the handlers move the sidecar only through its own
actions and `Leave` (`ComposedMoves`), so one invariant serves both. It says that the chain has exactly the
queued requests (`ChainIsExact`), that one is asking (`OneAsking`), that who is on the way has no reply
(`NoReplyYet`), that the sleep makes up for what is missing of the gap (`GapIsSlept`), and, the key of it, that
until the first timeout the coordinator owes an answer only to whoever listens (`RepliesAreOwn`): this is what a timeout
breaks. `ChainStaysSerial`, `AnswersAreRight`, `GapIsKept`, `AnswersAreFinal`, `TypeCorrect` follow, and `QueuedIsOwn` by one more
invariant of the table: every URL in it, and every result and highlight behind one, is of the match of its row or was typed in.

`ShareCode_proofs` (from `ShareCodeAssumption`: the largest number of 18 bytes has room in the characters of a sharecode). The loops of the decoder
and of the test's encoder are recursive functions, and what they compute takes an induction. The library's induction theorems have a property as a parameter, which the
installed provers cannot instantiate, so the module proves its own over sets: a set of numbers has a smallest (`Smallest`, from the well-foundedness of finite sets),
hence `Induction`, hence a recursive definition has the function it describes (`RecursiveFunction`). On these rest `DigitsOfValue` and `ValueOfDigits`, that
a number and its digits determine each other, and the theorems `DecodeUndoesEncode`, `EncodeUndoesDecode` and `CodecIsExact`.

`MatchDiscovery_proofs` (from `HistoryAssumption`): a walk's pointer is ahead of its start and the last it found
(`WalksForward`); before the start of a walk nothing is missing (`WalksStartStored`), which is what makes the
stale pointer of a slow walk harmless: the segment up to it is stored, and the segments before and behind a code cover
the whole (`JoinedSegments`). `SegmentsAreFound`, `NothingIsSkipped`, `FirstOwnerStays`, `TypeCorrect`. That what is found has been played is
a second invariant (`PlayedInvariance`); with the codec it gives `EveryMatchIsStoredOnce`.

Three more theorems say how far the two disagreements about discovery go. `OnlyLostToATeammate`: a match missing from a list is in that of another who
played it. `NobodyLosesAlone`: so nothing is missing where no two histories meet and everybody gave a code once. `OnboardingInPeace`: discovery starts where
the player said as long as nobody gives a new code during a walk of their own, whoever else is walking; its assumption is an action
property (`Peaceful`), its invariant that nothing is missing before the start of any walk, however many onboardings there were.

`AnalysisReader_proofs` (from `PageAssumption`): `Fits(a, n)` says what an answer with `n` of its queries made may hold given the table as it is now.
It stays true of answers under way because the promise takes nothing back (`FitsOn`). `NothingShownIsTorn`, `TypeCorrect`.

`DemoParser_proofs` (from `TeamsAssumption`, `TimerAssumption`, `TimeAssumption`, `RollsAssumption` and `NarrowAssumption`): `IInv` adds to types and `OneClutchEach` that nothing recorded is of a
round to come (`NothingAhead`), without which a new round would not begin with no clutch seen.
`LastAliveIsAlone` is about `lastAliveOnTeam` alone, by cardinalities of finite teams. `OneClutchARound`, `ClutchesAreTrue`,
`NobodyIsLost`, `TypeCorrect`. A second invariant, `CollectedInOrder`, says that events are appended in the order of their times and rounds in
the order of their numbers (`Counted` needs to know whether a round is live, since only then is its number still free). Sorting by rank leaves such a sequence alone: the
rank of a row is the number of rows before it, and the rows before the k-th are the first k - 1, whose number is known. Hence
`RederivingIsAnalysing`: rounding keeps a list of growing times growing (`TimedNarrow`), so what is loaded are the columns that were stored, in their
order. What remains is what each detector makes of rounded times. A multi-kill, found by the places of its kills, and a clutch only have their
windows moved (`KillColumns`, `ClutchColumns`, `RoundColumns`); the opening duel is the first of its round before and after, because of two kills that rounding makes
simultaneous the earlier one is listed first; a defuse (`SameDefuse`) keeps its score unless it is rounded up to two seconds.
`NothingIsShownTwice`: highlights of one kind, round and player are one, of which the clutches need `OneClutchEach` and the opening duel a
tie to be broken by position. `MissedOnlyInADuel` says how far the disagreement about the last one alive goes: whoever is left alone against enemies is
noticed, except the counter-terrorist of a one on one.

`Boot_proofs` (from `BootAssumption`): who migrates over a living session holds the lock, and nobody does while a session
lingers (`LockIsExclusive`); what the holder found out is still true (`MigrationsInOrder`); imports are apart from each other and
from what is committed (`ImportsApart`); and the players of the JSON store come before anybody else, all or none
(`LegacyFirst`), for nobody serves until they are there. `ChecksHold`, `SchemasAreWhole`, `CodesAreKept`, `NewerStays`, `TypeCorrect`.
`ImplementsPromise` is the refinement of `BootPromise`. It needs one more invariant, `NextMigrationOnly`: what a process is about to
commit, or a lingering session has yet to, is the migration right after those in the schema and one that it knows; with
`ImportsApart` it makes every commit, in whatever order, a step the promise allows.

Only model-checked: the liveness properties (`AskedIsAnswered`, `StaleIsRefreshed`, `RequestIsAnswered`, `ChainMovesOn`, `WorkingSettles`,
`EveryoneServes`), because temporal proofs under fairness and ENABLED are out of the prover's reach; and the refutations. Every safety
property that a passing run checks is a theorem.

## 6. Not modelled

* The frontend's other pages: they render an answer that they fetch once.
* `login.js`: a script run by hand, once.
* Infrastructure, the render machine and the workflows: declarations. Rendering clips is described in `docs/` and not written.
* Of sessions and sign-in: signatures, keys and the OpenID exchange with Steam, which are reduced to accept or refuse. They
  keep no state between requests.
* Of the reads: `BestHighlights`, one query, and a deployment while the page is open.
* Of the parser: the map name, the final score, ADR and headshots, and two `RoundEnd`s for one round number, for which parser and table
  disagree on which winner counts (`analyses.go:282` against `detect.go:106`); whether the library ever reports them is not known from the code.
* Of the detectors: ticks, titles and the order of display.
* Of the import: matches, which are inserted in the same transaction as the players. A match of two legacy players is stored for one of them, as in discovery.
* Of the queue: that a retried row keeps its `created_at` and so goes first (`analyses.go:228`); a user who presses again and again could
  hold up the others. Retries are bounded in the model, and `AskedIsAnswered` is about each row under that bound.
  Nor is there a bound on how often a demo that kills the process is requeued (`analyses.go:104`): `Crash` is bounded, and the crash loop is outside the bound.
* Wording of errors, logging and metrics anywhere.

## 7. Plan

Done, in this order because the queue is what the rest of the program hangs on: `AnalysisQueue` with its promise
and proofs, `GcSidecar`, `MatchDiscovery`, `Detectors`, `DemoParser`, `AnalysisReader`; then `Analyze`, `Boot` and `ShareCode`, sessions, bots and
avatars, and the proofs of the five other components.

Left: two ends of one round number and the share of headshots in `DemoParser`; a deployment under an open page in
`AnalysisReader`; two backends over one queue, should the deployment ever run two. For the proofs: that a padded clip of a highlight never
ends before it starts, which needs facts about `SelectSeq` and the maximum of a finite set; and what the queue still keeps of its promise
to each single row under store faults.
