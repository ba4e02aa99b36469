# A formal model of scanerr

scanerr finds hosts, open ports and services on a network and serves them as a
searchable inventory.  Its stages are separate processes, any number of each,
that talk only through leased queue tables in Postgres (PLAN.md: "DB-as-Queue.
Stages communicate only through leased Postgres queues.  Crash-safe
at-least-once.").  This directory holds TLA+ models of those stages, the TLC
instances that check them and TLAPS proofs about them.  All definitions follow
the Rust source and the SQL in it; where a document or a comment says something
else that a behaviour of the system can contradict, a run of its own shows the
difference.

Paths below are relative to the root of the repository.

## 1. Inventory

| Component | State | Operations | Hard because |
|---|---|---|---|
| Leased queues, `src/queue.rs` | rows with a unique key, `attempts`, `claimed_until` | claim, complete, sweep (two statements), increment_attempts, heartbeat, insert | many processes, leases that end under a worker, deletes by id |
| Sweep stage, `run_sweep` | position in the list of ranges | wait for backpressure, masscan a range, insert live hosts | the gate reads another stage's queue, errors open it |
| Deep scan stage, `run_deepscan` | sweep tick, semaphore, spawned tasks | claim one host, count the attempt, wait for a permit, scan, insert ports, complete, sweep | leases against a semaphore, kills by the memory limit, lost answers |
| Probe stage, `run_probe`, `src/probe/dispatch.rs` | spawned tasks; rows of `hosts`, `services` | claim ten endpoints, probe under a timeout, store, mark honeypots, queue enrichments, complete | five statements per answer, each may fail, tasks without bound |
| Probe engine, `crates/scanerr-protocol/src/engine.rs` | none | banner first, then HTTP and HTTPS, then probes that need no banner | overlapping banner tests, priorities, no second try |
| Protocol probes, `crates/scanerr-protocol/src` | none | one exchange each | parsing |
| Enrich stage, `run_enrich`, `src/enrich` | spawned tasks, files, `service_assets`, parts of `services.data` | claim ten, fetch or run ffmpeg, write or rename a file, upsert the asset, `jsonb_set`, complete | shared temporary files, races with a new probe and with maintenance |
| Maintenance, `src/normalize.rs`, `src/reidentify.rs` | position in `services` | read a chunk, rewrite documents | whole documents written back after others changed them |
| Fingerprint engine, `crates/scanerr-fingerprint/src` | signatures | load, evaluate, score, break ties, merge tags, detect technologies | tie-breaking, what an older corpus left behind |
| Query compiler, `src/query.rs` | none | tokenize, parse, compile to SQL and parameters | escapes, placeholder numbers, precedence, NULL |
| Web UI and API, `src/serve` | none | read-only queries | none of its own |
| Configuration, schema, deployment | constants | read at start, migrate, restart containers | silent defaults |

How they interact.  `run_sweep` inserts into `queue_host_scans` and looks at the
depth of `queue_service_probes`; `run_deepscan` drains the former into the
latter; `run_probe` drains that into `hosts`, `services` and
`queue_enrichments`; `run_enrich` drains that into `service_assets` and into the
documents of `services`, which the maintenance commands rewrite as well.  There
are no other messages: all interaction is the interleaving of SQL statements.

What makes each part correct.

* Leased queues: of two workers on one row, one has outlived its lease; a
  running lease is not taken, swept or dropped; an id has one fate; a row leaves
  its queue in the end.
* Deep scan: never more than two tasks per replica and no permit lost; a host
  leaves the queue dropped, or with every port of a finished scan handed on or
  reported as an error.
* Probe: an endpoint leaves the queue given up, firewalled, or with its answer
  and every enrichment handed on or reported; a host with too many services is
  marked.
* Enrich and maintenance: an asset, and the frame of a document, name a file that is
  there, with the bytes its name says; a picture is of the service it is stored for; a
  hash that was fetched reaches the document, and nobody undoes another's write
  unnoticed.
* Query compiler: what the user wrote is what is parsed, and the SQL with its
  parameters finds what the query tree means.
* Fingerprint, dispatch and normalize: the best signature wins whatever the order
  of the files; a document depends on the endpoint, the corpus and the favicon
  hash it was last identified with, not on the rest of its history; an honest server is
  stored as what it is.
* Sweep: no range is skipped or starved, and the results of a range are its own.

`PROJECT.json` lists every hazard found in this code at the line where it bites,
with the property that covers it or the reason why none does yet.

## 2. Modules

| Module | What it is |
|---|---|
| `Tables` | updates of finite tables (put, overlay, remove), in a form the proof system can expand |
| `LeasedQueue` | the statements of `src/queue.rs` as operators on the value of one queue table |
| `JobQueue` | the abstract at-least-once queue: submit, hand over, refuse, close, drop |
| `Sweep` | `run_sweep` with `masscan.rs` and the ranges of `config.rs`, and the stages downstream by what they promise |
| `DeepScan` | `run_deepscan`: replicas, claim loops, tasks, semaphore, sweep, faults |
| `ProbeStage` | `run_probe` with `probe/dispatch.rs`: batches, probes, hosts, services, enrichments, faults |
| `ProbeDispatch` | the banner-first choice of a probe, `scanerr-protocol/src/engine.rs` and the banner tests |
| `Fingerprint` | loading, evidence, scores, resolution, technology detection, identification |
| `Normalize` | canonical kind, product and tags, `src/normalize.rs` |
| `Documents` | the life of one document through dispatch, identification, favicon enrichment and maintenance |
| `ServiceStore` | all writers of documents, assets and files: upserts, `run_enrich`, `src/enrich`, backfill, reidentify_http |
| `QueryCompiler` | tokenizer, parser and compilation to SQL, `src/query.rs` |
| `Search` | a search from its text to its SQL |
| `SearchMeaning` | how a tree is written as a text, what it means, and what Postgres finds with its SQL |
| `MC...` | constant values and symmetry sets for TLC |
| `LeasedQueueProofs`, `JobQueueProofs`, `DeepScanProofs`, `ProbeStageProofs`, `SweepProofs`, `ServiceStoreProofs`, `DocumentsProofs`, `SearchProofs` | lemmas and theorems |

`ServiceStore`, `DeepScan` and `ProbeStage` extend `LeasedQueue`; `DeepScan` and
`ProbeStage` instantiate `JobQueue`; `Documents` extends `Fingerprint` (which
extends `Normalize`) and `ProbeDispatch`; `Search` extends `QueryCompiler`, and
`SearchMeaning` extends `Search`.

**LeasedQueue.**  A table is a function from ids to rows.  Each operator is one
SQL statement, which Postgres executes atomically; `FOR UPDATE SKIP LOCKED`
serialises two claims so that they take different rows.  `Null` is 0: a claim
always writes a positive time, and the code itself compares
`COALESCE(claimed_until, 0)`.

**DeepScan.**  `pc`, `t`, `tick` and `permits` are the local variables of the
loop (`t`, `sweep_tick`, `sem`); `jobs` holds the rows in the hands of a loop or
of a task, with the program point of each.  There is one action per awaited
statement: `ReadClock`, `ClaimHostScan`, `CountAttempt`, `SpawnTask` (permit,
spawn and sweep tick, between which nothing awaits), `ScanEnds`,
`InsertServiceProbe` per port, `CompleteJob`, `SweepFirst`, `SweepSecond`.
`ClaimFails`, `SweepFails`, `CompleteFails` and the second disjuncts of
`CountAttempt` and `InsertServiceProbe` are the errors that the code ignores or
logs; `Crash` and `Restart` are the kill and the restart of a container.  A lost
answer of a claim that was committed is one of the outcomes of `ClaimFails`.

**ProbeStage.**  The claim loop takes `Batch` rows and spawns all its tasks in
one action.  A task goes through `ProbeAnswers`, `EnsureHost`, `UpsertService`,
`FlagHoneypot`, `EnqueueEnrichment` per kind in the order of the code, and
`CompleteTask`; `ProbeGivenUp` is an error or the timeout, and `EnsureHost` may
also end in it, standing for the reverse DNS and GeoIP updates that follow and
change nothing modelled.  A task is named by its row and lease, which is unique:
a row is leased again only when its lease is over, and then for longer.  An
answer is what the later steps distinguish: firewalled, or stored and calling
for a set of enrichments.

**JobQueue.**  What a stage promises its neighbours, without leases, workers or
clocks.  A row may leave the queue only as closed, with all results of the run
that closed it handed over or refused, or as dropped.  Results may arrive late,
twice and in any order.  Both stages are shown to implement it, by TLC and by
proof, with the queue table mapped to `pending`, over the history variables
`handed`, `refused`, `closed` and `dropped`, which no action reads.  `Promises` and
`FatesFinal` are what a neighbour gains by it; they are proved of `JobQueue` once and
carried over to both stages.

**Sweep.**  One loop, one action per awaited step: `Pause` or `OpenGate`,
`Masscan`, `ReadOutput`, `InsertHostScan` per host, `NextRange`.  `out` is the
directory with masscan's output files, named after the counter (the pid is the
same for each process of the container); a killed process leaves its file there.
The queue whose depth the gate reads is fed by the loop's own hosts, so
`DeepScanHost`, `ClaimProbe` and `CompleteProbe` stand for the stages downstream,
as `JobQueue` describes them.  A claimed row does not count, as in the code.

**ServiceStore.**  A probe replaces a whole document (`Upsert`) and then asks for
its enrichments one by one (`Ask`).  The enrich process claims a batch and starts
a task per row, which goes through `FetchFavicon`, `FetchSnapshot` or `RunFfmpeg`,
`ReadFrame` or `ReadCamera`, `Open` and `Write` or `RenameFrame`, `RecordAsset`,
`WriteHash` and `CompleteTask`; an error completes the row all the same.  `temp` is the
temporary files by path: one per service in the assets directory for RTSP
services, one in `/tmp` for all cameras.  Bytes are known by whose picture they
are, and a hash stands for its bytes; `saved` maps the hash in a file name to the
bytes in the file, so that a wrong name is seen.  `std::fs::write` under the final name
is two steps: `Open` truncates the file, which holds `Partial` until `Write`; a kill, an
error or another writer in between leaves it so.  Favicons (`.ico`) and frames (`.jpg`)
have different names.  A document has a favicon as a number, `favicon_hash`, which names
no file: `ProbeHash` is the one the HTTP probe puts there itself, any other the
enricher's, written after its asset.  `StartMaintenance` and
`MaintainNext` are the read and the delayed writes of a chunk.  Four history
variables name the windows the code leaves open: `crossed` the temporary files
two workers used at once, `late` the services whose capture outlived its lease, `cut`
the names whose file a kill or an error left half written, `lost` the keys whose hash was kept back by an error,
by a request that `ON CONFLICT DO NOTHING` refused although the worker on the row
had already written, by a maintenance command that wrote an old document back, or
by the death of a process at work on a row that an earlier worker, its lease long
over, had deleted.  The last of these takes a clock of five, beyond the bounds of
the runs; the induction of `ServiceStoreProofs` asks for it.

**Documents.**  `Document` chains what `probe` chains: technology detection,
identification, normalization.  `Deploy` changes the signature files, `EnrichFavicon`
replaces `http.favicon_hash` by the enricher's hash, which is another than the probe's
and is evidence, without identifying again; `Probe`, `ReidentifyHttp`, `Backfill` and
`EnrichFavicon` each run whole here, and their statements interleave in `ServiceStore`.
The history variables `used` and `seen` are the corpus and the favicon hash of the last
identification.  A document of any kind has evidence: what a page shows to HTTP
(`web`), or tells another probe (`told`); which probes name a product, a version or tags
is in `NamesProduct`, `NamesVersion` and `OwnTags`.  A matcher's test is the set of values it accepts, so equality,
substrings and regular expressions are alike; a document's facts are a function
from fields to sets of values.  An endpoint of `ProbeDispatch` is the traits the
dispatcher can see: what its greeting contains, which probes it answers, which
HTTP schemes, whether the first read succeeds.  The loops of the code over a
sequence (the characters of a name in `slugify`, the matchers of a signature in
`total_weight`, the signatures in `resolve`) are recursive functions of the position
reached (`Slugging`, `Weighing`, `Resolving`), one value per iteration; `Words` are
the parts of a name that the code never looks into, so a name is a sequence of words,
separators and dropped characters.  `Detect` pushes the technologies in the order of
the code, because of two that differ in case only the first stays.

**QueryCompiler, Search and SearchMeaning.**  A text is a sequence of symbols: the
punctuation the tokenizer looks at, and words.  The loops and the recursion of the
code are recursive functions of a place: `ReadQuoted`, `ReadKeyVal` and `Tokenize` of a
place of the text, `Rules` of a place of the tokens, where it has what the loops of
`parse_and` (`factors`) and `parse_or` (`sides`) read from there on.  A rule of the
parser looks its callees up behind its own place.  `CompileToSql` is a function of a
tree and of the number of parameters that are bound before it, which is all that
`compile_node` reads of its caller's vectors.  Tags, JSON values and keys are put between
apostrophes into the SQL as they are; one that holds an apostrophe (`EndsLiteral`) gives
the word `torn` in place of its condition, a clause of which nothing more is said.  The domain of such a function has to be
a set, so trees are no deeper than `MaxText`, the bound on the length of texts: a tree is
less deep than its text is long, as `SearchProofs` shows.  The SQL is a sequence of
words: tests with placeholder numbers, signs and parentheses where the code writes
them.

`Search` sends a text through `Tokenize`, `ParseTokens` and `CompileToSql`.
`SearchMeaning` writes a tree out as text, with quotes, escapes and parentheses where
the grammar needs them (`Write`), reads SQL as Postgres does, `AND` before `OR`
(`ReadSql`), gives it its three-valued meaning on a row (`Evaluate`; a statement that
compares a port with what is no number fails and finds nothing, `Fails`), and compares with
`Means`, the meaning of the tree, which knows nothing of SQL.

Definitions such as `ClaimableOnce` or `UpsertFlagsFirst` are faulty versions of
the definition after them.  No action uses them; each was put in place of the
good one to see that a property notices (`mutants` in `PROJECT.json`).

## 3. Runs

| Run | Instance | Shows |
|---|---|---|
| `deepscan_safety` | 2 replicas, 2 hosts, 2 ports, lease of 1 s, clock to 3, one fault | types and one fate per id, permits, leases that nobody disturbs, and that the stage implements `JobQueue` |
| `deepscan_live` | 1 replica, 2 hosts, 2 faults, clock to 5 | every row leaves the queue, the loop never waits for a permit for ever |
| `deepscan_duplicate_work` | no faults | violated: a row is in two hands when a lease runs out |
| `deepscan_attempts` | 1 host | violated: a row is attempted more than `max_attempts` times |
| `probe_safety` | 2 replicas, 2 ports of 1 host, batches of 2, clock to 3, honeypot above 1 service | types and foreign keys, leases that nobody disturbs, no honeypot is missed |
| `probe_live` | 1 replica, 2 rows, 2 faults, clock to 4 | the stage implements `JobQueue` under faults, every row leaves the queue |
| `services_pictures` | 2 cameras, each with or without an RTSP part, 2 probes, 2 rows, lease of 1 s, clock to 3, one url each | types and foreign keys, every asset and frame has its file, whose picture it is, what it is named, that nobody shares a file of one service before a lease runs out, and that hashes arrive |
| `services_documents` | 1 web server that may become something else, 2 favicons, 2 probes, 1 maintenance run, 1 fault (also half way through a file) | nothing names a missing file, a wrong file is one that was cut off, hashes arrive in the documents unless an error or a named race kept them back; every row leaves the queue |
| `documents` | every greeting with every single protocol, with and without HTTP; 2 pages with a hash of the probe's or none, and one of the enricher's; 7 corpora in different orders | documents depend on nothing but their last identification, the best signature wins, honest servers are recognised but for an unnamed MySQL |
| `query_language` | all trees of two operators and some of three over 11 conditions; all texts of up to 5 symbols over 9 | the parser, the placeholders and the meaning of the SQL |
| `query_parameters` | the same trees over two ports | violated: a query with OR or NOT searches for the wrong parameter |
| `sweep` | 2 ranges with a host each, 2 ports, depth of 2, 2 faults, ranges in line or from a file | ranges in order and again and again, results of the right range |

The three violations are disagreements of the code with its documents, each under
`findings` with the quoted line: PLAN.md:223 says that leases prevent duplicate
work, but no stage calls `heartbeat`; main.rs:242 says that hosts are dropped
after `max_attempts`, but a claim does not look at attempts and the sweep runs
once in fifty claims; PLAN.md:317 gives the meaning of `port:443`, but on the
right of an OR its placeholder is the left side's.

What `query_language` found about the language is in its properties: a bare word is
a chain of ORs without parentheses, so `nginx port:80` applies the port to the last
field only (`Separate`; such a clause finds too many rows and, without a NOT, never too few); NOT over a NULL column drops the row (`Negates`); the text
after a stray `)` is ignored (`BalancedQueryRead`); an apostrophe in a tag, a key or a JSON value ends
the literal it is put into (`Splices`).  `documents` shows that SMTP
greetings always go to the FTP probe, which has the same priority and comes first,
and a BGP speaker that greets goes to Telnet, and that a MySQL server which does not
name itself (MySQL 8 greets with its bare version) is never stored as one:
`HonestServerIdentified` names all three.  It also shows that a favicon enrichment may
leave a product behind that a new identification of the same document would not give:
PLAN.md:285 and 305 have the enricher identify again, `favicon.rs` does not.
`services_documents` shows that a file may keep a name that is not the hash of its bytes
(`cut`), and that such a file is served until the same bytes are fetched again.
The banner tests of SSH and BGP are never asked, as both probes need no banner.

**Why the bounds are enough.**  A lease of one second and a clock of three let a
lease run out and the row be claimed a second time, by the same replica or
another, with the first worker at every possible point; a longer lease adds only
ticks at which nothing is enabled that was not before.  Two replicas, two jobs on
one row and two rows are what the mutual exclusion properties quantify over.
`SweepEvery = 1` makes the sweep interleave with everything (in the code it is
50), `MaxAttempts = 1` makes rows be dropped, `MaxConcurrent = 1` makes the loop
wait for a permit, `Threshold = 1` separates a honeypot from a host.  A fault is
taken only while its lease can still run out before `MaxClock`; otherwise the
end of the modelled time, not the code, would keep a row in the queue.
`JobId` bounds the jobs in flight: with none free, the model does not claim.
Three are enough for two replicas of which one has a task and a row waiting.
In `probe_safety` there are no faults, which `HoneypotFlagged` asks for, and
`probe_live` adds them.

In `services_pictures` a row can be claimed a second time while its first worker is
at any point, and two services that are cameras without an RTSP part have their two
rows in work at once and share the camera file: these are the two ways in
which captures meet, and the run reaches both, with pictures stored for the wrong
camera (`0 \in crossed`).  It has no faults, so that what is `lost` there is lost to a
capture or a race alone, and `services_documents` adds them and a maintenance command,
for favicons, of which a service shows two, one after the other.
The runs have one url per capture: the retry with another (`NextPath` with `tries` above
one), and faults and maintenance around captures, are in the proofs only.
In `sweep` two ports of two hosts fill the queue to its depth of two while a
third row waits, `MaxScans = 2` makes a restarted process meet the file names of
its predecessor (a multiple of the number of ranges, as the counter of the code does
not wrap), and the ranges come in either order, from the configuration or from a file
with a comment and a blank line.  `documents` has the tie-breaks of the scores (equal score with
different priorities, both orders of the same files), a file that does not parse,
and signatures that match on tags and products, which is how an older document
could feed a newer one, and on the enricher's favicon hash, which a probe never has.  In `query_language` every pair of operators is nested
either way, and eleven conditions are one or more of each class of
`ClassifyFilter`, a tag and a bare word with an apostrophe among them; the longest text has 44 symbols, and `MaxText` is 50.

**Deadlock** is not checked where the model stops by itself: with the clock at its
bound and the queue empty only the polling loops are left, and a search ends when
its text is compiled.  `sweep` and `documents` check it.

**Fairness.**  Weak fairness of the clock, of each claim loop and of each task:
tokio and the operating system run every runnable task, and none of these steps
is disabled by another actor for good while it waits for nothing but itself.
Weak fairness of `Restart`: the compose file says `restart: unless-stopped`.
A probe ends because of its timeout.  That masscan ends is an assumption: the
code has no timeout for it.  Arrivals of work and faults have no fairness.
Downloads of the enrichers end because of their timeouts; that ffmpeg ends is, as for
masscan, an assumption.  In `sweep` the stages downstream empty their queues, which is
what `EveryRowLeaves` and `EveryProbeLeaves` show of them.
A loop that waits for a permit depends on the tasks of its replica;
`LoopGoesOn` shows that they always give one back.

## 4. Proofs

`LeasedQueueProofs` states what each operator does to ids, keys and leases.
`DeepScanProofs` proves, for any sets of hosts, ports and replicas, any lease time, number
of permits, attempts, sweep period, threshold and faults:

| Theorem | States |
|---|---|
| `Typing` | `Spec => []TypeOK`, including that each id ever issued is in the queue, completed or dropped, and in one of them only |
| `PermitsSafe` | `Spec => []PermitBound` |
| `LeasesExclude` | `Spec => [](LiveLeaseExclusive /\ LeaseProtects)` |
| `LeasesProtect` | `Spec => []LeaseProtects` |
| `LeasesStay` | `Spec => LeaseUndisturbed`, an action property |
| `Implements` | `Spec => ImplementsJobQueue` |
| `Delivered` | a completed host is a honeypot or has every port of its scan in `handed` or `refused`; nothing is reported on a host nobody submitted; no host is queued twice |
| `FateIsFinal` | no step takes back a port, a completion or a drop, or uses a row id again |
| `Invariant` | `Spec => []IInv` |

Assumptions: `LeaseTime`, `MaxConcurrent`, `MaxAttempts` and `SweepEvery` are
positive, `Threshold` and the bounds are natural numbers, `JobId` is finite (of
any size; `PermitBound` counts tasks).

The argument.  None of the properties is inductive alone, and `IInv` adds

* `JobKeys`: a job's row was issued, and wherever it is now (queue, completed or
  dropped) it has the job's host.  Without it a completion could close a row
  under another key and the refinement would fail.
* `TimesPast`: no loop's time is ahead of the clock.  A claim or a sweep with an
  old time only sees leases that ended before that time, hence before now; this
  is why a stale `t` is harmless and why a lease that still runs
  (`clock <= lease`) is neither claimable nor swept.
* `PermitsKept`: free permits and tasks add up, and a dead replica has no jobs,
  so that a restart with a fresh semaphore is consistent.
* `Reported`: what a scan found is either still to do or was handed over or
  refused, and nothing is to do once a job is completed.  That is what `Close`
  of `JobQueue` asks for.

`LeaseProtects` is the heart: a job whose lease runs has its own lease in the
row.  From it follows `LiveLeaseExclusive`, because two jobs on one row with
running leases would both be in `claimed_until`, and the second claim could only
happen when the first lease was over.  `LeasesStay` says the same of rows whose
claimer is dead or never got its answer, of which no job knows: it needs
`TimesPast` alone, and its one exception is a completion, whose worker need not
hold that lease any more (`complete` asks for none).

`JobQueueProofs` proves of the abstract queue `JQSpec => []Promises` (`Kept`) and
`JQSpec => FatesFinal` (`FateIsFinal`), for any keys, results and decoys.  `OneFate`
is the invariant the rest hangs on: an id that is closed or dropped was pending once
and is not pending now, so no later step writes its entry again; and since entries
only move between the three tables, what was submitted stays submitted.  `Delivered`
and `FateIsFinal` of both stages are these theorems under the refinement mapping
(`JP`), by way of `Implements`.

`ProbeStageProofs` proves, for any hosts, ports, replicas, lease, batch, limit for
honeypots, set of answers, and any number of rows, crashes and failed statements:

| Theorem | States |
|---|---|
| `Typing` | `Spec => []TypeOK`, with the foreign keys of services and marks, and one fate per row id |
| `LeasesExclude` | `Spec => []LiveLeaseExclusive` |
| `LeasesStay` | `Spec => LeaseUndisturbed`, an action property |
| `HoneypotsMarked` | `Spec => []HoneypotFlagged` |
| `Implements` | `Spec => ImplementsJobQueue` |
| `Delivered` | a completed endpoint was firewalled or has everything its probe found in `handed` or `refused`; nothing is stored for an endpoint nobody submitted; no endpoint is queued twice |
| `FateIsFinal` | no step takes back a result or a completion, or uses a row id again |
| `Invariant` | `Spec => []IInv` |

`JobKeys`, `TimesPast` and `Reported` are as in the deep scan.  `IInv` further has

* `LeasesCurrent`: a row carries a lease at least as long as that of any task on it, and
  exactly that of a task whose lease runs.  There is no sweep here to clear a lease, so
  leases only grow; hence a claim never starts a task under a name in use
  (`ClaimKeepsTasks`), which is also why it cannot overwrite a task that is about to
  mark a honeypot.
* `HostsStored`: a task that stores an answer or counts services has stored its
  host.  The foreign key of `services` rests on the order of the statements.

For `HoneypotFlagged` only two steps matter.  An upsert adds a service to one host, and
its own task is then about to count that host's services; a count looks at all
services stored by then, so whichever task counts last sees the one too many.  A host
that is new has no service, because services have hosts.

`SweepProofs` proves, for any two lists of ranges, any hosts and ports, any depth of
the queue and any number of crashes and failed statements:

| Theorem | States |
|---|---|
| `Typing` | `Spec => []TypeOK` |
| `InOrder` | `Spec => []RangesInOrder` |
| `OwnResults` | `Spec => []OwnOutput` |
| `Invariant` | `Spec => []IInv` |

The argument for `OwnOutput` is that the counter in a file name and the place in the
list move together (`Following`): scan number `n` is only ever of one range
(`ScanOf`), also in the next process, which starts both over; so a file that a dead
process left behind (`Named`) holds results of the range that its name stands for.  The
assumption it needs, beside positive bounds, is that the number of scans at which
the model stops is a multiple of the number of ranges: the counter of the code does not
wrap, and a cut in the middle of a round would break the alignment in the model only.

`ServiceStoreProofs` proves, for any services, answers, urls, lease, batch and
clock, and any number of probes, maintenance runs, crashes and failed statements:

| Theorem | States |
|---|---|
| `Typing` | `Spec => []TypeOK` |
| `FilesExist` | `Spec => []RowsHaveFiles` |
| `NoForeignPictures` | `Spec => []OwnPictures` |
| `NamesAreHashes` | `Spec => []NamedByContent` |
| `SharingIsLate` | `Spec => []SharedWhenLate` |
| `NothingForgotten` | `Spec => []EnrichmentsArrive` |
| `Invariant` | `Spec => []IInv` |

`IInv` adds to these

* `JobKeys`: as long as a task's row is there, it is about the task's service, so
  that a row whose task dies is claimed again for the same hash.
* `FilesFirst`: a hash that a task or a maintenance command is about to store has its
  file, or, for a favicon hash in a document, the service its asset.  No file of the
  assets directory and no asset is ever removed, which is what makes the
  delayed write of an old document harmless for `RowsHaveFiles`.
* `Captures`: two tasks at work on one temporary file are known to `crossed`; the
  file of a service holds a picture of that service, whoever wrote it, and a file that was
  never shared holds what its only user wrote.  From it `Owned` follows the
  bytes into the assets: only the file that all cameras share can carry a picture from one
  service to another, and only when it was shared.  A file that is neither whole nor
  `Partial` is one that a rename of a shared capture put there; `Partial` is left
  by a writer that is still at it or, when it was stopped or met another, is in `cut` until
  the next `Open` (`NamedByContent`).
* `Awaited`: a hash that is missing and not given up is still to be asked for, in the
  hands of a task that has not finished, or in a row that no task is on.  The step that
  breaks it without the third window above is `Crash`.
* `Claims`: a row carries a lease at least as long as that of any task on it.  A claim so
  never starts a task under a name in use, which would take a half written file out of
  the hands of its writer unseen.
* `Leases`: no key has two rows, and as long as no worker of a service has outlived its
  lease (the service is not in `late`), each of its workers has the row it claimed, under
  the lease it claimed it with.  Two such workers of one service would have the same row and lease,
  and are the same (`OneOnTime`); that is `SharedWhenLate`.  It speaks of the service
  and not of the two that share a file: a worker that is late also deletes the row
  under its successor, the next probe queues another, and then two workers
  who are both on time meet.

The lemmas first say what a step of a task does to the task (`WorkMoves`), to the files
(`WorkFiles`), to the documents (`SetHashIs`) and to the history (`WorkCrosses`,
`WorkEnds`), and each conjunct of `IInv` is then preserved by a lemma of its own.

`DocumentsProofs` first proves of `Normalize` alone, for every name over any words,
every kind, every set of raw tags, lower-casing and set of garbage tags:

| Theorem | States |
|---|---|
| `TagsAllowed` | `normalize_tags` returns allowed tags only |
| `TagsSettle` | normalizing kind and tags twice is normalizing them once |
| `ProductSettles` | `canonical_product` returns a slug and leaves a slug as it is |
| `NormalizeSettles` | `normalize_service` is idempotent on a whole document |

`TagsSettle` rests on `TagAssumption` (lower-casing and the garbage tags leave the
allowed tags alone) and on three facts about the tables of the code: no alias has an
alias of its own, a category of a kind is allowed and its own alias, and no product
name is an allowed tag.  An entry that broke one of them would make backfill
rewrite documents for ever.  `ProductSettles` says of the loop of `slugify` that name
written so far never has two dashes in a row (`SluggingTyped`); the trim leaves none at
its ends, so that it is a slug (`TrimSlug`, `SlugifySlug`), and in a slug the loop keeps
every letter (`SlugSettles`).  The override table comes first in the code, so it also
needs that the table maps to slugs and from names that are none (`OverrideSlug`).

Then, for any endpoints, pages and corpora:

| Theorem | States |
|---|---|
| `Forgets` | `Spec => []MaintenanceForgets` |
| `BestWins` | `Spec => []BestSignatureWins` |
| `HonestIdentified` | `Spec => []HonestServerIdentified` |
| `BackfillSettled` | `Spec => [][Backfill => stored' = stored]_vars` |
| `Invariant` | `Spec => []IInv` |

`MaintenanceForgets` says exactly what `stored` is, so with the places of the endpoint,
the page and the corpora it is inductive; the other invariants are facts about the
operators that hold of any document of that form.  Two steps are not immediate.  A
backfill changes nothing because normalization settles (`NormalizeSettles`).  A
`reidentify_http` starts from a document with technologies, product and tags already
in it and must end where a fresh probe does: pushing technologies a second time adds
none (`DetectSettles`), the reset removes what an older corpus named, and so both see the
same evidence, with the favicon hash that is in the document (`seen`), but for the kind, which a fresh probe may show as `https` and a stored
document shows as `http`; `CorporaAssumption` says that no matcher on `kind` accepts the kinds of HTTP answers,
which is where the evidence differs.  `BestWins` carries an invariant through the
loop of `resolve` (`ResolvingBest`): the best so far is one of the matches among the
signatures seen, and none of these beats it.  The comparison uses the priority of the
first signature of an id, hence the assumption that ids are distinct.

Assumptions: `WordAssumption` keeps words apart from separators and dropped
characters, makes the lower case of a word a word that stays as it is, and says that the
overrides of the code map to lower-case words; `TagAssumption` is above; `CorporaAssumption` asks of a corpus what the
types of the loader give (a sequence of signatures with names, priorities and weights
that are natural numbers), distinct ids and no matcher on the kind of an HTTP answer;
`ProductAssumption` makes the products that probes name names.

`SearchProofs` proves, for every text over any alphabet and of any length up to
`MaxText`, any port numbers and any upper-casing:

| Theorem | States |
|---|---|
| `SearchBalancedQueryRead` | `Spec => []BalancedQueryRead` |
| `SearchPlaceholdersBound` | `Spec => []PlaceholdersBound`, whose exception is a clause that an apostrophe has torn |

The state machine is simple (`Reads`, lemma `SearchReads`, is its invariant); what needs work is what
the three passes return.

* The tokenizer returns no more tokens than the text has symbols (`TokenizeTyped`),
  because each reader ends behind the place it started at, also in a quoted value or a
  dotted key that the text breaks off.
* Each rule of the parser, started at `p`, ends behind `p` with a tree that is less
  deep than the tokens it read are many (`NodeRead`, `LoopRead`), and has closed as
  many parentheses as it opened or more, if it did not run into the end: from `p` on,
  `Net`, the number of `(` less that of `)`, has not risen (`Even`).  An atom that
  opens a group is the case that matters: the group is followed by the end or by the
  `)` that closes it, because `parse_or` stops nowhere else (`SideStops`).  So the
  first rule stops at the end or at a `)` with `Net <= 0` before it
  (`ParseTokensRead`), which is a `)` too many: `BalancedQueryRead`.
* What a node pushes behind `bound` parameters consists of `k` parameters and of conditions
  with no placeholder beyond `bound + k` (`Bound`; `Words(m)` are the words without one beyond
  `m`).  A filter uses the number of the parameter it pushes (`FilterBound`); of an AND, the
  second side starts where the first ended (`AndBound`); the sides of an OR and the
  inside of a NOT start from zero, and their numbers, too small where they are wrong,
  stay below the number of parameters that are appended (`OrBound`, `NotBound`).
  This is why the defect that `query_parameters` shows is never a missing parameter.  It
  gives wrong answers, or a failed statement where the wrong value has the wrong type:
  `country:de or port:80` compares `$1::int` with "DE".

That each recursive function exists is proved first, by induction on the number of
places (or the depth of trees) for which it is already known (`QuotedExists`,
`SuffixExists`, `TokensExist`, `RulesExist`, `CompiledExists`), since what it says of
a place depends on places behind it only (`TokensCases`, `RulesSame`, `NodeSame`).
Assumptions: `CompilerAssumption` (`MaxText` is a natural number) and
`SearchAssumption` (a text is a sequence of at most `MaxText` symbols).

**Induction.**  The theorems about loops are by induction over the positions of a
sequence, or the depth of a tree.  The prover cannot instantiate a theorem that has an
operator as parameter, so `DocumentsProofs` and `SearchProofs` take the least
counterexample of a set (`Least`, from WellFoundedInduction; `Induction`).
`DocumentsProofs` shows once that a loop given by its first value and its step has a
run (`LoopRuns`); every loop of `Normalize` and `Fingerprint` is an instance.

Only model-checked: liveness (`EveryRowLeaves`, `LoopGoesOn`, `EveryProbeLeaves`,
`EveryEnrichmentLeaves`, `EveryRangeSwept`), because fairness and ENABLED are beyond
the proof system; and two properties of the query language, `QueryReadsBack` and
`CompiledMeansParsed`.  They compare the parser and the compiler with the writer and the
meaning of trees in `SearchMeaning`, which recurse over trees with RECURSIVE
operators, and their proof would be an induction over trees about what these return.

## 5. What the models leave out

* One clock for all replicas that never goes back (`SystemTime::now` may, and
  the clocks of two machines may differ: the lease argument needs that they do
  not by more than a claim takes).
* Ids that Postgres burns on a conflicting insert: the model issues them without
  gaps, order and uniqueness are the same.
* The times stored in `first_seen`, `last_seen`, `taken_at`; host details from DNS
  and GeoIP.
* The deep scan's own honeypot UPDATE, which compares an inet column with text
  and whose result is ignored.
* Network, masscan and ffmpeg behaviour: any answer, any set of ports and any
  picture may come.  ffmpeg writes its file in one step, unlike the enrichers; reading a
  picture and removing the file right after is one step.  A favicon of any size is stored,
  as in the code; two services with the very same picture, which would share a file, do
  not occur.  `ServiceStore` has one enrich
  process and maintenance chunks of all documents.
* `heartbeat`, which only tests call; `enrich.enabled`, `enrich.concurrency`,
  `probe.concurrency`, `sweep_chunk_size`, `sweep_interval_secs`, which nothing
  reads.  That probes and enrichments run without bound is in the models (tasks are
  started as rows are claimed), but there is no bound to state.
* `scanerr all`, where sweep and deep scan share the counter of temporary names,
  and a ranges file that changes between two starts: with them `OwnOutput` loses
  the alignment of counter and range it rests on.
* An empty list of ranges, with which the loop of the sweep spins without an await.
* In the signatures: duplicate ids (the repository has one, `mailcow`), which make
  `resolve` use the priority of the first; regular expressions; the rounding of the
  confidence in floating point.
* The favicon hash of a document is told apart by who computed it, not as the number it
  is.  The signatures of the repository match on no favicon hash; those of `documents` do.
  A product that is the empty string counts as none.
* In the deep scan, the address in masscan's output (main.rs:281 inserts it) is that of
  the host that was scanned.  A leftover file of a dead process with the same pid
  (masscan.rs:15) may carry another's; only `Sweep` has these files.
* In queries: case, control and multi-byte characters, the SQL of a column, what a
  clause does after an apostrophe ended a literal, and a regular expression or a number
  of a condition that makes the statement fail (but for a port, `Fails`).  `favicon:` with
  a negative number compiles to a key that no document has.
* The exchanges of the protocol probes and the pages of the web interface: one
  request and one reply each, without state.
* Components marked `not_modelled` or `partly` in `PROJECT.json`, with reasons there.

## 6. Plan

Done: the queues and the stages with their composition downstream of the sweep, the
store of services, the pure algorithms.  What is left, in this order:

1. Composition: two `JobQueue`s chained, the hand-over of one being the submission
   of the next, to say that an open port of a closed host was probed; the honeypot
   mark of the deep scan with the hosts that a probe creates later.
2. The expansion of port ranges, against the set it should give.
