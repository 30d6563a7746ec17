# Verification of the immutable ledger

TLA+ models of the ledger service, the TLC configurations that check them on
small instances, and TLAPS proofs for every size. Paths are relative to the
repository.

## 1. The system

| Part | State | Operations | Talks to |
|---|---|---|---|
| Append path (`src/service/mod.rs`, `write_entry_impl`) | `chain_halted`, one mutex per chain, both per process | WriteEntry, IssueReceipt | repository |
| Postgres repository (`src/repository/postgres.rs`) | `ledger_entries`, `ledger_write_outbox`, advisory locks, a connection pool per process | append transaction, reads, outbox updates | database |
| Hashing (`src/crypto/mod.rs`) | none | canonical hash, V2 and V3 | append path, verification |
| Outbox processor and HTTP publisher (`src/service/mod.rs`) | the batch read at the last poll | poll, publish, mark, give up | outbox table, event sink |
| Chain verification (`src/service/mod.rs`) | locals of a call | verify_chain, verify_recent_chain, verify_entry, verify_proof | repository, one read at a time |
| Background verifier (`src/verifier.rs`), `/readyz` (`src/main.rs`) | integrity gauge, shared status | one pass over all chains per interval | chain verification |
| Query and paging (`src/service/mod.rs`, `src/repository/postgres.rs`, `sdks/python/ledger_client.py`) | none (offsets travel with the client) | QueryEntries, the client's page walk | repository, two statements per call |
| In-memory repository (`src/repository/mod.rs`) | five maps behind one lock | as the Postgres repository | tests |
| gRPC layer (`src/grpc/mod.rs`) | none | conversion of requests, answers and errors | service |
| Lifecycle (`src/main.rs`, `src/db_permissions`), configuration (`src/config`), TLS (`src/tls.rs`) | configuration, shutdown channel, signal task, three server tasks | start, privilege check, shutdown, join | everything |
| Gateway, client, adapters, frontend, demos | none, except the CPEX adapter's gap detector | conversion | gRPC |

Processes share nothing but the database. `deploy/infra01/ledger.yaml` asks for
one replica with the default rolling update, so two processes overlap during
every deployment; the models allow that, and the code's advisory lock and tip
comparison exist for it.

What is hard here:

* **Interleaving.** The tip is read, and the idempotency key looked up, before
  the transaction that depends on them. Calls of one process are serialised by a
  mutex, calls of two processes only by the advisory lock.
* **Unknown outcomes.** A call may be cancelled, or its process may die, while
  its COMMIT is under way. The mutex is then free although the append is not over.
* **Nothing claims an outbox row.** Each processor works from the copy it polled.
* **Verification is not a transaction.** Pages are read while rows are appended.
* **Failures count as results** in the background verifier.
* **A query is not a transaction either.** Its pages are offsets into rows ordered by
  a time that is taken before they commit, and each page is a COUNT and a SELECT.
* **A receipt mixes two sources**: the proof material of the request and the hash of
  the entry, which may be an older or a rival request's.
* **A stop can come too early.** Servers subscribe to the shutdown channel one after
  another, and only changes after a subscription are seen.

What makes each part correct: chains are dense, unforked and hashed as stored; a
key names one row; answers are true and acknowledged rows are queued; calls are
answered; delivered means accepted, nothing is given up early or for ever
pending; verification covers its range, reports damage and raises no false
alarm; gauge and probe agree and follow the state of the chains; receipts verify
while their entry is untouched and never after; a page walk ends and is complete; the
process serves an immutable ledger only, stops when asked and exits with an honest
code. The hazards,
each at its line and with its properties, are listed in `PROJECT.json`.

## 2. The modules

**`LedgerWrite`** models the append path over the append transaction.
`call[h]` is the control state and the locals of one call, changing where the
code awaits: `halt_check`, `halt_clear`, `find`, `lock`, `tip`, `begin`, `tx`,
`conflict`, `halt_set`. `tx[h]` is the call's database transaction, a state
machine of its own (`begun`, `locked`, `checked`, `inserted`, `committing`),
because it outlives a call that is cancelled (`Cancel`), fails (`DbError`) or
dies with its process (`Crash`): `OrphanAbort` and `OrphanCommit` are what the
backend may then do. `entries` and `outbox` are the committed rows, `halted` and
the mutex (`HoldsChainGuard`) are per process. SHA-256 is a free constructor:
equal hashes mean equal inputs. The columns that `idempotent_request_matches`
compares are one value, `body`. A rollback is one step with the answer to it;
sleeping before a retry changes nothing.

**`AppendOnlyLog`** is what readers are promised: one sequence per chain that
grows at its end, with unique keys. `LedgerWrite` implements it
(`ImplementsLog`), through the mapping `logView`.

**`Outbox`** models `start_outbox_processor` and `publish_one` for any number of
processors. `todo` holds the copies still to be handled; the oldest is in hand.
`LoseUpdate` is a database error of one of the three updates, whose results the
code ignores or only counts; `Crash` restarts a processor at its poll. `acked`,
`attempts`, `calls` (per processor) and `faults` (per processor) are history: which
processor's faults pay for which extra call is what `RetriesBounded` is about. The rows appear through `Enqueue`, the commit of an
append (`LedgerWrite`, `AcknowledgedIsQueued`).

**`ChainVerify`** models the four verification operations on one chain, one step
per read. `Append` is one step, which `LedgerWrite` justifies. `Damage` stands
for whatever reaches the tables past the service: one column changed, a row
removed, or a row below the tip rewritten together with its hash. A page is
walked in one step, since its rows are in memory. `DamageReported` has a proviso
that its proof brought to light: when the predecessor and the first rows of the range
are removed between the reads of one call, the row read as the predecessor is one
further on, the walk begins behind the gap and its first link fits. Such a call reports
`chain_valid` with an `entries_checked` smaller than the range, so the property speaks
of walks that counted what they passed. Four damaged rows of five show it.

**`BackgroundVerifier`** models the passes of `src/verifier.rs`, the gauge, the
shared status and `/readyz`. The verdict on one chain comes from `ChainVerify`:
here a chain is absent, sound, damaged inside the online window, or damaged at
an entry the window has moved past.

**`InMemoryRepository`** holds the maps of the test double, its operations as
operators and the damage its tests inflict. **`Receipts`** runs the gRPC handlers
and the service on it, with the fields of a request kept apart: conversion of empty
optional fields (two copies of that code, `FromWriteEntry` and `FromIssueReceipt`),
comparison, hashing, the echo in the receipt, and the reading methods as operators on
the state. One process serves the calls, so the retries and halts of `LedgerWrite`
are unreachable, which `SoleWriterNeverContends` checks instead of assuming it. The
chains refine the same `AppendOnlyLog` as the database's. An absent entry of a lookup
is the empty set, an `Option` field that is absent is `None`; texts come from any set
`Text` that has the empty text and the one that damage writes.

**`QueryPaging`** models QueryEntries and a client's walk: `CountRows` and
`SelectPage` are the two statements, `TakeTimestamp` and `Commit` the two moments of
an append that matter to the order. The order of rows with equal time and position is
chosen anew by each statement. Times are stored in microseconds and asked for in
milliseconds; entry types are sequences of characters because the prefix becomes a
LIKE pattern. `Like` is PostgreSQL's operator with both wildcards and the escape: which
backslashes escape, and where the text is cut between the pattern's characters. The filters of the in-memory repository are the reference. Its own
`query_entries` reads under one lock, so only its filters matter here.

**`Lifecycle`** models the process: `from_env` with every variable, the choice of the
TLS connector, the privilege check, the background tasks, the watch channel (a version,
and the version each receiver has seen), the signal task, `/shutdownz`, the three
servers with their ports and calls in flight, and the join. `main`, the signal task and
the servers are separate processes. A signal before the handlers are installed ends the
process, one after the first is swallowed. Two servers may be given the same port, and
then race for it.

The `MC*` modules extend them and only supply values. Definitions ending in
`_Something` after the name of an action or operator are plausible mistakes in
that code, kept to show that each property can fail.

## 3. The runs

| Run | Instance | Shows |
|---|---|---|
| `append_faults` | 2 calls, 2 processes, 1 chain, 1 key, 2 bodies, 3 rows, 2 attempts; cancellation, crashes and database errors at every await | `WrittenTsMonotone`, `ReceiptFaithful`, `ConflictHonest`, `AcknowledgedIsQueued`, `HaltEarned`, `ImplementsLog`, `TypeOK` |
| `append_live` | 3 calls, 2 processes, 2 chains, 1 key, one connection per process, fair | `ChainLinked`, `KeyUnique`, `RequestsAnswered` |
| `outbox` | 2 processors, 2 records, 2 retries, 1 fault each, fair | `DeliveredMeansAccepted`, `NotAbandonedEarly`, `RetriesBounded`, `EventuallySettled`, `TypeOK` |
| `verify` | pages of 2, window of 2, 3 rows, 2 damaged | `RangeCovered`, `NoFalseAlarm`, `DamageReported`, `PointVerdict`, `TypeOK` |
| `verifier_passes` | 2 chains, 2 failing calls, fair | `GaugeMatchesReadiness`, `AlarmEarned`, `AlarmRaised`, `AlarmClears`, `TypeOK` |
| `receipts` | a WriteEntry and an IssueReceipt call, 3 and 13 requests, 2 types, 2 entries, 1 damaged | `ReceiptVerifies`, `TamperDetected`, `RetryAccepted`, `SoleWriterNeverContends`, `MapsAgree`, `ImplementsLog` |
| `query_walk` | 2 chains, 3 rows, 6 queries, pages of 1 and 2, 2 microseconds to the millisecond | `WalkComplete`, `NoRepeats`, `TokenAdvances`, `FilterMatchesReference`, `TypeOK` |
| `lifecycle` | 23 environments, all 16 sets of privileges, a taken port, 2 sends over the channel, fair | `ServesOnlyImmutable`, `ExitHonest`, `StopHonoured`, `TypeOK` |

Four runs end in a counterexample, each to a sentence of the repository:

* `halt_removed` (`HaltLastsRecovery`): a halt does not last for the recovery time. One call finds an
  expired halt and releases the read lock; another clears that halt, fails its
  attempts and sets a new one; the first call then removes the new one.
* `outbox_lost_success` (`SuccessRecorded`): with two processors, an accepted event ends as `FAILED`.
  It is the only way out of a settled state (`SettledIsFinal`, proved and not part of a run).
* `verifier_listing` (`GaugeEarned`): a pass that could not list the chains reports that all of
  them are valid.
* `query_missed` (`PagesReturnAll`): a finished page walk lacks an entry that was there before it
  began. A row with an earlier time commits between COUNT and SELECT; the page is
  shifted by one, and the stale count ends the walk before the row pushed to the end.

One more sentence of the tests is not true of the database, and `query_walk` states what
is true in its place. `tests/run_evidence.py:313` (L3.04) asserts
`e.entry_type.startswith(prefix)` of every result of a query by type, and the in-memory
repository filters that way. The database takes the prefix as a LIKE pattern: an
underscore matches any character, a percent sign any text, and a backslash takes the
meaning from what follows, the final percent sign included. A query for `a_` so returns
entries of other chains, and one for `a\` misses entries of its own. The test only uses
prefixes without these characters. `FilterMatchesReference` holds the database to what
remains: a selected entry passes all other filters, its type agrees with the prefix up
to the first percent sign or backslash, underscores apart, and fully if the prefix has
none of the three; and only a backslash can hide an entry with the prefix.

What the passing runs allow, because no document promises otherwise:

* A walk repeats an entry when a row commits below it between two pages
  (`NoRepeats` excludes only walks in which none did), and may repeat or miss rows
  with equal time and position.
* The database and the in-memory repository disagree on the end of a range: `to_ts`
  includes only the first microsecond of its millisecond in the database, all of it in
  memory (`FilterMatchesReference` states this too).
* A stop sent before the last server subscribed stops the servers that had, and the
  others go on (`StopHonoured` speaks of each server that had subscribed); further
  signals are swallowed, `/shutdownz` still works if a token is set. A gRPC server that
  could not bind its port leaves a process that answers its probes until it is stopped;
  then the exit code tells.
* When the signal handlers cannot be installed the process stops at once, with success:
  `ExitHonest` takes the failed installation for the stop request it causes.
* `pool_max_size` 0 is accepted; calls then wait for ever, and a shutdown waits with
  them. `StopHonoured` says that it waits for nothing else.

### Bounds

Two processes give both kinds of rival, with three calls in `append_live` and
`halt_removed`: a call of the same process (held off by the mutex) and of another
(held off by the advisory lock). With faults
the instance has one call per process; what a third would add there is left to the
proofs, which hold for any number. Two attempts reach both a retry and
exhaustion. Three rows give a first row, a row with a predecessor and a row that
moves the tip under a stale read; two of them, committed under a third call, use up its
two attempts and make it halt the chain. `MaxEntries` limits accepted calls (`Pledged`),
`MaxClock` the ticks, `EntryId` is as large as needed. In `Outbox` two retries
are the least that have a first and a last one; one fault for each of two processors
lets a lost increment meet a crash of the other. In `ChainVerify` two rows end in a full page of
two, three rows need a second page, and the window of two then starts past the
first row; two damaged rows can hide each other; `OpenEnd` stands for
`i64::MAX`. In `Receipts` the requests differ from one original in one compared field
each, which is what a comparison or a conversion can get wrong; two entries make a
chain with a link, or two chains, or a conflict and a rival. In `QueryPaging` three
rows give a page before, at and after a row that slips in; the two chains have names
that end in an underscore and in a backslash, and the prefixes asked for use all three
special characters, with the backslash before another character and before the final
percent sign; odd microseconds fall inside a millisecond. In `Lifecycle`
an environment differs from the shortest one in one variable, with a value for each way
`from_env` or `main` treats it; `U32` is 16 in place of 2^32. Two sends reach an
early stop followed by a second one. Handlers are not symmetric (their processes differ), so no symmetry is
used. Deadlock is checked in every run but `lifecycle`, whose process ends.

### Fairness

`LedgerWrite`: every await of a live call completes. The mutex, the pool and
PostgreSQL's lock queue are first-in first-out, so a call able to go again and
again goes (strong fairness per call). The backend ends a transaction whose client
is gone. `Outbox`: the processor task goes on; the HTTP client has a timeout. The
sink is under no obligation to accept, since fairness is on the step, not on
`PublishOk`. `BackgroundVerifier`: the task loops for ever and its calls return;
faults are bounded, that is, the database fails finitely often. `Lifecycle`: the
runtime polls `main`, the signal task and every server when they can go on, and a call
returns if a connection can be had at all. Requests, signals, damage, crashes and
errors are never fair.

## 4. The proofs

TLAPS proves every safety property of the passing runs (invariants, action properties
and both refinements) for all values of the constants, from the ASSUMEs of the modules:
sizes and limits are natural numbers, positive where the code refuses zero or has a
positive literal (and `MaxLen`, which leaves room for one row); pools of
calls, processors and ids are finite where a count is taken of them; a value that stands
for "absent" is none of the values. The bounds of the models (`MaxEntries`, `MaxLen`,
`MaxClock`, `MaxFaults`, `MaxDamage`...) are arbitrary numbers, so no proof depends on
their size. `ConfigAssumption` says that a parsed configuration is not the value for
"not yet parsed". The larger invariants were checked by TLC on the instances of the runs
before they were proved; each proof has one step per action.

**`LedgerWriteProofs`**: `TypeCorrect`, `LedgerInvariant`, `ChainsLinked`,
`KeysUnique`, `SuccessesTrue`, `ConflictsTrue`. `ChainLinked` alone is not inductive:
that a new row fits depends on what its transaction compared several statements
earlier. `LedgerInv` adds that at most one transaction per chain owns the advisory lock
(`LockExclusive`); that from the comparison on the tip is still the row compared
with (`PlacedOnTip`), orphaned transactions included; that every `previous_hash`
in use belongs to its own chain (`TipReadOfChain`, `TxOnChain`), which is what
forces the genesis hash on an empty chain; and that no committed row rivals an
inserted key (`InsertedKeyFree`), which rests on the unique-index wait. Answers are
true because a transaction writes what its call was asked (`TxServesCall`) and rows
are never removed. Lock exclusion does not use the mutex: the chain is safe without it,
and `NeverContends` (`ReceiptsProofs`) shows what the mutex adds.

**`LedgerLogProofs`**: `AcknowledgedQueued`, `TimesMonotone`, `HaltsEarned`,
`ChainsImplementLog`. One
lemma (`StepsHaveShape`) reduces every step to what it means for the tables: publish one
transaction that was committing, or nothing. `QueueInv` says that the outbox is exactly
the set of committed ids and that a committing transaction has written its outbox row.
`TimeInv` says that a timestamp in hand is not before the row its `previous_hash` names,
however old both have become; the hash fixes that row's time, and the comparison with
the tip does the rest. `HaltInv` counts a call's attempts in rows: at attempt n the
chain has reached position n, the hash in hand names a row at n or above, and a lost
comparison means a tip above that row. For an empty chain at the start of the call this
is exact; on a longer one it says less than the number of attempts does. For the refinement, `DenseInv` makes `logView` a sequence and
`ViewShowsRows` makes publishing a row an `Append` to one of the logs, with a key that
`InsertedKeyFree` shows to be free.

**`OutboxProofs`**: `OutboxTypeCorrect`, `OutboxInvariant`, `DeliveredAccepted`,
`NeverAbandonedEarly`, `SettledStaysSettled`, `RetriesInvariant`, `CallsBounded`.
`NotAbandonedEarly` compares a stale copy with a history. The invariant puts the table
between them: a copy's count never exceeds the table's (`CopiesBehind`), and the
table's count plus the failures not yet counted never exceeds the calls made
(`CallsCounted`, a statement about the cardinality of the set of processors about to
increment). `AckInHand` and `FailureInHand` carry both facts to the update.
`RetriesBounded` is the other direction and is proved one processor at a time: the
calls of a processor for a record are covered by what its copy, or the table once it
has none, has counted, plus its own faults (`CallsInHand`, `CallsOfOpen`). The others
can only raise the count.

**`ChainVerifyProofs`**: `VerifyInvariant`, `VerifyTypes`, `PointVerdictsHold`,
`CleanChainPasses`, `ValidCoversRange`, `DamageIsReported`. `VerifyInv` has three parts.
`RowsInv` relates the table to what was ever appended: each stored row is an appended
row, a damaged or a rewritten version of it (`Stored`); a row that links to a damaged
hash still has it before it (`GarbageInv`); whoever links to a rewritten hash came
second at its position (`RewriteInv`). `HistoryInv` compares the table with the one the
call began with: damage is done once and never undone. `CallInv` gives the locals of a
call at each read. On top of it each property has an invariant of its own:
`PointInv` keeps the verdict on the row between the two reads of verify_entry;
`CleanInv` says which row a `prev_hash` is that of while nothing is damaged; `RangeInv`
that the count and the window are exact unless something was damaged under the call
(`RecentInv` follows the window through the reads that choose it); `SoundInv` that all
rows the walk has passed, its last apart, were intact, and that the last one either was
or carries the hash of a rewritten row, which no appended successor links to. The hash
as a free constructor is used throughout: a hash names its id and position (`HashOf`).

**`BackgroundVerifierProofs`**: `VerifierTypeCorrect`, `GaugeAndProbeAgree`,
`AlarmsEarned`. `GaugeInv` covers the gap between the two updates, in which the gauge
already follows results the status does not show; `AlarmInv` keeps every bad result
true of its chain while no call has failed.

**`ReceiptsProofs`**: `ReceiptsInvariant`, `ReceiptsVerify`, `DamageDetected`,
`RetriesAccepted`, `NeverContends`, `MapsTellOneStory`, `RepositoryImplementsLog`.
`ReceiptsInv` says of the maps what survives damage (`EntriesInv`, `ListsInv`,
`IndexInv`): an entry recomputes to its digest exactly while it is undamaged
(`DigestHolds`), positions are list indices, the tip is the last entry's until that is
damaged. `MutexInv` lets only one call of a type be between its tip read and its write,
so `CallInv` can say that its `previous_hash` is the tip. `RespInv` keeps receipts and
conflicts true of the entries they name. `RoomInv` counts the ids left for the calls
accepted. Retries are accepted because the comparison is equality of what both
conversions yield.

**`QueryPagingProofs`**: `QueryTypeCorrect`, `WalkInvariant`, `WalksComplete`,
`WalksRepeatNothing`, `TokensAdvance`, `FiltersMatchReference`. An offset means
something only through the rank of a row among the matching ones, a cardinality that
grows when rows commit ahead of it. `WalkInv` says that a row of the walk with a rank
below the offset was returned (`PassedAreGot`), that the count exceeds every such rank
(`CountCovers`), and that without late rows the pages so far are the head of the list
(`GotIsHead`). For the filters, a match agrees with the prefix up to its first percent
sign or backslash because the cuts up to there are at their own numbers (`LiteralMatch`,
`CutsCount`), a least-number argument in place of induction; and without a backslash
every text with the prefix matches, whatever wildcards there are (`PrefixMatches`).

**`LifecycleProofs`**: `LifecycleInvariant`, `LifecycleTypeCorrect`,
`OnlyImmutableServed`, `ExitsHonestly`. `LifecycleInv` follows the way through the
start-up: what `main` has passed says which privileges the role has (`PrivilegeInv`),
which servers have subscribed (`ServerInv`), and a server that stopped accepting has
seen a change of the channel, which someone asked for (`StopInv`).

Only model-checked: liveness (`RequestsAnswered`, `EventuallySettled`, `AlarmRaised`,
`AlarmClears`, `StopHonoured`), since fairness and ENABLED are beyond this prover; and
the four properties that fail. What a recursive definition computes for every input
cannot be proved either (no induction over data); no module needs one.

## 5. Limits

* Hash collisions, and the injectivity of the length-delimited encoding, are
  assumed away. A collision of `advisory_lock_key` would only make chains wait.
* Clocks of two processes agree in `LedgerWrite`; `WrittenTsMonotone` says nothing
  about clocks that differ.
* `ChainVerify` does not let a row be rewritten and hashed again at the tip, where
  no successor vouches for it: removal or replacement of the end of a chain is
  beyond any check of a bare chain, and `DamageReported` says so. Rows removed
  while a call is between its reads can make a walk begin behind a gap; `RangeCovered`
  promises a count without a gap only if nothing was damaged under the call, and
  `DamageReported` speaks of walks without one.
* `verify_max_entries_per_chain` is positive (`verify_recent_chain` refuses other
  values). Counts are natural numbers: overflow of the backoff exponents or of
  `max_retries as i32` needs configurations beyond any use.
* README.md of the repository speaks of verification in batches of 500; the code
  uses 50. The models take the batch size as a parameter.
* `Lifecycle`: privileges do not change after the check, which the code makes once; a
  server task does not panic; TLS and the database connection succeed or fail as a
  whole. The parser of tokio-postgres decides which values of `sslmode` are well formed.
* `Receipts` has no cancellation and no database errors: `LedgerWrite` has. Its times
  are whole milliseconds, as hashed.
* Metrics other than the integrity gauge, logging and response formatting are left
  out.

## 6. Not modelled

The TLS streams (they forward to the library), metrics without influence on control,
schema changes of the migrations, format conversion in the adapters, the REST gateway,
the proof explorer, the frontend, demos and deployment files: none keeps state that the
ledger depends on. The gap detector of the CPEX adapter does keep state, in its own
memory, and is the next candidate. VerifyEntry and VerifyChain of the gRPC layer rename
the fields of what `ChainVerify` returns.

## 7. Plan

Done: the modules of section 2, and proofs of all their safety properties (section 4).
Still to come, in this order:

1. The composition the models now state in words: `Outbox` takes its rows from commits
   (`QueueInv` of `LedgerLogProofs`), `BackgroundVerifier` its verdicts from
   `ChainVerify`; state the interfaces as abstract specifications and prove the steps.
2. `GapDetector`: the CPEX adapter's sequence tracking; that silence means a dense
   stream, whatever restarts, repeats and losses came before.
3. The wrapped retry limits of the configuration carried into `LedgerWrite` and
   `Outbox`: what zero attempts mean for a call.
