# A verification development of meathook-rs

meathook-rs polls APIs, buffers what it gets in wall-clock windows and ships
each closed window as one file to Hugging Face. This directory holds TLA+
models of the parts of it whose correctness depends on the order of events,
the TLC configurations that check them on small instances, and theorems about
them checked by TLAPS. Source paths below are relative to the repository.

- [The system](#the-system)
- [The modules](#the-modules)
- [What is checked](#what-is-checked)
- [What is proved](#what-is-proved)
- [Where the code and its documentation differ](#where-the-code-and-its-documentation-differ)
- [What is not modelled](#what-is-not-modelled)
- [Plan](#plan)

Run the tools in this directory: `tlc -config SpoolCrash.cfg MCSpool`,
`tlapm SpoolProofs.tla`. `PROJECT.json` lists every run, the mutation of the
model that each property detects, the source lines of each definition, the
hazards and the theorems.

## The system

| Component | Source | State | Operations | Correct when |
|---|---|---|---|---|
| `Tier` | `src/layer/tier.rs` | `active_window`, `active_count`, `initialized`, `pipeline` | `ingest`, `advance`, `flush` | nothing acknowledged is lost; unforced passes ship closed windows only; Ok means drained; the `max_records` valve fires; a failing window does not block the others |
| `Store`, `Segment`, `MemStore` | `src/store.rs`, `src/store/mem.rs` | segments by window | `append`, `oldest`, `records`, `commit` | an append is stored whole or reports an error; only `commit` removes |
| `JsonlStore` | `src/store/jsonl.rs` | one file per window, `initialized` | the same, in system calls | an acknowledged batch survives kills and power failures, behind torn lines too |
| `SinkStack` | `src/layer/builder.rs` | none: nests tiers | `tier`, `terminal` | custody passes from tier to tier without a gap; Ok holds for all tiers |
| `Pipeline` | `src/pipeline.rs` | sink, collector, `seen_prev` | `run`, `tick`, `dedupe` | repeats are dropped and nothing else; what is lost was reported; the shutdown policy keeps what it says; a signal ends the run |
| `Meathook` | `src/runtime.rs` | `PipelineState` per pipeline, the `JoinSet`, the token | `run`, `run_with_shutdown` | panics are answered, only real streaks are given up, a signal ends it in order |
| `HfSink`, `CommitGate` | `src/sink/huggingface.rs` | the gate's semaphore | `ingest` | one request per gate; Ok means stored; every ingest returns |
| `HfBucketSink` | `src/sink/hf_bucket.rs` | an Xet session | `ingest` | Ok means that the window can be read; no path without its bytes; replays change nothing; every ingest returns |
| `Tee` | `src/layer.rs` | none | `ingest`, `advance`, `flush` | a branch that fails takes nothing from the other; the tier above keeps what one of them lacks |
| object paths | `src/sink.rs` | none | `object_path`, `fingerprint` | same content, same path |
| encoders | `src/encode.rs` | none | `encode` | deterministic |
| collectors | `src/collector.rs`, `src/satay.rs` | none | `collect` | - |

How they interact. The runtime spawns one task per pipeline from a factory and
joins them in one loop. A task calls its collector and its sink, one call at a
time. A sink stack is a chain of tiers that own one another: `ingest`,
`advance` and `flush` of a tier call its store and then the sink below it, and
the last sink calls the server. Nothing is shared between tasks except the
cancellation token and, by choice, a `CommitGate`. What outlives the process
are the segment files and the destination.

What is hard here:

- **Crashes.** Every `.await` of a call is a place where the process may die.
  A segment is removed after the delivery, so a crash in between delivers
  again; whether "again" is the same object depends on what else happened to
  the window.
- **Partial failure.** Each store call and each delivery of a pass can fail on
  its own. The pass goes on, reports the first error at the end, and the call
  may skip what lies below because of it.
- **Lost replies and late commits.** The destination may store what the sink
  reports as failed, at once or later, also after the process has died.
- **Writes in two legs.** A bucket gets the bytes first and then the path that
  refers to them; either leg may fail, and the retry does both again.
- **Repeats.** Polls return readings that were there before; what is dropped
  as a repeat must have been kept, and what was kept must not come twice.
- **Fan-out.** One answer stands for two branches, so a batch that one of them
  took is offered to it again for the sake of the other.
- **Wall-clock windows.** Readings may repeat, jump forward over windows, or
  step back behind windows that are stored already.
- **Counters beside the store.** `active_count` mirrors what is on disk across
  restarts, forced drains and changes of the window.
- **Supervision.** Panics, backoffs that are slept in the join loop, and the
  signal come in any order; ages are measured when a panic is processed, not
  when it happened.
- **Torn files.** A write may stop anywhere, also inside a character, and file,
  directory entry and directory reach the disk separately.

## The modules

| Module | Models | Built on |
|---|---|---|
| `Store` | what a store does, for both backends | - |
| `Tier` | one buffering layer, one action per await | `Store` |
| `Spool` | a tier between a caller, a clock, crashes and a terminal sink | `Tier` |
| `Poll` | `Pipeline::run`: polls, deduplication, heartbeats, the shutdown call | `Spool` |
| `Delivery` | what a buffering layer promises: custody until delivery | - |
| `Stack` | a volatile tier over a durable one | `Tier`, twice |
| `JsonlStore` | the segment files, one action per system call | - (refines `Store`) |
| `Tee` | a tier over two branches | `Tier` |
| `Supervisor` | the runtime loop and the life of its tasks | - |
| `Terminal` | what a terminal sink promises: Ok means stored | - |
| `HfSink` | dataset sinks, their retry loop, the gate and the server | - (refines `Terminal`) |
| `Bucket` | bucket sinks, both legs of a write, the server | - (refines `Terminal`) |
| `MCSpool`, `MCPoll`, `MCStack`, `MCTee`, `MCJsonl`, `MCSupervisor`, `MCHfSink`, `MCBucket` | instances for TLC | |
| `SpoolProofs`, `PollProofs`, `StackProofs`, `JsonlProofs`, `TeeProofs`, `SupervisorProofs`, `HfSinkProofs`, `BucketProofs` | theorems | |

**Store.** `segs` are the windows with a segment, `held` the records each
yields, `broken` the segments that `records()` fails on. Records of one window
form a set: a collector's record is handed over once, and no property is about
the order of rows. `StoreAppend` is an append that returned Ok, `StoreTear` one
that failed or was cut off: any part of the batch may be there. `Durable`
distinguishes `JsonlStore` from `MemStore`.

**Tier.** The variables are the fields of the struct, the locals of the call in
progress (`arg`, `at`, `forced`, `cursor`, `win`, `batch`, `failed`) and `pc`.
A call starts with `CallIngest`, `CallAdvance` or `CallFlush`. `Activated` and
`ActivateFails` are `activate` with `stored_count`; `AppendOk` and
`AppendFails` the append; `ReadOk`, `ReadFails`, `InnerAccepts`,
`InnerRejects`, `CommitOk` and `CommitFails` one turn of the drain loop;
`DrainEnds` and `OldestFails` its ends; `InnerReturns` the call of the sink
below. `op = "init"` is the advance that `ensure_init` runs in the first
ingest, whose errors are logged only.

**Spool.** The caller may call ingest, advance and flush in any order, a
superset of what `Pipeline::run` does (`Poll` has the calls it really makes).
The terminal sink accepts a batch, rejects it, or stores it and reports an error
(`AcceptsLost`). An object at the destination is the pipeline name, the window
and the rows: `object_path` hashes the content, and different contents are taken
to have different fingerprints. `Crash` may happen in any state; inside an
append it tears the batch.

**Delivery** is the abstract specification. `Spool`
implements it with `custody <- Held` and `delivered <- Delivered`; the property
is `KeepsPromise`.

**Poll.** `phase` is the place in `Pipeline::run`: the advance at the start,
the `select!`, the heartbeat at the head of a tick, the collector, the ingest,
the call of the shutdown policy. Each call is a call of `Spool`, which then
makes its own steps (`Works`) until `Returned`. `Polls` takes any response of
the API, `Flatten` is the transform of the example collectors, `Fresh` and
`Remember` are `dedupe`: the first reading of each key that was not in the
previous response, and `seen_prev` becomes the keys of this one. A reading may
be in any number of responses; what is handed over is a numbered copy of it,
so that a second copy in the spool would be visible. `Restarts` is a crash, and
a task that panicked and was respawned: `seen_prev` starts empty.

**Tee.** The sink below the tier is called branch by branch: `Calls`, one
`Branch` step for each of the two, `Answer` with the errors of both. A branch is
any sink; one that returns an error may have taken the batch all the same.
`settled` is a history variable, the records the Tee returned Ok for.

**Stack.** The outer tier is `Tier` over its own variables, the inner one
`INSTANCE Tier` over variables prefixed with `i`. The inner tier moves while
the outer one waits at `offered` or `inner`. A record offered again becomes
another copy of itself, so that a row that is stored twice is visible. The
inner tier sees the meta the outer one builds, whose `end` is the exclusive end
of the window.

**JsonlStore.** A file is a sequence of tokens: a whole value, a newline, a
value cut short, a value cut inside a character. `Open` decides `is_new`,
`CloseTail` separates a torn last line, `Write` writes one token at a time,
`Sync` and `SyncDir` are the two fsyncs. A kill leaves the files as they are;
a power failure keeps what was synced and any prefix of the rest, forgets
unsynced directory entries or not, and may bring an unlinked file back. Kills
and power failures come in any order. `exposed` are the segments that were
acknowledged while their directory entry, or that of the directory itself, was
not on disk, which `AckedIsReadBack` leaves out; `AckedIsDurable` does not leave
out the first kind. `cut` are the segments one of whose writes was not finished:
only in those, and only when records are not ASCII, may `read_to_string` refuse
the file. The refinement maps a file to its
parsed lines: between power failures (`OutageStep`) the files behave as `Store`
says, in particular after one, `ImplementsStore`.

**Supervisor.** `phase` is where the latest task of a pipeline is, `finished`
what `join_next` has still to return, `loop` where the loop is. `Joins`,
`JoinsLast`, `GivesUp` and `BacksOff` are one turn of it, `Respawns` and
`BackoffCancelled` the end of the backoff, `Unwinds` a factory that panics.
`aged` says that the failure window has elapsed since the spawn; it may become
so at any moment. `streak` is a history variable, the panics in a row of
incarnations that died young, against which the code's counter is judged, and
`late` says that one of them was joined only when the window had elapsed, so that
the code took its life for a long one.

**HfSink.** Each sink is idle, waits for the gate, sends or sleeps. The gate is
a FIFO queue and a permit. The server answers a request, or not; a request
without an answer may stay behind as an orphan that is carried out later.

**Bucket.** An attempt uploads (`Upload`), commits the bytes (`CommitContent`) and
posts one line (`Serve`, `Registered`), and starts again with the upload when
any of it fails transiently. `cas` are the contents that are committed, `entries`
the lines the bucket has applied. The commit may take effect although it is
reported as failed, and a line without an answer may be applied later, also
when the process has died.

**Terminal** is the abstract specification of both sinks: an ingest returns Ok
only for a file that is at the destination, a file gets there only when it was
offered, at any time after that, and never goes away. `HfSink` and `Bucket`
implement it, with `pending` as the windows that a call or an orphan may still
store: `KeepsTerminalPromise`. It is what `Spool` assumes of its terminal sink when
it removes a segment after an Ok.

## What is checked

Every run finishes in well under five minutes with two workers. Symmetry is
used where records are interchangeable and the properties are invariants or
step properties, never for liveness.

| Run | Question | Properties | Bounds |
|---|---|---|---|
| `SpoolCrash` | Is a durable spool right across a restart, with rejections and lost replies? | `CountExact`, `ValveFires`, `ClosedWindowIsOneObject` | 3 records, clock 0..5 in 3 windows of 2 s, valve at 2, 1 crash, a hint other than the name |
| `SpoolFaults` | And when every store call may fail, segments become unreadable and the clock steps back? | `Custody`, `CountCovers`, `ShipsClosedWindows`, `OkMeansDrained`, `KeepsPromise` | 2 records, clock 0..3 in 2 windows, 1 crash |
| `Poll` | Does a pipeline hand over what is new and lose nothing silently, and does it stop as its policy says? | `NoRepeats`, `RepeatsAreKept`, `NoSilentLoss`, `StopDeliversAll`, `WindowsStayWhole`, `SignalStopsRun`, `ClosedWindowsShip` | 2 readings of one key, handed over once each, 3 windows, 1 crash, both policies |
| `StackHandover` | Does custody pass from tier to tier without a gap? | `StackTypeOK`, `StackCustody`, `FlushEmptiesStack`, `AdvanceShipsBoth`, `OneCopyUnlessBounced` | 2 records, windows of 1 s in windows of 2 s, 2 failures, 1 crash |
| `StackHour` | Do records stay in their hour? | `SegmentsKeepTheirHour` (violated) | the same, no crash |
| `TeeFanOut` | Is a branch served although the other one refuses everything? | `TeeCustody`, `BranchesAreIndependent`, `CopiesOnlyAfterFailure`, `SecondIsServed` | 2 records, 3 windows, valve at 2, 1 crash |
| `JsonlCrash` | Can acknowledged records be read back from the files, and do the files behave like `Store`? | `JsonlTypeOK`, `AckedIsReadBack`, `ImplementsStore` | 3 records, batches of 1 or 2, 2 windows, 2 kills, 2 outages, failing system calls, a directory on disk or not |
| `JsonlUnlisted` | Also the segments whose directory entry was never synced? | `AckedIsDurable` (violated) | 1 window, 1 kill, 1 outage |
| `SupervisorRun` | Is supervision right under any order of panics, backoffs and the signal? | `SupTypeOK`, `GivesUpOnStreaks`, `ReturnsAccounted`, `PanicsAreAnswered`, `SignalStops` | 2 pipelines, 2 failures allowed, factories may panic |
| `SupervisorPolicy` | Does every pipeline apply its shutdown policy? | `EveryPipelineSettles` (violated) | 2 pipelines, 1 failure allowed |
| `HfGate` | Does the gate serialize, does nobody starve, and does Ok mean stored? | `OneSendPerGate`, `GateIsHeldToSend`, `KeepsTerminalPromise`, `EveryIngestReturns` | 2 sinks, 2 windows, 3 attempts |
| `Bucket` | Do paths always refer to bytes that are there, and does Ok mean readable? | `EntriesHaveContent`, `EntriesNeverChange`, `KeepsTerminalPromise`, `EveryWriteReturns` | 2 sinks, 2 windows with the same content, the code's 4 attempts, 1 crash |

Why the bounds are enough to be of interest. Three windows are the fewest with
an older, a failing and an active one in the same pass; three records with a
valve at two let the valve fire and a record follow it. One crash meets every
await of every call, because calls follow it and precede it. The clock has two
readings per window, so a window can be extended, and closed. In `StackHandover`
two failures let a batch be refused twice and be handed over a third time, and
its bound on copies follows from that. In `Poll` two readings of one key are a
reading and its correction: they come together, one after the other, or not at
all, and the second may be handed over when the key was absent, or forgotten in
the restart. The valve of that run is out of reach, as `WindowsStayWhole` needs
it to be; `SpoolCrash` has it. A restart before the third window, with the segment
of the second torn, shows what an unreadable current window delays and for how
long. Two batches of two are the fewest in which a torn
line lies between acknowledged records; with two outages one of them follows
the recovery from another. Two failures allowed give a streak, a reset and a
streak again. Three attempts have a first, a middle and a last one. In `Bucket` two
pipelines write the same bytes, which the content store keeps once: what one
sink commits must not stand in for the other's line. The bounds on crashes,
kills, outages, failures and copies (`MaxCrashes`, `MaxKills`, `MaxOutages`,
`MaxFaults`, `Records` in `Poll`) are guards of the models; records are handed over
once each, which bounds the work of a pipeline.

Deadlock checking is off in `Poll`, where a pipeline that was stopped does
nothing more, and in `TeeFanOut`, whose clock and records run out. The other
models keep going by the clock readings that are left, the calls that are
always possible and `Over`, the step of a runtime that has returned.

**Fairness.** All of it rests on this: the executor polls a ready task, file I/O
ends, and HTTP clients have a timeout. Nobody owes a signal, a tick of the
clock, a panic or an answer of a server.

- `FairPollSpec`: a call in progress goes on, the interval ticks, a poll ends. The
  token may lose a draw of `select!` against a tick, but the draws are
  independent, hence strong fairness for `Break`. A window that is offered again
  and again is accepted at some point; without that an outage of the
  destination that lasts for ever would refute any delivery. What does fail for
  ever in this run are segments that a torn character has made unreadable.
- `FairTeeSpec`: the same for the calls and the heartbeat, and for the second
  branch that it accepts at some point. The first branch owes nothing.
- `FairSupSpec`: calls end, a cancelled `select!` takes its cancel branch
  eventually, the join loop runs; no signal, no tick and no age is assumed.
- `FairHfSpec`: attempts end, which is the timeout that the documentation of
  `CommitGate` asks for, and the semaphore hands a free permit to the first
  waiter.
- `FairBucketSpec`: an Xet session ends what it began or fails, a POST ends, and
  a sleep ends.

Every property of a passing run has a mutant in `PROJECT.json`, a plausible bug
in the code that TLC finds with that property: a removal after a rejection, an
active window that counts as closed, a counter that is not restored, an error
that is not recorded, a permit that is dropped at once, a path that is registered
before its bytes, a branch that is not called after an error.

## What is proved

| Theorem | States | For |
|---|---|---|
| `SpoolInv`, `TypeCorrect` | types; what a call in progress knows | every constant |
| `SpoolDelivers` | `KeepsPromise`: `Spool` implements `Delivery` | both backends |
| `RecordsKept` | `Custody` | durable stores |
| `ShipsClosed` | `ShipsClosedWindows` | any clock |
| `CountIsExact` | `CountExact` | stores that do not fail |
| `SpoolPasses`, `OkIsDrained` | what a pass has gone by; `OkMeansDrained` | every constant |
| `ValveWorks` | `ValveFires` | stores that do not fail |
| `CountIsBelow`, `CountIsCovered` | `CountCovers`, store errors included | every constant |
| `ClosedWindowsAreWhole` | `ClosedWindowIsOneObject` | durable stores that do not fail, a clock that only goes forward, any hint |
| `PollDrivesSpool`, `PollTypeCorrect` | a running pipeline is a spool; types and accounts | any API |
| `RepeatsDropped`, `RepeatsKept` | `NoRepeats`, `RepeatsAreKept` | the same |
| `NothingLostSilently`, `StopDelivers` | `NoSilentLoss`, `StopDeliversAll` | the same |
| `PreservedWindowsAreWhole` | `WindowsStayWhole` | any API, any store errors, `Hint = Name` |
| `StackIsInvariant`, `StackTypeCorrect` | types; both tiers, the calls between them, where a record is | any two tiers, store errors included |
| `CustodyPasses`, `CopiesAreBounced` | `StackCustody`, `OneCopyUnlessBounced` | the same |
| `FlushEmptiesBoth`, `AdvanceShipsClosed` | `FlushEmptiesStack`, `AdvanceShipsBoth` | the same |
| `JsonlIsInvariant`, `JsonlTypeCorrect` | types; what is left to write and what has its line | any files, kills, errors, outages |
| `AckedReadsBack` | `AckedIsReadBack` | any files, kills, errors, outages |
| `FilesAreAStore` | `ImplementsStore`: `JsonlStore` implements `Store` | any files, kills, errors, outages |
| `TeeInv`, `TeeKeeps`, `BranchesIndependent` | `TeeCustody`, `BranchesAreIndependent` | any branches |
| `CopiesNeedFailure` | `CopiesOnlyAfterFailure` | stores that do not fail |
| `SupervisorInv`, `SupTypeCorrect` | types; join queue, turn, outcomes, counters | any pipelines, any limit |
| `GivesUpSound`, `ReturnsSound` | `GivesUpOnStreaks`, `ReturnsAccounted` | the same |
| `HfSinkInv` | types; gate, answers, attempts | any sinks, windows, attempts |
| `GateExcludes`, `GateReleases`, `OkIsStored` | `OneSendPerGate`, `GateIsHeldToSend`, Ok means stored | the same |
| `HfKeepsPromise` | `KeepsTerminalPromise`: `HfSink` implements `Terminal` | the same |
| `BucketInv`, `BucketTypeCorrect` | types; lines and their bytes | any sinks, windows, attempts, crashes |
| `EntriesSound`, `EntriesStay` | `EntriesHaveContent`, `EntriesNeverChange` | the same |
| `BucketKeepsPromise` | `KeepsTerminalPromise`: `Bucket` implements `Terminal` | the same |

**Assumptions.** They are named and stand beside the constants. `StoreAssumption`:
windows are integers, records are finite, only `JsonlStore` fails or tears.
`TierAssumption`: clock readings are integers whose windows are among `Windows`,
and windows are at least a window length apart, which is what `align` makes
them. `PollAssumption`: records are numbered copies of readings. `BucketAssumption`:
windows with the same path are the same window, which says that the length of
windows is not reconfigured while one is being written. `StackAssumption`: the
windows and the clock readings of the inner tier are spaced like those of the
outer one, and the exclusive end of an outer window is a time of the inner tier,
since that is the time its batches are handed over with. `JsonlAssumption`: a
newline, a torn value and a value torn inside a character are told apart from
each other and from records, and a batch is a sequence of records. `SpoolAssumption`,
`TeeAssumption`, `SupervisorAssumption` and `HfAssumption` type the remaining
constants. TLC evaluates all of them in every run.

**Spool.** `Custody` is not inductive: it says nothing of the segment that is
about to be removed. `CallInv` does. While a pass is at `offered` or `commit`,
`batch` is what the segment holds, and at `commit` it has been delivered; that
holds because nothing is appended during a pass, since calls do not overlap.
With it each step of the spool is a step of `Delivery` or a stutter: an append
is `Accept`, whether it returns Ok or not, an upload is `Deliver`, a commit is
`Release` and a crash is `Accept`, `Lose` or nothing. `ShipsClosed` needs `PassInv`:
in an unforced pass the active window is the one of the call, so a window
before it ended when the call was made, by the spacing of windows.
`CountIsExact` needs `FreshInv`: an appended batch is in no segment yet, so
the cardinalities add up. It excludes store errors, and has to: an append that
failed half-way leaves records that the count does not include. With store errors
`CountCovers` takes its place. `CountBelow` is the upper half: a failed append adds
to the segment and not to the count. The lower half needs `AckedInv`: what is
still to be appended is not acknowledged, so the records that the count misses
are those of appends that failed, and only those can delay the valve. `OkIsDrained`
needs `DrainInv`: the cursor moves only over windows that failed, so a pass
without an error still looks at the oldest segment, and when it ends there is
none that it should have shipped (`Through`). `ValveWorks` combines it with
`CountExact`.

`ClosedWindowsAreWhole` rests on `WholeInv`. Its aim, `ObjectInv`, is that a window
with an object is closed and what is stored of it, if anything, is what the
object has. It also says which names an object may carry: a process that has not
ingested yet drains under the store's hint, but the first one has nothing to
drain by then (`NamedInv`), so only restarts do. Where hint and name agree, two
objects of such a window are the same. That is kept by an append because the active window is the newest
and not older than the clock (`ClockInv`), hence not closed. An upload keeps it
because the segment checked out is closed or was offered by a forced pass
(`OfferInv`), and that in turn needs `OpenInv`: while a tier has no active
window, everything it stores is closed, or split already, or unreadable. That is
what fails with store errors. After a failed activation an empty ingest drains
without an active window (`src/layer/tier.rs:298`), takes the open window for a
closed one and ships half of it; TLC shows this on `SpoolCrash` with
`StoreErrors = TRUE`. The hypotheses are those of the run.

**Poll.** `PollDrivesSpool` shows that every step of a pipeline is a step of
`Spool` or leaves it alone, so what is proved of the spool holds of a pipeline;
for an ingest that needs `CopyInv`, that the next copies of readings are new.
`AckInv` follows a batch from the call to its result: what is in `arg` is
acknowledged when the call ends without an error. `LossInv` then accounts for
every record that was handed over: acknowledged, refused with an error, cut off
by a crash, or under way; with `Custody` that is the first half of `NoSilentLoss`.
The second, that a failed ingest has kept its records unless their own segment
cannot be read, is `RefuseInv`: past the append they are acknowledged, and before
it only `activate` can fail. `SeenInv` says it
of keys instead of records and gives `RepeatsAreKept`. `SettleInv` ties the
shutdown call to the policy, and with `OkMeansDrained` gives `StopDeliversAll`.
`NoRepeats` follows from `steady` being a part of `seen_prev`. `WindowsStayWhole`
needs no exclusion of store errors, because a pipeline makes no empty ingest:
`PreserveInv` says so, and that under `PreserveActiveWindow` no pass is forced while
`max_records` is more than there are records. That the valve stays shut is
`CountIsBelow`: a failed append leaves the count too low and never too high.

**Stack.** `OuterInv` and `LowerInv` are the invariants of the two tiers, from the
definitions of `Tier` that both instantiate. `LinkInv` ties their calls together:
the inner tier is called only while the outer one waits, for the batch it has
checked out, at its time, and by an advance or a flush when the outer one is
asked to. `BelowInv` then follows a batch: an inner ingest that got past its append
without an error has it, so the outer tier removes a segment only if its rows
are below, and the inner one only if they are at the destination. That is
`StackCustody`. `BelowDrained` says the same of draining: an Ok of the outer call
includes one of the inner call. For `OneCopyUnlessBounced`, `OfferInv` counts
the offers of a record: none before its segment is drained, and another one only
if the last was answered by an error; what a crash took from memory is not
offered again. `bounced` are the records whose copy was below when their inner
ingest returned an error; inner ingests that failed before their append do not
count. `CopiesCounted` says that a copy below which is not the latest is of such a
record, and `KeptBack` that so is the latest one when the outer tier still has the
record at rest.

**JsonlStore.** Nothing of this is an induction over the contents of a file: a
record counts as written when it stands at an index, with a newline before and
behind it (`LineIn`), which says nothing of the rest of the file and is kept by
everything that is appended later. `TodoInv` says that what is left to write are
records with a newline behind each, `WriteInv` that each record of the batch is
still to be written, or is the last token, or has its line, so that it has its
line when nothing is left. `SyncedInv` adds that the lines of an acknowledged batch
are within the synced length of their file, and the file's name within the
synced directory, which is what a power failure leaves. It leaves out the
`exposed` segments: those of finding 2, and those of a directory that was not on
disk itself. `TextInv` adds that a value torn inside a character is only in the
file of a segment in `cut`. So a record that was acknowledged can be read, unless
a write to its own segment was cut short in the middle of a character. That write
costs the whole segment, acknowledged records included: `Store` allows it too
(`broken`), so the refinement does not exclude it. For the
refinement a whole value is `StoreAppend` of one record, a newline or a value torn
between characters an append of nothing, a value torn inside a character
`StoreTear`, the creation of a file an append of an empty batch, the removal
`StoreCommit`; sync calls and reads are stutters. A power failure is the one
step that is none of `Store`'s, because it may take what no sync has confirmed.

**Tee.** `TierInv` says that the batch in the call is the segment that is checked
out, `CallInv` what the first branch has taken by the time it is the second one's
turn, and that at `commit` both have the batch. For `CopiesNeedFailure` the batch of
an append has to be new: over a store that does not fail, what the Tee
returned Ok for is removed before the next read.

**Supervisor.** The counter of the code may be lower than the true streak,
because an incarnation that died young may be joined late and pass for an old
one. `StreakInv` bounds it from above: it never runs ahead of the streak, save by
what a reset at the next join takes back. `LateInv` bounds it from below: unless a
panic of the streak was joined late (`late`), the counter has all of the streak, so
one above the limit is not respawned. `OutcomeInv` keeps for every joined
task why it has no successor.

**HfSink.** `GateInv` equates the holder of the permit with the sink that sends,
`OkInv` follows an answer from the server to the result, `BackoffInv` says that a
sleeping sink has an attempt left. For the refinement an attempt that begins,
a sleep and an answer that is not a success are stutters, a commit by the
server is `Settle`, and an orphan keeps its window pending.

**Bucket.** `EntriesHaveContent` is not inductive: a line that is under way may
be applied at any time. `LinesInv` says of all lines, applied, abandoned or being
posted, that they are the line of a window whose content is committed; one
window per path then makes entries permanent, and the answer 2xx the moment
after which the window can be read.

Every invariant and every action property of a passing run is stated by a
theorem. Only model-checked: liveness (`SignalStopsRun`, `ClosedWindowsShip`,
`SecondIsServed`, `PanicsAreAnswered`, `SignalStops`, `EveryIngestReturns`,
`EveryWriteReturns`), which needs ENABLED and is beyond the prover, and the three
properties that do not hold. No theorem composes `FilesAreAStore` with `Spool`: that a
tier over files keeps custody follows from it and `RecordsKept` only between
power failures.

## Where the code and its documentation differ

Each of these has a run that shows it.

1. *The last outer window of an hour goes to the next hour* (`StackHour`). An
   inner tier aligns `meta.end` (`src/layer/tier.rs:299`), which an outer tier
   sets to the exclusive end of its window (line 241). The README says that an
   hourly policy maps every record from 12:00 through 12:59 to the 12:00
   segment.
2. *A new segment may be acknowledged unsynced* (`JsonlUnlisted`). `is_new` is
   decided by `exists()` (`src/store/jsonl.rs:175`). When the append that
   created the file died before it synced the directory, the next one returns
   Ok without doing so.
3. *A panic next to the signal skips the shutdown policy* (`SupervisorPolicy`).
   A panic that is joined after the token fired, or whose backoff the token
   cuts short, is not respawned (`src/runtime.rs:194`, `227`), so what its spool
   holds is neither flushed nor advanced.

Observed while modelling, without a run of their own:

- After a torn value has made the segment of the current window unreadable,
  `activate` fails and `ingest` returns before its append
  (`src/layer/tier.rs:301`), and `advance` before it drains any other window
  (line 322), until the window is over. The comment of `ensure_init` (lines
  143-144) says "new records may still be appended when the store remains
  writable". `NoSilentLoss` says that this refuses no other window's records, and
  `ClosedWindowsShip` that the delay ends when the clock leaves the window.
- `seen_prev` is replaced before the ingest is called (`src/pipeline.rs:200`), so
  the records of an ingest that failed are repeats in the next poll and are not
  offered again. `RepeatsAreKept` and `NoSilentLoss` name them as `refused`: an error
  was logged for them.
- In the example collectors a response that is not an OK becomes an empty Ok
  (`examples/common/mod.rs:113`), which clears `seen_prev`: the readings of the
  next response are handed over again.
- A value torn inside a multi-byte character makes `read_to_string` refuse the
  whole segment (`src/store/jsonl.rs:254`), where the module says that torn lines
  are skipped. `Store` models it as `broken`, and `AckedIsReadBack` names it as the
  exception.
- A window that a forced drain shipped while it was open, whose segment is
  still there after a crash, grows and is shipped again with other content, so
  its first rows are in two objects. `ClosedWindowIsOneObject` excludes windows
  that a forced pass touched.
- An inner tier that appended a batch and then failed to drain returns an error
  for the batch (`src/layer/tier.rs:303-315`); the outer tier hands it over
  again, and it is stored twice. `OneCopyUnlessBounced` shows that it takes such an
  error.
- An empty ingest after a forced drain or a failed activation finds no active
  window and drains the current one (`src/layer/tier.rs:298`), where the comment of
  `drain` (lines 195-197) has only closed windows drained. `Pipeline` never makes
  that call, and `PreservedWindowsAreWhole` relies on it.
- With a directory name other than the pipeline's, windows drained before the
  first ingest of a process are named after the directory
  (`src/layer/tier.rs:133-139`), so a window may be at two paths after a restart.
  `ClosedWindowIsOneObject` says that they have the same content.
- A directory created by the store is not synced in its parent
  (`src/store/jsonl.rs:113`), and a removal is not synced either, so a delivered
  segment may be back after a power failure.

## What is not modelled

- Windows whose length saturates (`Duration::MAX`). An instance with a single
  window stands for them.
- Encoders, request and response formats, FNV-1a, path formatting: data that no
  property tells apart. An encoder may fail in `HfSink` and `Bucket`.
- Corrupt bytes that no write of this program produces, and two processes that
  share a spool directory.
- A torn prefix of a value that is itself a value (a number cut after some of
  its digits): records are structs in every use the repository shows.
- The interval of the polls: a tick may come at any time. Wiring of examples
  and crate, website, test utilities, and the design of streaming sources in
  `docs/STREAMING.md`, which is not implemented.

## Plan

Done in this order: `Store` and `Tier`, the core, composed in `Spool`;
`JsonlStore`, which justifies `Store`; `Supervisor`; `HfSink`; `Stack`; `Poll`, which
justifies the caller of `Spool`; `Bucket`, and `Terminal` above both sinks; `Tee`.

Next, by importance:

1. Proofs: that `Stack` implements `Delivery`, with the copies of a record as its
   records; that a tier over the files of `JsonlStore` keeps custody, from
   `FilesAreAStore` and `AckedReadsBack`.
2. `Stack`: liveness of the handover under the fairness of `Poll`, and `Terminal` in
   the place of its last sink.
3. `Poll` with a record that the destination refuses for ever, in an instance of
   its own, as the windows of `Poll` are too many for one more cause of failure.
