# Pionir: TLA+ models and proofs

Pionir is a Python program that runs one owner's specialist programs for him: a loopback
HTTP server takes a task, decides whether it may run, waits for the owner's yes where it
must, runs it in a worker thread through an executive that protects the specialists and the
graphics card, and keeps a durable record of everything. Around it a Discord gate puts each
question before the owner and reads his reactions and replies, and a crew of workers submits
jobs of its own. This directory models the parts whose correctness depends on the order of
events: what runs after a yes, what is recorded of it, and what survives a crash.

All source paths below are relative to `src/pionir/` in the repository.

## 1. The system

### Parts, their state and how they interact

| part | state it keeps | operations | talks to |
|---|---|---|---|
| Approval queue (`approvals.py`) | `queue.json`: a row per question, status pending, running, approved, approved_failed, denied | enqueue, claim, resolve, pending, note_digest, find; expiry, retention and repair at start | server, gate, desk, quotes (calls under one lock) |
| Server (`server.py`, `batching.py`) | the app object; nothing of its own on disk | run_task, approve, deny, approve_group, desk_reply, the routes of the other parts | everything |
| Job records (`Jobs` in `server.py`) | one file per job, an event per running job | create, finish, wait, get, prune, recover | server handlers, worker threads, polling clients |
| Executive (`runtime.py`, `reliability.py`) | a circuit breaker per specialist, counts | execute: route, gate, lease, call, record | adapters, scheduler, audit, memory |
| GPU lease (`scheduler.py`, `shared_gpu.py`, `ollama_gate.py`) | an OS file lock shared by processes, active leases, the models on the card | acquire, release, make room, hand back, re-warm | executive, other processes |
| Discord gate (`discord_gate.py`) | one state file: the message of each approval, the digest cards, the digest run | a pass every few seconds: quote replies, post, follow, digest, desk, prune | Discord, queue, quotes |
| Quote replies (`quotes.py`) | `quote-cards.json`: per order the card, each reply's state, the cursor | tick, consider, handle, supersede, retry, reconcile | gate, Scrooge (the shop), queue |
| Approval desk (`desk.py`) | views and a weekly mark; parks cards in the other parts' files | view, sweep, dismiss, summary | queue, quote, Fiverr and Builds cards |
| Authentication (`auth.py`, `signin.py`, `bridge_auth.py`) | tokens, nonces, sessions, one-time codes | identify, check a signed request, sign in | server |
| Audit (`audit.py`) | a hash-chained JSONL file | record, verify | executive, server |
| Bolts economy (`economy/`, `crew/bolts.py`) | an append-only ledger and its head sidecar | append, verify; collector runs, purchases | crew records, Scrooge's revenue |
| Order desk (`crew/orders.py`, `crew/hands.py`) | one JSON record: emails, tries at cards | one run: read, follow up, send, post cards, move statuses, save | server over HTTP, by it the queue and Scrooge |
| Crew (`crew/`) | one SQLite store, JSON records per desk | workers in a pool, leaders, deliveries, posters, builders | server over HTTP, Ollama, Claude |
| Memory (`cortex.py`, `consolidate.py`) | a SQLite vault | remember, recall, consolidate | executive, crew |
| Self-improvement and builds (`selfimprove/`, `build_sandbox.py`, `crew/builds`, `crew/improve`, `crew/apibuild`) | candidate folders, git repositories | propose, check, apply, undo | queue, git, a sandbox user |
| Work log (`worklog.py`) | a SQLite file of hours and pay | timers, sessions, summaries | server |
| Adapters (`adapters/`), routing (`router.py`, `registry.py`), video, social, doctor, command line | nearly none | validate, one request, one answer | executive |

How a question travels: a client calls `run_task`; the server strips the permissions the
caller may not name and either runs the task at once in a worker thread (`_submit`), refuses
it, or parks it (`ApprovalQueue.enqueue`). The gate's next pass posts it, or leaves it for the
daily digest. A reaction, a tap on the phone or the desk calls `approve`, whose `claim` is
the one atomic step that lets a worker start. The worker resolves the row and then finishes
the job's record; the gate sees the row's new status and closes its message.

### What is hard, and what makes each part correct

- **Queue and server.** Two approvals at once, a deadline passing during a claim, a crash
  between the work and its record, a write or a read that fails. Correct: nothing runs twice,
  nothing runs without the owner's yes, the record says what happened, no question or run stays
  open.
- **Jobs.** Pruning, finishing, waiting and restarting meet on one file, which may not be read,
  written or unlinked just then. Correct: one end per job, the same for everybody, final; no
  record is running for ever; the directory is bounded.
- **Circuit breaker.** Each method is atomic and a call is several of them, so answers to old
  calls arrive in new states. Correct: never half open without a probe on its way, probes a
  recovery window apart, no trip reported twice by one thread.
- **Quote replies.** A reply is claimed, priced, parked and recorded in separate durable steps,
  replies replace one another, and the desk's thread handles replies too. Correct: one quote per
  reply, none lost, a replaced quote can no longer be approved, the last one is never withdrawn.
- **Digest.** A long run against an unreliable service, resumed after breaks, with the owner
  reacting meanwhile to what is only partly posted. Correct: nothing approved that he had not
  seen whole, or from a card that has been replaced, or against his no; the run ends.
- **GPU lease.** A lock between processes, models evicted under it and re-warmed after it was
  released, a gate that keeps its lease over other callers' calls, a voice that takes no lock, and
  a daemon that may fail any call. Correct: a call placed on the card keeps its lease until its
  answer, room is made under the lock and fairly, the voice's model comes back, every caller gets
  its turn.
- **Bolts.** A row and its anchor are two files, lines may be cut off, and every run sees the same
  events again, or no longer. Correct: one payment per event, revenue paid no further than its
  rise, caps and balances kept, no false alarm of tampering, everything paid in the end.
- **Order desk.** A run works for minutes on one reading of the orders and saves once, at its
  end; emails wait days for the owner. Correct: no client gets an email twice or both answers,
  no order is moved without its email, every paid order comes to an end or is given up on
  record.
- **Approval desk, sign-in, audit.** Several writers of one file, caches at their limit. See
  the plan.

`PROJECT.json` lists each hazard at its line with the properties that would catch it.

## 2. The modules

| module | models | proofs |
|---|---|---|
| `OwnerGate` | what the owner is promised: asked, answered once, attempted at most once and only after a yes | |
| `Approvals` | the queue, run_task, approve, deny, the worker of `_submit`, crash and start; refines `OwnerGate` | `ApprovalsProofs` |
| `Jobs` | class `Jobs`, `_submit`'s worker, run_task's immediate records, waiting and polling | `JobsProofs` |
| `Circuit` | `CircuitBreaker` and the calls of `Executive.execute` around it | `CircuitProofs` |
| `Quotes` | `QuoteReplies` for one order's card, under the gate's pass and `desk_reply` | `QuotesProofs` |
| `Digest` | the digest's run, its card and the reading of reactions | `DigestProofs` |
| `GpuLease` | `acquire` and `release` over the shared lock, and the Ollama gate as one of its tenants | `GpuLeaseProofs` |
| `Bolts` | a run of the Bolts worker: collector, ledger file and anchor, shop | `BoltsProofs` |
| `Orders` | a run of the order desk against Scrooge, the client, the owner and Pionir | `OrdersProofs` |

`MC*.tla` gives each its small instance for TLC. In every module a definition whose comment
begins with "Mistake:" models no code: it is the definition it precedes as a plausible bug
would write it, and TLC finds a property violated with it. They show that the properties can
fail.

**Approvals.** `rows` is `queue.json`; each queue method is one step because the code holds
one lock from load to save, and every such step sweeps (expires) and saves as the method
does, including what it prunes. A task (`pc`, `target`, `grants`) is one `run_task` or
`approve` call with its worker thread: submitted, queued, acting, returned, settled. `Act` is
the moment the work reaches the outside world and `Return` its answer; between them the
process may crash. `Boot` is `ApprovalQueue.__init__`, which denies every running row as
interrupted. `WriteFails` and the failing half of `Settle` are writes that raise, or a
`resolve` that could not read. A file that cannot be read loads as an empty one, and each
row's `file` says what came of that: a new question is then saved alone, and the others are
`"gone"` (`Overwritten`); a start passes over the running rows it did not see, `"skipped"`
(`Skipped`). The other methods find nothing to do, which is a step that changes nothing. A row
that is gone stays where it stood in `OwnerGate`: it is answered no more.

**Jobs.** `files` is the directory with modification times, which may tie; `armed`/`set` are the
events of `_done`, `waits`/`heard` what each waiter does and was told. A handler waits on its
own job, pollers on any. Every file operation may fail where the code goes on: pruning leaves a
file it cannot unlink (`stuck`), `finish` does nothing when it cannot read (`EndUnread`) and
raises when it cannot write (`EndFails`), a GET answers 404, a restart leaves the file to the
next one.

**Circuit.** Time is a counter, a method one step. `_count_failure` is the three steps it is
in the code (look, record, look), and an adapter may raise `ResourceUnavailable` before or
during its call. `lessons` counts the trips each thread reported.

**Quotes.** One order, replies numbered as their Discord ids grow; `record` is the card on
file and `locals` the thread that holds `_tick_lock`. The steps of `_handle` and `_supersede`
are apart wherever something durable changes: the last try and the verdict on it are two saves
(`NoOrder`, `GiveUp`), parking, recording and each withdrawal are saves of their own. `order`
moves at Scrooge meanwhile; `Approve`, `Deny` and `Run` are the queue's side, with
`check_provenance` as `Run`'s condition. `latest` and `withdrawn` remember whose quote was
parked last and whose was denied by `_supersede`.

**Digest.** `queue` is reduced to what the digest asks of it. A pass reads a card, asks each
chosen item's preview again and claims it (three kinds of steps with the world moving between
them), and then continues the run part by part. A preview is up in part, whole, or without
its image ("blind"). `late` holds the item in hand when a no lands on it after its preview was
asked and before its claim.

**GpuLease.** A tenant is one thread's use of a scheduler object; `holder` is the lock on the
lease file, `active` the leases a scheduler has on record, `card` what the daemon lists.
`acquire` is cut where another process, the driver or the daemon may act: taking the lock,
the settle question, the hand-back plan, measuring, each eviction, admission; `release`
where it unloads, unlocks and forgets. `Refused` is its `except` branch. Any call to the daemon
may fail: `Plan` and `Measure` may see an empty card, an unload may leave the model, a
re-warming is tried once. The gate's evictor is two steps, the question to the voice
(`GuardedEvictor`) and the unload (`PutOut`), and she may begin a turn in between (`late`).
Re-warming is a counter of threads that load the voice's model some time after the lock was
let go. The gate's callers (`call`, `serial`) share one turn; `place` asks for the lease, `reap`
gives it back when `lingered`. The callers are all there at the start, since one that never
comes is like one that leaves at once, and each tenant beside the gate asks once. The voice
looks, starts and ends turns; she and the daemon's loading of models are external.

**Bolts.** `rows` is the ledger's file, `head` the number of rows its sidecar anchors. `Write` is
`append`: the row, then the anchor; `CutOff` breaks it before either is whole. A line cut off is
no row to any reader and is set aside by the next append (`_quarantine`), so the model does not
keep it. A run begins with what is on record by then (`Begin`), which may be less than before:
resolved approvals are dropped after a week and a delivered order can be cancelled. It pays
event by event, then revenue since its watermark (the latest figure a row was written for), then
lets the shop go round until nobody buys. `backed` remembers the events that were on record for
the run that paid them. A refusal is counted in a file; when that write fails the run is over
(`Refused`).

**Orders.** `disk` is the desk's record as saved, `rec` the one a run works on, `seen` its
reading of Scrooge's orders. The parts of a run follow one another as in `run`, item by item
where a call is made; a submission may be parked, parked with its answer lost or "still
running", or not happen. An approved email is sent (`Answers`) and its result written in a later
step (`Settles`), before which Pionir may restart and deny it as interrupted. `Accepts` is
Scrooge's own refusal of a second or late link email. A look at an approval may find Pionir out
of reach (`FollowUp`), and an email waits `Patience` runs from its submission. Only the kinds in
`Answering` move an order. `excused` remembers the emails the desk lost sight of, `late` the
orders moved by hand since the reading.

## 3. The runs

| run | instance and bounds | shows |
|---|---|---|
| `approvals` | 2 actions, 2 approve calls, one owner's surface, one agent, in-process code; 1 crash, 1 write or read that fails, clock 0..2 | all safety and liveness of the gate, and that it implements `OwnerGate` |
| `jobs` | 2 jobs, room for 1, their handlers and a poller; 2 crashes, 2 failing file operations, times 0..1 | one final end per job, the bound of the directory, every record ends |
| `jobs_result_lost` | 3 jobs, room for 2, all times the same, nothing failing | a running job's file is pruned and its result lost (finding) |
| `circuit` | 3 threads, threshold 2, window 1, clock 0..2, 5 calls | the half-open state always resolves, probes are spaced, a lesson is of a trip within its own failure's looks |
| `one_probe` | 3 threads, threshold 1, 4 calls | two probes at once (finding) |
| `quotes` | 2 replies, 2 tries, 1 exception, 1 crash | one quote per reply, none skipped, the last one stands, each answered |
| `quotes_one_live` | 2 replies, 2 tries, 1 exception, no crash | two live quotes of one order (finding) |
| `digest` | 2 items and 2 digests, 3 of them in all (two items in one digest, or one over two); 2 reactions, 2 tries, 1 break | nothing approved unseen, from an older card or against a no that could be read; a digest shows what it planned, and ends whatever is refused |
| `gpu` | the gate, a whole-card build and a small job; two callers; a card of 3 units with models of 2, 2, 3 and 1 | no call loses the card, room is made fairly, the voice's model comes back, turns come |
| `bolts` | 2 events of one account (2+2 against a cap of 3), revenue figures 0, 3 and 5 in any order, a home with 3 items; sources that forget; 2 faults | what is due is paid once and in the end, limits hold, no false alarm |
| `orders` | 2 orders and 1 email and 1 card a run, 2 tries, 1 run of patience: one flagged custom quote (1 fault), one checkout (0), one paid order (2), each beside a finished one; two paid orders (0) | no second copy, no two answers, statuses moved only with their email, paid orders move on |
| `orders_twice` | the same | a client gets an email twice, and no submission was unreachable (finding) |

Why the bounds are enough for what is asked: each hazard is a meeting of two parties on one
row, file, slot or card, and a third party or a second round makes the case where an old
actor meets a new state. So: two approve calls and two actions (a double tap, one action's sweep
expiring another, and one question saved over another); one job more than the directory holds;
three calls (one from before the trip, a probe, and one let in by mistake); two replies (an older
and a newer); two digests for one item (a newer card over an older one, and one report after
another) and two items on one card (approve-all and one bad part of several); three tenants (the
gate, one that must displace the voice, one that must fit beside her) and two callers (one served,
one waiting); two events that meet a cap together, with two cut-off writes, since two missed
anchors in a row are what the ledger calls broken; one order through its life beside a finished
one, and two paid ones against a cap of one email a run. One crash and one fault each fall in
every place; the job files get two of each, because a file that failed once is met again by the
next pruning or start. Clocks only need to reach a deadline and pass it, and two modification
times are enough for files that tie and files that do not.
What lies outside the bounds (for TLC; section 4 says what the proofs add): three replies, two
crashes during one repair of the queue, a digest of two items followed by another, and more than
one quote card or specialist at a time (they share no state in the code but the queue).

Deadlock checking is off where the program may rightly come to rest: all questions answered,
all calls made, the bounds used up.

### Fairness

- `Approvals`, `Jobs`: the clock and the poller's look at the queue go on (the gate and every
  client poll), worker threads run and their calls return (adapters have time-outs), and a
  crashed process is started again by its launcher. The owner's answer, callers and crashes
  are never fair.
- `Circuit`: a call that was admitted is answered and recorded. New calls are not assumed.
- `Quotes`: the gate polls on. Discord and Scrooge are called with time-outs; the answer may
  be a failure each time, and `EveryReplyIsAnswered` holds all the same because tries are
  counted.
- `Digest`: a pass reads every card once and then continues the run (`_digest_tick`), so the
  run's steps are strongly fair: reading that asks for the same item again and again, its
  preview unreadable each time, cannot hold the run up. Discord may refuse any part for ever.
- `GpuLease`: a tenant that asked goes on (the wait for the lock has a deadline), its job
  ends, a caller is served and answered, re-warming threads run, a turn of the voice ends, and
  the linger timer and the reaper go on, whichever of the two is next. Nobody has to ask, and she
  need not speak.
- `Bolts`: a run that began goes on, and runs begin on ever new days (strong fairness: the
  crew's scheduler starts the worker at its cadence whenever it is idle, whatever happened to
  the run before). Sources and writes may fail up to the bound on faults.
- `Orders`: runs begin at the desk's cadence and go on, the owner answers the cards he is shown
  (with a yes or a no), and Pionir writes down what came of a yes. The client, Scrooge and
  Pionir's list owe nothing.

### What the properties excuse

Some properties name what the code cannot promise, so that they say exactly what it does. Where
the repository promises it all the same, that is a finding (next section).

- `RunningHasItsWorker`, `EveryRunSettles`: a row whose own task could not write or read the queue
  at its end, and one that a start passed over because it could not read the file.
- `RowsMoveForward`, `EveryQuestionCloses`: a row lost with the file, at a step with a fault.
- `OneEnd`, `EveryRecordEnds`: a job whose record `finish` could not read or write at its end.
- `DirectoryBounded`: the files the last pruning could not unlink. Earlier ones are made up for:
  each pruning counts whatever is there.
- `TypeOK` of `Quotes`: one try more for every pass that ended between counting the last try and
  giving up.
- `ReplacedForGood` speaks of the quote parked last, not of the newest reply.
- `LessonsAreNews` lets several threads report one trip, each whose looks enclose it.
- `NoBeatsTheCard`: a no that lands after the preview of that very item was asked, with only the
  claim to come.
- `RoomIsMadeFairly`: a turn of the voice that begins after the gate's evictor asked her.
- `WarmAgain`: `crossed`, the voice's model was last loaded in the middle of a lease, by herself
  or by a late re-warming (then the next lease may find it after its snapshot and evict it without
  owing it back), and `missed`, the snapshot could not be had or the one try at re-warming failed.
- `BrokenIsEarned` and `EventuallyPaid` stop at a ledger that missed two anchors in a row, which
  only an owner repairs; an event that is on record no longer is owed nothing.
- `NoSecondCopy` and `NeverBothAnswers`: an email whose fate the desk lost, in one of three ways.
  Pionir parked it and the answer was lost ("unreachable", although `hands.py` says of that status
  "we do not know that it ran"); the run died before its save; or it went after the run had read
  the orders and was reported as an outage, so that the desk, looking for it among the messages
  it had read, offers it again. An email tried again in any other way excuses nothing.
- `MovesOnlyWhatItAnswered`: an order the owner settled after the run's reading (`late`).
- `GivenUp` counts a decline the owner denied as the end of an order: a flagged client whom he
  then quotes, and who pays, gets no acknowledgement, because `_closed` looks at any opposite
  answer that is settled, a denied one too (`crew/orders.py:950`).

### Findings

Each is a sentence of the repository that the code does not keep; the models otherwise
take the code as it is. Four have a run that violates the sentence itself. For the others the
passing run checks the strongest property that holds, and the finding says what it had to except.

1. `approvals.py:81` says a crash never becomes a latch. A start that cannot read the queue
   repairs nothing, and the rows stay running until a later one (`RunningHasItsWorker`).
2. `approvals.py:75` and `:112` call the queue durable and say pending rows are never dropped. A
   question asked while the file cannot be read is saved over all others (`RowsMoveForward`).
3. `Jobs` says a result is never lost to a client that gave up. `_prune` counts files and not
   states, and `finish` returns when the file is gone (`jobs_result_lost`). What holds:
   `EndsAreFinal`, `EveryRecordEnds`.
4. `CircuitBreaker` says it allows one timed probe. A late failure of an older call clears the
   flag of a probe still out (`one_probe`). What holds: probes start a window apart
   (`ProbesAreSpaced`) and a half-open circuit has its probe (`HalfOpenHasItsProbe`).
5. `runtime.py:226` says a lesson is recorded once per trip. Two threads whose looks both enclose
   the trip both record it. What holds: no lesson without a trip in between the looks, so that
   no thread reports one twice (`LessonsAreNews`).
6. `quotes.py:24` says only one quote card per order is ever live. An exception between the
   recording of a reply and the denial of the older one's approval ends the pass with both
   pending, and nothing claimed is left to try again (`quotes_one_live`). What holds: with no
   break at most one is left (`OneLiveUnlessBroken`), and what is marked superseded can no longer
   be approved (`ReplacedForGood`).
7. The same docstring says a newer reply replaces an older one. An older reply that is parked
   later, tried again or typed earlier, withdraws the newer one's quote (`ReplacedForGood`).
8. `discord_gate.py:2509` says a no at any moment before the claim wins. One that lands between
   the reading of the preview and the claim does not (`NoBeatsTheCard`).
9. `ollama_gate.py:95` says the voice's model is unloaded only if she is idle at that moment. She
   is asked, and may begin before the unload (`RoomIsMadeFairly`).
10. `orders.py:67` says no order gets a second email of a kind but after a submission that never
    reached Pionir. A run that dies before its save has forgotten what it parked (`orders_twice`).
11. `orders.py:102` says an order's own messages guard against a double send. They are the messages
    read at the beginning of the run (`NoSecondCopy`).
12. `orders.py:68` says no order is both thanked and declined. It may be if the first of the two
    was lost with a run and the screens were edited before the next (`NeverBothAnswers`).
13. `orders.py:62` says an order the owner has moved on is left alone. The desk compares the status
    it read at the beginning of its run, and Scrooge takes any (`MovesOnlyWhatItAnswered`).

## 4. The proofs

The proof modules prove for every value of the constants what the runs check on small ones:
any number of actions, calls, clients, jobs, replies, items, tenants or events, any deadlines,
limits and sizes, any number of crashes, broken passes and failing writes. The assumptions are
those named in the modules: typing; that task names, and tenants and callers, differ; that
the owner's surfaces are clients and no client's grant holds an approval marker
(`auth.load_grants` enforces that); that no tenant's own model is the voice's; that no single
payment exceeds an account's daily cap, as the tables of `payouts.py` have it; that the shop's
catalogue is finite, every tier on its list is a tier, and a later tier has no fewer rooms
(`shop.py`'s `CATALOG`, `TIERS` and `ROOM_SLOTS`).

Every proof has the same plan: an inductive invariant `IInv` that contains `TypeOK`, one lemma
per action or group of like actions, and the theorems drawn from it. What the strengthening
is, and why it is needed:

- **The owner's gate** (`ApprovalsProofs`). A call under way holds the row's claim
  (`ClaimHeld`), was allowed to take it (`ClaimAllowed`), and the row names that very call
  (`RowNamesItsCall`); a direct run belongs to a task that did not have to park (`DirectRun`);
  what ran was run by the row's task (`RanByItsTask`); a success was a run (`SuccessRan`). "At
  most once" follows: whatever ran is the task the row names. Most queue operations change
  rows only by sweeping, pruning or losing them with the file, so `DriftKeeps` treats them
  together; that a lost row stays lost and unchanged is `FilesStay`. `GateImplemented`
  maps statuses to the stages of `OwnerGate` and shows each step to be an answer, an attempt
  or a stutter.
- **Jobs** (`JobsProofs`). `OneEnd` speaks of two waiters and a file that may be gone. What ties
  them is the worker: an end on file (`FileIsEarned`), an event set (`EventsAreEnds`) or an end
  heard (`HeardIsEarned`) each point to how the work ended, and that never changes; an ended
  job's file is finished or pruned (`EndIsFiled`), and a job nobody began left no trace
  (`Unbegun`), so that a pruned file is not made again. `DirectoryBounded` is kept by the one step
  that adds a file: its pruning takes all but `Keep` away, and what it cannot unlink is `stuck`
  (`CreateBounds`); every other step leaves the files or takes some away (`RestBounds`).
- **The breaker** (`CircuitProofs`). While the circuit is not closed its window runs from the last
  failure recorded or probe handed back (`WindowIsCurrent`), and a failing call whose first
  look found the circuit not open, and that finds it open now, saw it trip (`TripWasSeen`),
  which is what it reports (`LessonsAreNews`).
- **Quotes** (`QuotesProofs`). Until its verdict the reply in hand is claimed, has tries left and,
  up to the parking, nothing parked (`VerdictIsOpen`): that is "one reply, one quote". The page in
  hand still holds whatever was not claimed up to where it ends (`PageHolds`), so moving the
  cursor there skips nothing. While others are replaced the reply that replaces them stands, is
  none of them and was parked last (`ReplacementStands`). A reply without a verdict has tries left
  but while it is being given up, and each break in between grants one more (`TriesLeft`). While
  nothing broke, every quote that waits is recorded, and there is one at most, but for the one
  just parked (`OneWaits`).
- **Digest** (`DigestProofs`). Two invariants. `ReadInv`: what a card offers was whole when it
  went up and a reaction to it was made by one who had seen it (`CardsAreWhole`,
  `ReactionsAreInformed`); only the newest posted card counts (`OneCardCounts`); what is being
  read was covered by such a reaction (`ReadingIsInformed`), and a no on the item about to be
  claimed landed after its preview was asked (`NoesStand`). `RunInv` relates the plan to what was
  posted, given up and reported.
- **The card** (`GpuLeaseProofs`). Who is between taking the lock and letting it go holds it, and
  nobody else (`LockIsHeld`); a caller past its turn's beginning has the turn (`TurnIsHeld`);
  the gate asks for a lease for the caller whose turn it is and gives one back in a turn of its
  own (`GateHasTurn`). So the reaper cannot meet a placed call (`PlacedHasLease`). Who has found
  the voice idle and is about to unload her model needs the whole card, and if a turn of hers goes
  on it began since (`AskedInTime`).
- **Bolts** (`BoltsProofs`). The anchor is behind by exactly the rows whose anchor was missed
  since (`Anchored`), which gives `BrokenIsEarned`; a payment was on record for the run that wrote
  it (`ForWhatHappened`, part of the invariant, whatever the sources forget later). The rest
  speaks of sums over rows. `SumTo` is a recursive function, so the proof first shows that running
  sums exist and are unique (`SumIsUpto`, `SameSums`) from one fact about numbers got by
  well-foundedness (`AllNumbers`); after that only three lemmas about sums are used: one more row
  adds its own delta, the same rows give the same sum, no rows give none. `StepWrites` says what
  any step does to the file (nothing, a new day, or one row that is due, and why), and each limit
  is kept by such a row: the caps and balances (`CapsKept`), the cents behind the revenue
  (`RevenueKept`: a payment is rounded down, `RoundedDown`, and marks only rise), the homes
  (`HomesKept`: a thing is added only where there was a place, and a tier never takes rooms away).
- **Orders** (`OrdersProofs`). "Never twice" is not inductive: what forbids a second copy is that
  the record knows of the first. So every card still to be answered has an entry that waits for
  it (`WaitsFor`), and every email that went one that closes its kind (`SentBy`), unless the desk
  lost sight of it (`InSight`); the disk lags behind the record of the run only in the fate of
  emails it shows as waiting (`SavedAhead`), which is why a run that dies forgets nothing but what
  it had not saved and the model excuses; an email called sent, listed among the order's messages,
  or whose yes was carried out, went (`RecordHolds`, `ListedWent`). An email that went is offered
  again only if its answer was lost after the reading (`OfferedAgainWasLost`): that is all
  `Misjudged` excuses. An order settled since the run read it, and not by hand, was moved by an
  entry of that run (`SettledSince`), which the status updates need because they go by the reading.

The type invariants are proved and left out of the runs, but in `Quotes`, whose `TypeOK` also
bounds the tries of a reply and is both.

Every safety invariant and action property a passing run checks is stated by a theorem. Only
model-checked: all liveness (`EveryQuestionCloses`, `EveryRunSettles`, `EveryRecordEnds`,
`ProbesSettle`, `EveryReplyIsAnswered`, `EveryRunCompletes`, `WarmAgain`, `TurnsCome`,
`EventuallyPaid`, `PaidOrdersMoveOn`), because liveness under fairness and ENABLED are out of
the prover's reach. No module declares a RECURSIVE operator; the library's induction theorems
cannot be instantiated, so where a proof needs the least of something it takes a minimal element
by well-foundedness (`AllNumbers`).

## 5. What is left out

- Of the modelled parts: the texts of cards, messages and logs; audit events; routing; HTTP;
  of the queue, which capability parks or may be batched (a constant of the request); of
  `Quotes`, posting the card, the pruning of cards after sixty days and of answered approvals
  after a week, more than one page of messages per poll, and the difference between an empty
  and an unreadable reply; of `Digest`, pages of ten items, messages deleted in Discord, the
  edits of older cards' texts, the order of items, and the gap between reading a preview's own
  reactions and acting on them (`FollowPreview` is one step). A file is written by rename
  (`atomic.py`), so half-written files are no state of these models but where the code appends.
- Of `GpuLease`: several gate models, the stop of the gate during a call, a process that dies
  with a re-warming outstanding (the system frees its lock; the voice's model then waits for
  her own next turn), and `crew/gpu.py`, which looks at the lock as the voice does.
- Of `Bolts`: sources that change in the middle of a run (they are read at its beginning), the
  hashes of the chain and a file edited by hand, two worker processes at once
  (caps are read before the append's own lock), the count of refusals, trophies and the view.
- Of `Orders`: the emails' texts and their check (a blocked email), orders held for the owner,
  `seen_paid`, events and figures, a parked status update, the queue of the hands, a queue file of
  Pionir's that cannot be read (`Approvals` has that), a run without approval, and re-quotes: the
  code tells reminders of two quotes of one order apart in `_closed` but finds the first one's
  subject in the order's messages (`_already_sent`), so the second is recorded as sent; this was
  read and not modelled.
- Parts not modelled are listed in `PROJECT.json` with the reason; adapters, routing, video, the
  command line and the doctor stay out: they keep no state of their own or only render others'.

## 6. The plan

1. Done: `OwnerGate` <- `Approvals`, `Jobs`, `Circuit`, `Quotes`, `Digest`, `GpuLease`, `Bolts` and
   `Orders`, with the proofs of all their safety properties.
2. Next in `Orders`: the composition with `OwnerGate` in place of the reduced queue.
3. `Signin` (codes, nonces remembered for a window, sessions at their limit), `Desk` (sweep
   against dismissal and tick) and `Audit` (several writers and a torn line): the two hazards
   that no property covers yet belong to the first two.
4. Of the crew: the delivery desk as a second instance of the pattern of `Orders`; the pool and
   its leaders.
