# Quantum.Ready in TLA+

Quantum.Ready assesses the TLS, DNS and HTTP posture of a domain and how ready it
is for post-quantum cryptography. It runs as a command (`scan`, `study`) and as a
local dashboard (`serve`). This directory holds a formal model of it: the parts that
keep state and run concurrently, the exchanges of a scan with servers and resolvers,
and the engine that draws findings, scores and plans from them. The model is checked
with TLC, and the main invariants have proofs checked with TLAPS.

Paths below are relative to `src/quantumready/`.

## Inventory

| Component | State | Operations | Interacts with |
|---|---|---|---|
| `Job` (server.py:36) | status, event log, listener queues, result | publish, subscribe, unsubscribe | its runner thread, pool threads of the scan, one thread per open stream |
| `_run_job` (server.py:113) | the job's thread | run the scan, publish its outcome, give the slot back | `Job`, `Scanner`, `JobStore` |
| `Handler` (server.py:199-340) | one thread per request | start a scan, stream events, serve a report | `Job`, `JobStore` |
| `JobStore` (server.py:77) | jobs, their order, a slot counter, a lock | create (with eviction), acquire_slot, release_slot | handlers and runner threads |
| Dashboard (web/) | one page | open a stream, close it on the terminal event or on any error | `Handler` |
| `Scanner` (scanner.py) | the result under construction, a progress counter shared by pool threads | discovery, TLS, HTTP, DNS, licences, analysis | discovery.py, tls.py, http.py, dns.py, licences.py, engine/ |
| `scan_endpoints` (scan/tls.py:292) | result slots, a thread pool | one task per host, a callback per finished host | `Scanner`, tls_client.py |
| `run_study` (study.py:208) | a JSONL checkpoint, a pool, the futures | load, submit, collect and append, stop on Ctrl-C | `Scanner`, cli.py |
| `enumerate_groups`, `enumerate_cipher_suites` (scan/tls_client.py) | what was found so far | probe rounds until the server refuses | `scan_endpoint` |
| DNS client (scan/dns.py) | the posture being collected; the process-wide socket timeout of `resolves` | nine questions, each to three resolvers, over UDP and then TCP | `Scanner`, discovery, `dns_findings` |
| HTTP client (scan/http.py) | the result of a fetch, the URLs it asked for | fetch with redirects, port 80 check | `Scanner`, licences, `http_findings` |
| Licences (scan/licences.py) | the component inventory | markup of one page, three manifests | `Scanner`, HTTP client, `licence_findings` |
| Parsing (crypto/) | none | DER, certificates, hostnames | `scan_endpoint` |
| Engine (engine/) | none | rules, inventory, scores, control statuses, Mosca's inequality, plan | `Scanner`, `_extract`, the `--fail-on` gate |
| Readers of a result (study.py:129, cli.py:120) | none | a row of a study, an exit code | engine, `run_study` |
| Reports (report/) | none | HTML, Markdown, JSON, CBOM | `Handler`, cli.py, study.py |

How they meet: `POST /api/scan` takes a slot from the `JobStore`, creates a `Job`
and starts its thread. The thread runs `Scanner.run`, whose progress callback
publishes on the `Job`, from the job's own thread in most stages and from the pool's
threads during the TLS stage. Each open `/api/scan/events` request subscribes a
bounded queue to the `Job` and drains it. `/api/scan/result` reads the `Job`
without a lock. `run_study` calls `Scanner.run` for many subjects from a pool of its
own and appends each outcome to the checkpoint.

What is hard here, and what makes each part correct:

- **Job events.** Appending and listing the listeners is atomic; the puts are not. A
  subscriber must get every event at most once, none may fall between the copied
  backlog and the live feed, a stream must end whatever was dropped, and a dashboard
  must get the report.
- **Slots.** Taken by one thread and returned by another: the count must match the
  scans under way, whichever thread dies.
- **Study checkpoint.** Kills between and inside lines, Ctrl-C, re-runs: what is
  written must be found, what is found must not be scanned again, what is missing
  must be.
- **Scan.** Any stage may fail; every failure is to be recorded and the rest is to
  run. Pool threads share a counter without a lock.
- **DNS, HTTP.** An answer can be lost, cut, refused or come from elsewhere. "Not
  determined" must not be taken for "absent", nor one host's answer for another's;
  redirects must end.
- **Engine.** The same fact is judged in several places (rules, inventory, readiness,
  study, gate), each with its own treatment of what could not be observed: they must
  not contradict each other. More findings must never make a report better. Dates,
  thresholds and roundings meet at boundaries.
- **Parsers.** Empty inputs, errors of the wrong type.

`PROJECT.json` lists each of these hazards at its line.

## Modules

| Module | Models | Role |
|---|---|---|
| `JobFeed` | what the event feed promises | abstract specification |
| `JobEvents` | `Job`, `_run_job`, `_stream`, `_result`, the pool's callback | detailed; implements `JobFeed` |
| `ScanSlots` | what slots are for | abstract specification |
| `ScanServer` | `JobStore`, `do_POST`, the thread of each job from outside | detailed; implements `ScanSlots` |
| `StudyLedger` | what a resumable study promises | abstract specification |
| `StudyRun` | `run_study`, its checkpoint, interrupts and kills | detailed; implements `StudyLedger` |
| `ScanPhases` | the phases of one scan as its job sees them | abstract specification, the assumption of `JobEvents` |
| `ScanPipeline` | `Scanner.run`, `discover`, `filter_live`, `scan_endpoints`, `on_done` | detailed; implements `ScanPhases` |
| `EndpointRules` | `tls_findings`, `pqc_findings`: what is said of one endpoint | operators, used by `EndpointScan` and `CryptoRules` |
| `EndpointScan` | `scan_endpoint`, `probe_version`, `enumerate_groups`, `enumerate_cipher_suites` | detailed; one endpoint, one connection after the other |
| `DnsPosture` | `scan_dns`, `query`, `_query_tcp`, `dns_findings` | detailed; one domain, one exchange after the other |
| `SiteScan` | `fetch`, `scan_http`, `check_plaintext`, `_scan_licences`, `scan_licences`, `http_findings`, `licence_findings` | detailed; one site, one request after the other |
| `CryptoRules` | quantum.py's assessments, `certificate_findings`, `governance_findings`, the interception notice, `build_inventory` | operators, extend `EndpointRules`, used by `Assessment` |
| `Assessment` | `_analyse`, scoring.py, compliance.py, remediation.py, Mosca's inequality, `_extract`, `--fail-on` | detailed; composes the findings of all the others |
| `MC*` | | constants for TLC |
| `ScanServer_proofs`, `StudyRun_proofs`, `JobEvents_proofs`, `ScanPipeline_proofs`, `EndpointScan_proofs`, `DnsPosture_proofs`, `SiteScan_proofs`, `Assessment_proofs` | | theorems |

Definitions marked `mutant` are plausible mistakes in the definition that follows
them. They are reachable from no specification; each documents a change of the code
that the property named beside it in `PROJECT.json` catches.

### JobEvents

`status`, `result`, `events`, `listeners` are the fields of `Job`. `runner` is the
line `_run_job` is at: `scan`, `pool` and `rest` are `Scanner.run` before, during and
after the TLS pool. `pub[p]` is the second half of `publish`: the event thread `p`
is handing out and the listeners of its snapshot it has not reached. `stream[c]` is the
place of `_stream`, `queue[c]` its queue, `fill[c] .. upto[c]` the part of the
backlog `subscribe` has not put yet. An event is its position in `Job.events`,
so that two events are the same only if they are the same dict. `seen`, `lost` and
`ended` are history.

One action is one step another thread can interleave with: the locked half of
`publish` (`Publish`, inside the runner's and the workers' actions), each put (`Offer`),
the locked half of `subscribe` (`Subscribe`), each backlog put (`FillNext`), each
`get` with the write that follows it (`Deliver`, or `DisconnectOnEvent` when the write
fails), the timeout of a `get` (`TimeOut`) and, separately, the look at `job.status`
that follows it (`KeepAlive`). In `_result` the reads of `job.status` and `job.result`
are two steps. `answer` is the status code: 500 of a failed job, 202 of a report that is not
there, 200, 404 of a job that is not in the store, and "dropped" for a renderer that raises and
takes the connection with it. A job can leave the store at any moment, since `create` evicts it
once enough newer ones exist (server.py:91), and only look-ups notice: its threads and
streams hold the `Job`. The eviction is therefore one step with the first look-up that misses
it (`NotFound`), after which `kept` is false and none finds it again.
`DownloadsWorkOnceShown` says what is left of a promise: once the report was shown, no request
is told that the scan failed or is not ready.

The puts of one `publish` may happen in any order in the model. The code follows the
order of the listeners; each put touches another queue, so the orders commute, and the
model has one order more behaviours than the code and none fewer.

### ScanServer

`running`, `order`, `jobs` are the fields of `JobStore`. `post[h]` is a handler
between `acquire_slot` and the end of `do_POST`. `OptionsRaise` is the `int()` of
line 250 and `StartRaises` the thread that cannot be started; both leave the slot taken
(`leaked` counts them). `Create` is the whole of `create`, with the eviction loop.
A job's id is its rank in the order of creation. The code takes a uuid, unique for the
purpose.

### StudyRun

The checkpoint is what its loader can make of it: the domains on well-formed lines,
and what follows the last newline (nothing, a part that does not parse, or an entry that
lacks only its newline). `main` is the line of `run_study`, `task[i]` the future
of position `i`. `Write` is `write` and `flush`: after a torn line the new entry is
glued to it and both are lost. `Interrupt` is Ctrl-C in the main thread: leaving the
`with` waits for all submitted scans (`Stop`) and collects none. `Kill` is a kill
between two steps, `KillInWrite` one that cuts the line.

### ScanPipeline

A host is its rank in `discover`'s sort order: 1 is the apex, 2 is `www`. All host
lists are kept in that order, so sets stand for them. `task[h]` is the pool task of
a host, with `completed[0] += 1` split into its read and its write and the later read
of the counter. Any stage may raise: discovery, the resolvable-name filter, an
endpoint's scan, each HTTP check, DNS, licences, the analysis. `has` and `errors`
are what the report holds, `failed` is the history of everything that raised.

`JobEvents` takes for granted that reports from other threads come only while the
runner is in the pool and that the runner moves through `scan`, `pool`, `rest`. That is
`ScanPhases`, and `ScanPipeline` is checked to implement it (`PhasesSpec`), which is
where the two modules meet.

### EndpointScan

One action is one connection. `at` is the place in `scan_endpoint`, `next` the place in
its loops over versions, `found[k]` the list that enumeration `k` (a version, `classical`
or `pqc`) has built, `note[k]` whether it returned an error. A round of an enumeration
offers what was not found yet; `Round` appends the server's choice, `EnumerationEnds` is
a round without a taker or a limit reached, `RoundLost` an error, `RoundBalked` an alert
or an answer outside the offer. `ProbeVersion` compares the version of the answer with
the one offered, `ProbeFails` takes an error for a no.

The server is external and constant: it takes its highest version not above the one
offered and, of what is offered, the suite or group of least `Rank`. It need not be
honest about that: a fault is a lost connection or a hello it balks at. `lost` and
`balked` are history. `Endpoint` is what the rules read, `EndpointFindings` what they
conclude, and `NoHybridIsReal` relates the conclusion of a deep scan to the server. With
`--fast` no group is probed and no note is left, so `rules.py:342` reports the absence of
a hybrid exchange that nobody asked about. No property catches that: `NoHybridIsReal` speaks
of deep scans, and `InventoryMatchesFindings` of `Assessment`, which has such an endpoint among
its facts, only says that it is the one case where findings and inventory part.

Left out: the chain and its parsing (an exception there is a raised task in
`ScanPipeline`), what the two handshakes negotiate.

### DnsPosture

`asked` is the place in `scan_dns`'s nine questions, `resolver` the place in `query`'s
loop, `truncated` the answer being retried over TCP. The other variables are the fields
of `DNSPosture`. One action is one exchange. A resolver may be silent (`TryNextResolver`,
`LastResolverFails`), answer in full or with part of the records, with the TC bit or
without; a partial answer without it stands for an error code, which `_parse_response`
reads and nobody looks at, and for a record that does not fit, at which the parse stops
without a word. `doubtful` is the history of what was not whole and whether the program
could see it. `CannotEncode` is a label longer than 63 octets. Records are reduced to
what the findings tell apart; names, TTLs and record bytes are left out, and so is
`resolves`.

### SiteScan

`url`, `left`, `seen` and `result` are the locals of `fetch`; one action is one turn of its
loop. `at` says for whom it runs: the page, port 80, the markup of the licence
check, one of three manifests. `page`, `plain`, `html`, `manifests` and `components` are what
the scan keeps. A host is a name, a header set is what the findings tell apart, a body is
the host that sent it. A turn can fail, be silent, end with an answer, be redirected to
any path or URL of either scheme, to one asked for before or to one that does not
parse; `HttpRaises` and `LicencesRaise` are exceptions `fetch` does not catch, which lose
the whole check. `wwwBody` stands for the page of another host whose URL contains this
host's name. A manifest has sections, each a sequence of dependencies of which the first `MaxDeps`
(100, licences.py:190) are read (`Deps`). `bodies` is the history of which body answered what.
The regular expressions that detect components and the table of licences are constants
(`Shows`, `Category`).

### CryptoRules and Assessment

`CryptoRules` says what a quantum adversary leaves of a key, a cipher or a hash, with the
interpolation between the rows of the RSA table, and from it what is found about a
certificate and what the inventory holds; `IsReport` says what a stage's report may be, as
`IsProbed` of `EndpointRules` says what a scanned endpoint may be. `Assessment` runs `_analyse`: `RuleOnEndpoint` once for
each endpoint, then `RuleOnHttp`, `RuleOnDns`, `RuleOnLicences`, `BuildInventory`, `Score`, and
one of the two readers, `Extract` or `Exit`. A report of the HTTP, DNS and licence rules is any of
the sets of findings given by a constant; what those sets can be is the matter of `SiteScan`
and `DnsPosture`. Scores are in tenths and deductions in hundredths. `round` of
a tie is either neighbour (`Tenths`), since a float may lie on either side of it. Years are
counted in 365ths as in `years_to_quantum`. A finding is an id, a severity and a target;
texts, evidence and the tallies by severity are left out, and so are the order among equal
items of the plan and the tool catalogue. The place of an action in the plan is the number of
actions sorted before it. `Extract` has the study's own list of old versions and its own
test of a weak suite (`OldVersions`, `WeakSuite`), copies of what the rules have: that
they agree is part of `ClassificationsAgree`. Its row has the columns that are judgements.
The counts, display strings and DNS and HTTP columns are left out.

## What the runs check

| Run | Bounds | Shows |
|---|---|---|
| `JobEventsSafety` | 2 pool threads, 1 stream, queue of 3, 1 report request, 2 progress events | `AtMostOnce`, `NothingSlipsBy`, `FinalStatusIsLast`, `LiveEventsDelivered`, `LossNeedsOverflow`, `DownloadsWorkOnceShown`, `FeedSpec` (refinement), `StreamsEnd` (liveness) |
| `JobEventsReport` | 1 stream, a queue large enough for every event | violated: `DoneMeansReportShown` |
| `ScanServer` | 3 handlers, 2 slots, 2 jobs kept, 4 requests | `SlotsAccounted`, `NewestRetained`, `SlotsSpec` (refinement), `SlotsComeBack` (liveness) |
| `StudyRunSafety` | 3 subjects, one listed twice, 2 workers, 3 runs, a foreign domain in the file, no torn lines | `SavedIsRecoverable`, `FinishedMeansAll`, `FinishedNotRescanned`, `LedgerSpec` (refinement) |
| `StudyRunTorn` | the same with 1 worker and torn lines | `EachRunLosesOne`, `RunEnds` (liveness) |
| `StudyRunGlued` | 2 subjects, 3 runs, torn lines | violated: `SavedIsRecoverable` |
| `ScanPipeline` | 4 names, limit 3, 2 threads, 2 HTTP checks, all options | `HiddenFailures`, `EveryHostAnswered`, `ChecksAccounted`, `BarNeverAhead`, `PhasesSpec` (refinement), `ScanEnds` (liveness) |
| `EndpointScan` | servers made of 4 sets of versions, 5 of suites, 3 of groups, genuine or not; 6 suites, 4 groups, 2 rounds for groups and 3 for suites, 3 faults | `OrderKept`, `CompleteUnlessCut`, `NothingInvented`, `NoHybridIsReal` |
| `EndpointScanVersions` | the same | violated: `VersionsSeen` |
| `DnsPosture` | 5 domains, 3 resolvers, any exchange lost, cut or refused | `AbsenceNeedsDoubt`, `AbsenceReported` |
| `SiteScan` | 2 hosts, both schemes, 2 redirects, 2 header sets, 3 manifests, 2 dependencies read of a section, any request lost | `HardenedSiteIsClean`, `InventorySource`, `InventoryAccounted`, `SiteEnds` (liveness) |
| `Assessment` | up to 2 of 10 kinds of endpoint; 3 HTTP, 2 DNS, 3 licence reports; 7 dates, 2 demands | `MoreFindingsNeverHelp` (action property), `FailedControlsActedOn`, `GateIsHonest`, `ClassificationsAgree`, `InventoryMatchesFindings`, `MoscaDeadline` |

Why the bounds are enough. The queues have fewer places than the job has events, so
overflow happens in the backlog copy, in the live feed and on the terminal event. Two
publishing threads beside the runner give every overlap of two `publish` calls and a
`subscribe`. Three handlers for two slots, with four requests and two retained jobs,
reach a refusal, an eviction of a running job and a leak of all slots. Three runs of
a study are a kill, a damaged resume and a resume that shows the damage; the subject listed
twice has two tasks in one run, and the second must not count as a rescan. Three hosts
on two threads let one thread be overtaken twice between the read and the write of the
counter, which makes the counter go back. A server of the `EndpointScan` runs prefers
what the code should warn of (drafts before standard groups, RC4 before AEAD), so that a
list cut short is the worst one; its suites cover each class of the rules and each side
of the filter at 0x1300; three faults are one in each of three enumerations, or one in
each handshake and one later. The code limits the rounds to 12 and 40, and one enumeration
offers at most 8 groups, the 33 suites below 0x1300 or the 5 of TLS 1.3, although the table has
59 suites. The module's assumption is just that: the limits reach what one enumeration offers.
The runs take the smallest limits that do, 2 and 3, so that a list is full exactly when
its rounds are used up.
The domains of `DnsPosture` publish all, some or none of the controls, so each control
is seen both present and absent beside an answer that is whole, cut with a flag and cut
without; three resolvers are the code's own number, and the exchanges before and after a
question do not depend on each other but for the five lookups that decide `available`.
`SiteScan` follows two redirects where the code follows five: that is a path joined
to the host, a change of scheme and host, and the loop's last turn. Its manifests share
names with the page and with each other; one has a section longer than what is read of it,
and one is longer than the 8000 characters that are kept.
The kinds of endpoint in `Assessment` are one for each way its properties could part: a
classical and a post-quantum key, a draft group, a group of its own, no probes, failed
probes behind an interceptor, two old servers, a weak curve, a host that does not answer. Two of them
give every pair of conflicting endpoints and the damping of a repeated issue. The
dates are those on each side of the two thresholds in a leap year.
`MaxProgress`, `MaxAccepted`, `MaxRuns`, `MaxFaults` and `MaxEndpoints` are the only bounds
on counters; none of them has a counterpart in the code.

Deadlock is checked in every passing run. Each specification has an explicit step for
the states where there is rightly nothing left to do (`Over`, `Spent`, `Rest`,
`Answered`, or a last disjunct of `Next`).

### Fairness

Weak fairness of each thread's steps, and of nothing a user does.

- The job's thread and the pool's threads: every socket they use has a timeout, so each
  stage returns (`ScanOptions.timeout`, the 3-second `resolves`, the 4-second DNS query).
- `Hand(p)`: `put_nowait` never blocks.
- `StreamStep(c)`: `get(timeout=15)` returns with an event or without one. The write after it
  has no timeout: the fairness assumes a client that reads or closes. One that does neither
  can hold its stream, and only that one, for as long as the socket lasts.
- `PostStep(h)`: nothing between `acquire_slot` and the answer waits.
- The study's main thread and its pool, for the same reason as the scan's.
- `SiteScan`'s `Next`: one thread, each of whose requests has a timeout.

`DnsPosture`, `EndpointScan` and `Assessment` are straight-line programs of one thread; that
they end is the matter of `ScanPipeline`.

Subscribing, sending a request, starting, interrupting or killing a study are not fair.

### Disagreements between code and text

Three runs check a sentence that the repository says of itself and find it violated:
a dashboard whose stream ends without its report (server.py:289, and by another order
server.py:64), an entry glued to a torn line (study.py:236), and ECDHE suites that are
never offered, which hides TLS 1.2 on servers that have no other (scan/tls_client.py:369).
`PROJECT.json` quotes the sentences.

Other surprises met while modelling are in the passing properties, which say
exactly how far the code goes:

- `SlotsAccounted`, `SlotsComeBack`: a handler that dies between `acquire_slot` and
  `Thread.start()` (server.py:250) loses its slot for good; `leaked` counts them.
- `HiddenFailures`: scanner.py:4 says that failures in one stage are recorded and the
  scan continues. A raise of the filter or of the analysis ends it, and a pool task that
  raises (scan/tls.py:315) shows only as a host missing from the report.
- `AbsenceNeedsDoubt`: an SPF or DMARC query that fails is undetermined; a CAA, DS or
  DNSKEY query that fails is reported as absence (scan/dns.py:386). No query looks at
  the error code of its answer.
- `InventoryAccounted`: a manifest is kept as its first 8000 characters, which no longer
  parse, so a longer one is reported as exposed and adds no component.
- `DownloadsWorkOnceShown`: a link that was shown answers 404 once 40 newer scans were
  started (server.py:91).
- `EachRunLosesOne`: a torn line takes one entry with it, so n runs of a study can lose n - 1.
- `FailedControlsActedOn`: the plan is sorted by severity and by effort within it
  (remediation.py:348). The module's text (remediation.py:3) says "benefit per unit of effort
  rather than by severity alone", which the code does not do. `certificate.weak-curve` and `licence.commercial-restriction`
  can fail a control and have no template in remediation.py.
- `ClassificationsAgree`: where no suite could be enumerated, the study takes forward
  secrecy for granted and the readiness score wants TLS 1.3 alone; a server with
  standalone ML-KEM is ready for both and gets no finding (rules.py:319).
- `InventoryMatchesFindings`: with `--fast` a server can be reported without hybrid key
  exchange and pass the control on cryptographic discovery.
- `MoscaDeadline`: between the 2nd and the 19th of January of the deadline year the
  verdict is EXPOSED and the rounded formula beside it reads X + Y = Z.

Four more are facts of the definitions that no property states: `fetch` follows a redirect to the
other scheme, though its docstring (http.py:141) says "same-scheme redirects"; a study turns certificate
transparency off, which turns guessing on (scan/discovery.py:129), so it can scan a
guessed name where the report says apex and www only; `certificate.no-transparency` is
said of untrusted chains only, a trusted one without SCTs being an interception; and a scan that
reached nothing scores 100 for risk, passes every control and leaves the gate open,
which is why `GateIsHonest` speaks of live endpoints.

## What is proved

The theorems hold for every value of the constants under the named `ASSUME`s of
the modules (finite set of handlers, positive limits, a cohort that is a sequence of
domains, tail markers that are not domains, and so on).

**`ScanServer_proofs`.** `TypeOK`, `SlotsAccounted`, `AtMostMaxScans`, `NewestRetained`,
`OneHandlerPerJob` and the refinement of `ScanSlots`. None of them is inductive alone.
`Ids` says which job ids are in use: a handler in `created` owns an id no other
handler has and whose thread does not exist, ids above `made` have no thread, at most as
many jobs are made as were accepted. With it, `SlotsAccounted` is inductive, because
a step moves a slot from `Holding` to `Live` without counting a job twice; the limit
follows from the count and `running <= MaxConcurrent`. Retention is arithmetic on the
sequence `order` once it is known to be the run of ids ending in `made`.

**`StudyRun_proofs`.** `TypeOK`, `AtMostWorkersScan` and `EachRunLosesOne` hold whatever a
kill does. `Bookkeeping` ties the tasks to the checkpoint as it was loaded, the subject in
hand to its future and what was told to what was saved. `EachRunLosesOne` (`BoundedLoss`) is not
inductive: `Losses` also counts the entry that is still to be lost while the file does not
end with a newline, and a run under way has room for the one its kill will cost. `SavedIsRecoverable`, `FinishedMeansAll`,
`FinishedNotRescanned` and the refinement of `StudyLedger`
need `~MayTear`: `OnDisk` says that the file then always ends with a newline, and that
everything saved, loaded, or taken and past its write is on a line of it. `FinishedNotRescanned` (`NoRescan`) needs
`TakenOrLoaded` besides: what was saved was taken in this run or was in the checkpoint when
it started. The run `StudyRunGlued` shows that the hypothesis cannot be dropped. `RunBounded` bounds a run by six
steps for each position of the cohort and three more, interrupts and kills included; it
needs `Quiet`, that the pool is idle once a run is over, because the `with` waits for what was
submitted.

**`JobEvents_proofs`.** Every safety property of `JobEvents` and the refinement of
`JobFeed`, for any number of threads, streams, requests and events and any queue
length. `Effects` first sorts the steps by what they do to the feed: publish, put,
move one stream, or leave the feed alone. The invariant is then built in layers, each
inductive over the one before:

- `Base`: the types, and what the place of `_run_job` says of the log (`RunnerKnows`).
  `FinalStatusIsLast` is not inductive without it, because only the runner's place
  says that nothing is left to publish.
- `Handing`: no two threads hand out the same event, and outside the pool only the
  runner hands out any. This is where the join of the pool is used.
- `Journey(c)`: the backlog still to be put lies below everything a thread is handing
  to `c` and apart from what was sent. `AtMostOnce` follows from `Handing` and
  `Journey`.
- `NothingSlipsBy` is inductive over these. With `Unended` (a stream in its loop was
  sent no terminal status) they give the refinement.
- `Excused`: a queue that is full when an event outside it is offered holds fewer
  events than the log (`QueueFits`, by counting), so `LossNeedsOverflow`.
- `Settled`: once the final event is published, an open stream has every earlier live
  event written, dropped or queued before the final one. `LiveEventsDelivered` needs
  it at the step that takes the final event, and it needs `NothingSlipsBy` at the step
  that publishes it.
- `ResultKnows`: a published report means that the result is set and that the status
  stays "done". It gives `DownloadsWorkOnceShown` and `ServedStaysServed`.

(`TypeOK`, `ServedStaysServed`, `AtMostMaxScans`, `OneHandlerPerJob`, `AtMostWorkersScan`,
`ScanIsBounded` and `GradesMeanSomething` are proved and in no configuration.)

**`ScanPipeline_proofs`.** Every safety property of `ScanPipeline` and the refinement
of `ScanPhases`. `FirstIsBounded` shows by an injection of ranks that the `[:limit]`
slices keep at most that many hosts. `Stages` ties the stage to the tasks, `Answers` the
tasks to the result slots, and `Counts` says that no thread holds a count greater than
the number of hosts counted. `BarNeverAhead` alone is not inductive: the value
a thread read before it was overtaken is what its later write depends on. `Accounts`
says which checks are accounted for at each stage, `Hidden` which failures no stage
records; with `Answers`, the hosts whose task raised are those missing from the report
(`HiddenFailures`). `ScanSteps` bounds the steps of a whole scan by 7 + 6 * Names + MaxHttp.

**`EndpointScan_proofs`.** Every property of the `EndpointScan` run, for any table, any
servers and any number of faults, provided the round limits reach what one enumeration
offers (`RoundsAssumption`, which the code's 12 and 40 satisfy) and no two codes share a rank. `OrderKept` needs that the server's
favourite exists (`LeastNat`, from the well-foundedness of the naturals).
`CompleteUnlessCut` needs `Counted`: nothing is found twice, so an enumeration that has
used up as many rounds as there are candidates has found them all, and the limits allow that many. It also needs
`Places`, which says that the loop over versions skips no supported version
(`FirstFromSkips`). `NoHybridIsReal` then follows from the rules: only
an empty list without a note yields that finding, and such a list is complete.
`EndpointBounded` bounds the connections by the round limits, whatever the server does;
`EndpointFits` shows that the result is at any moment one `Assessment` is written for.

**`DnsPosture_proofs`.** Both properties, for any zones and any number of resolvers. The
invariant `Posture` says of each question that is over (`Settled`) that its control holds the
zone's records or a doubt about it is on record, and when a control is undetermined. It
speaks of postures that are available: when none of the five lookups is answered the
remaining questions are never asked. `QuestionsBounded` bounds the exchanges by
Resolvers + 1 for each question.

**`SiteScan_proofs`.** The safety properties, for any hosts, locations, redirect limit
and any manifests whose names are finite sets (`ShowsAssumption`, `ManifestsAssumption`).
`Kept` says that the headers the report goes by were sent by an answer to the page;
`Source` ties the page and the markup to the hosts they came from and to the requests that
were answered. `InventoryAccounted`
rests on `Stocked`: the components are pairwise different in name and are those of the
sources read so far, so adding a name that is there changes nothing. Counting them
needs the finiteness. `SiteChecksBounded` bounds the steps by 2 * MaxRedirects + 21, whatever
`Location`s the servers send: the page and the markup follow redirects up to the limit, port 80
none and a manifest one.

**`Assessment_proofs`.** `MoreFindingsNeverHelp`, `MoscaDeadline`, `FailedControlsActedOn`, `GateIsHonest`,
`ClassificationsAgree` and `InventoryMatchesFindings`, for any facts about any number of
endpoints, any reports that are not about endpoints, any dates and any demands
(`FactsAssumption`, `BoundAssumption`, `ReportsAssumption`, `ClocksAssumption`,
`DemandsAssumption`). The invariant is one sentence for each stage: `Placed` (how far the rules have
come), `Ruled` (the findings that name an endpoint are those of its facts), `Inventoried`, `Computed`
(scores and controls are those of the findings), `Gated` and `Extracted` (what a reader
saw). What remains is about the operators: the interpolated strength of an RSA key passes
112 bits at 2048 and nowhere else (`WeakRsa`); whatever a control fails on has a
template or is named as an exception, and a severe action has fewer before it than a milder one
(`SevereFirst`, by counting); the overrun in 365ths of
a year, which decides the verdict, and its rounded tenths differ in sign only on the days the
property names (`Overrun`).

`MoreFindingsNeverHelp` (`NeverHelped`) is about sums: a deduction is a sum over the issues found,
each damped by how often it was seen. Induction over sets cannot be instantiated by the
provers, so the few facts needed about a sum (it is a natural number, one more member adds its
term, a larger term or set gives a larger sum) are proved by a minimal counterexample: the
sizes of the sets for which a fact fails are a set of naturals, and the least of them would
have a smaller one. The sums make sense because the findings are finitely many at every
stage (`Countable`), which is why `IsReport` asks for a finite report. The same facts
give `GradesAreMeant`: both scores are marks out of 100, the letter is no kinder than the worst
finding allows, and 100 means that nothing worse than info was found. `AlwaysScored` shows
that `Score` is never stuck, whatever the rules said.

**The budgets.** `ScanSteps`, `RunBounded`, `EndpointBounded`, `QuestionsBounded` and
`SiteChecksBounded` each name a number that starts at a bound given by the constants, is never
negative and is lowered by every step that changes anything (of a study: but the start of
another run). They are what can be proved of termination: a component cannot go on for ever,
it can only stop early, and `ScanEnds`, `RunEnds` and `SiteEnds`, checked by TLC, say that under
fairness it does not. The streams of `JobEvents` have no such bound: a stream that times out
looks at the status and waits again, as often as the scan lets it.

**What a module assumes of another.** `JobEvents` assumes `ScanPhases`, which `ScanPipeline` is proved
to implement. `Assessment` assumes that an endpoint is `IsProbed` (a part of `FactsAssumption`)
and that a report satisfies `IsReport` (`ReportsAssumption`). `EndpointFits` proves the first of
`EndpointScan`, `SiteReportsFit` the second of the HTTP and licence rules of `SiteScan` and
`DnsReportFits` that of the DNS rules, whatever severity each has. The rest of
`FactsAssumption` is about certificates and keys, which no module scans.

**Only model-checked:** liveness (`StreamsEnd`, `SlotsComeBack`, `RunEnds`,
`ScanEnds`, `SiteEnds`), because it rests on fairness and ENABLED, which the prover does not
handle. Every safety property, action property and refinement that a passing run checks
is also proved.

## Not modelled

- The wire: sockets, the bytes of TLS hellos, DNS messages and HTTP, `crypto/der.py` and
  `crypto/x509.py`. An exchange is the set of outcomes its caller can tell apart.
  The errors of the wrong type that parsing can raise are hazards in `PROJECT.json`;
  in the models they are the raises a stage may end with.
- The reports of `report/`, the page in `web/`, the pages under `docs/`, the printing and
  argument parsing of cli.py, `normalise_domain`: text made of a finished result.
- `summarise` and `disclosure_annex` of study.py, the tallies by severity, the tool
  catalogue and the sector table: they count, sort and word what `Assessment` computes.
- `resolves` (scan/dns.py:394), which sets and restores the process-wide socket timeout
  from many threads. The models give every call of it either answer or an exception; a
  timeout left behind by the race is listed as a hazard.
- Certificate transparency and the guessing of names: any set of names stands for what they
  return.

## Plan

Done: `JobEvents` with `JobFeed`; `ScanServer` with `ScanSlots`; `StudyRun` with `StudyLedger`;
`ScanPipeline` with `ScanPhases`; `EndpointScan` with `EndpointRules`; `DnsPosture`; `SiteScan`;
`Assessment` with `CryptoRules`; the proofs above.

Next, in this order:

1. `StudySummary`: the counts and percentages of a cohort, and what a failed scan that is
   checkpointed like a good one (study.py:227) does to them.
2. `DerReader`: lengths, times and their error types; hostname matching.
