# PromptGate: a verification development

PromptGate (`src/proxy-server`) is a local proxy between Claude Code and the
Anthropic API.  It asks a language model on the same machine whether what is about to be
sent contains secrets, refuses the turn if it does, and removes what was refused
from the history of later requests.  Around the proxy are an audit store, a web
dashboard, a VS Code extension, and the scripts that install it as a Windows
service which redirects `api.anthropic.com` to itself.

This directory models that system in TLA+.  TLC checks every module on small
instances.  TLAPS proves, for every value of the constants, that what was not
vetted does not leave the machine, that the proxy implements its promise, that
the loops of the sanitizer return what they should, that conversations of every length
go on and keep their secrets, and properties of the verdict cache, the audit trail, the
hosts file, the dependents of the service, the CA, the dialer, the readers of
the audit table and the commands of the extension.

    tlc -workers 2 -config MCGatewayStrict.cfg MCGateway    one of the runs below
    tlapm Gateway_proofs.tla                                one of the proofs below

`PROJECT.json` lists components, runs, the lines of code behind every
definition, the hazards and the findings.

## 1. The system

| component (`src/proxy-server/…`) | state | operations |
|---|---|---|
| message model, segmentation (`internal/anthropic/messages.go`, `dlp/segmenter.go`, `normalize.go`) | none | read, rewrite a message array; the texts to inspect |
| detector (`dlp/detector.go`, `rules.go`) | none | Evaluate, EvaluateHistoryOnly, Classify |
| verdict cache (`dlp/cache.go`) | LRU list and map, under a mutex | Get, Put |
| handler (`proxy/handler.go`, `bypass.go`) | one goroutine per request | process, bypassForward, forwardRaw, passthrough, writeBlock, record… |
| sanitizer (`sanitizer/sanitizer.go`) | none | Sanitize, validate |
| forwarder, client responses (`anthropic/forwarder.go`, `block.go`, `sse.go`) | none | Forward, ForwardRaw, block notices |
| classifier client (`inference/`) | none; asks the sidecar over HTTP | Classify, the parsers of the profiles, Health, Warmup |
| configuration (`config/config.go`) | none | Default, Load, the override of the command line |
| audit store (`storage/`) and admin API (`admin/`) | SQLite table | Record, Query, Stats, retention at Open |
| process (`cmd/proxy/main.go`, `service_windows.go`) | listeners | start, stop, -init-ca |
| hosts redirect (`hostsfile/`) | the hosts file of the OS | Add, Remove, Present |
| supervisor (`cmd/proxy/supervisor*.go`, `start.ps1`) | scheduled tasks and their processes | Start, Stop |
| interception CA (`mitm/ca.go`) | two files, a cache of leaves | EnsureCA, LeafFor |
| installer, uninstaller (`install.ps1`, `uninstall.ps1`) | service, trust store, tasks | once each |
| upstream dialer (`upstreamdial/`) | cache of addresses, under a mutex | DialContext |
| dashboard (`web/`) | pages and feeds in the browser | poll, turn pages, announce |
| extension (`src/vscode-extension`) | log, status, last warned id, a process handle | poll, start, stop |

**How they interact.**  The handler calls detector, sanitizer and forwarder in
turn and shares the cache and the store with all other requests.  The client
keeps the conversation and sends all of it, refusals and markers included, with
every turn; the proxy keeps nothing, so requests affect each other through the
client's history and through the cache.  `start` binds the listeners, writes the
redirect and runs the tasks; `stop` undoes it in the opposite order.  The dialer
exists because of the redirect: the proxy must not resolve the upstream through
it.  The installer, the service and the uninstaller share the CA files, the
trust store and the hosts file.  Dashboard and extension only read the store.

**What is hard.**  Requests that interleave on the cache; a classifier that is
down, late or changes its mind; a refusal that must stay one; rewriting a
history so that the API still accepts it, over many turns; crashes between
forwarding and recording; file rewrites in place that others edit meanwhile;
processes ended by a deadline; two processes that may both generate a CA; DNS answers
that are stored out of order; a model that writes what its contract does not
foresee; readers that poll a table in which rows appear out of order, with time
bounds in forms the table does not use; a script that is stopped while the one
before it is still exiting.  `PROJECT.json` "hazards" has each at its line.

**What makes each correct.**  Request path: nothing unvetted leaves, refusals
are kept, the audit trail agrees, every request is answered.  Cache: list and
map agree, the least recently used goes, a verdict is the model's on that text.  Sanitizer: exactly what was sensitive
goes, what is left is well formed.  Conversations: secrets leave only with the
turn that was marked, harmless turns go on.  Process: the redirect has a
listener, the user's lines stay, a stop ends.  CA: what is served is trusted and
signs with its own key, and CAs do not pile up in the trust store.  Dialer: never dials itself, follows the upstream.
Readers: nothing is announced twice or skipped, totals add up.  Commands: what
the extension starts it can stop.

## 2. The modules

    Conversation ── DlpGate                       what the proxy promises
         │   └───── Gateway ── LruCache           the request path
         │             └────── (implements DlpGate)
         ├── Sanitizer                            the loops behind Conversation!Sanitized
         └── Session                              whole conversations
    LruCache ── LruOrder ── Classifier ── Verdict the way of a text to its verdict
    HostsFile ── Service                          the life of the process
    Install                                       the CA
    DnsResponse ── UpstreamDial
    AuditStore ── AuditTable ── Feed, History, Extension ── Monitor ── Launcher

    Conversation_proofs ── Gateway_proofs         request path, audit trail, promise
                   └────── Session_proofs         the sanitizer and Session
    Classifier_proofs, Service_proofs, Monitor_proofs, Install_proofs, Dial_proofs

An `MC…` module gives the constants of a module values; a `.cfg` selects them.
In every module a definition marked "Broken variant" is a plausible bug of the
definition below it.  No specification uses it: it is there to
show that a property notices (`PROJECT.json` "mutants").

**Conversation** is pure.  A message array is a function from array indices to
messages, and a content a function from block indices to blocks, so that
removing is restricting and the order stays.  A text is a value; `Norm`,
`Strip`, `Marked`, `Notices`, `Blanks` say what the code's string functions make
of it, so that raw and normalised, marked and stripped texts are told apart.
`Sanitized` and `CanSanitize` state what `sanitizer.Sanitize` returns.

**Gateway** has one record of variables per request (`pc`, `kind`, `conv`,
`todo`, `ng`, `why`, `out`, `reply`) and the shared cache, `sent`, `audit`.
Arrival: `Reject`, `RefuseUnparseable`, `ForwardUnparseable`, `Passthrough`,
`BeginBypass`, `BeginInspection` are the branches of `process` (84-137).
Classification: `CacheHit`, `CacheMiss`, `MatchRule`, `Judge`, `Unavailable` are
the ways through `Detector.Classify`; cache look-up and classifier answer are
separate steps, since the goroutine waits in between.  `Blocks` is what Evaluate
makes of a verdict and EvaluateHistoryOnly does not.  Outcome: `ApproveAsIs`,
`ApproveSanitized`, `RefuseHistory`; then `RecordBlock`, `WriteBlock`, `Send`,
`UpstreamError`, `Relay`, `RecordForward` in the order of the code.  `Crash` ends
the goroutines and empties the cache.  `vetted` is a history variable: the
texts the classifier has judged harmless.

**DlpGate** is the promise without the machinery: a request is refused, or one
body of it is released, made of parts of what the client sent, all of whose
inspected texts are vetted; the live turn may be exempt by its author; what is
not a prompt is not inspected.  `Gateway!KeepsGatePromise` is the refinement:
`GateStatus` maps a request's state to its status there.

**Session** takes one exchange as one action (its steps are Gateway's) and lets
a client send up to `MaxTurns` messages of history with blocked, marked,
unavailable, failed and tool turns, and `/clear`.

**Sanitizer** takes the three loops of `Sanitize` one iteration at a time.

**HostsFile** is pure: what `render`, `stripBlock` and `Present` make of lines.
A line is one of a few kinds, and what is kept of a file is a set of positions (`StripBlock`,
`TrimBlank`), read in order by `LinesAt`.  `Stripped` is what `uninstall.ps1` makes
of them: the same without the block, `Encoded` as ASCII, so that a line of the user
with other characters (`NonAscii`) becomes a `Garbled` one.
**Service** has the phases of `start` and `stop` as `phase`, reads and writes of the
hosts file as separate steps with the user's edits in between, the dependents
with their tasks and processes, and crashes.  Every write may fail, or be cut
anywhere.  `Overlook` is a query for a listener that fails and makes `stopOne` take
the port for free (`supervisor_windows.go:81-88`).  The uninstaller is a process of
its own: it marks the service for deletion, and later reads the hosts file (`ReadForStrip`), finds
nothing to strip (`NothingToStrip`), writes it (`StripRedirect`) or fails and goes on
(`FailStrip`), as its `ErrorActionPreference` tells it to.

**LruCache** has `Get` and `Put` on the list and the map at the granularity of
the mutex, **LruOrder** adds a clock and the times keys were used and stored,
which say what eviction and a hit promise.  **Verdict** is pure: a reply of the
model is a sequence of tokens (braces, field names, values), and
`ParseReasonDecision`, `ParseNGBoolean` and `ParseJPConfidentialExtraction` read
it as `profile.go` does, `ExtractJSON` and the typing of `json.Unmarshal`
included (`null` unmarshals into an empty value).  Beside the parsers, and
independently of them, `Replies` lists what a model may write, each with what
`profile.go`'s comments, `spec-proxy.md` and the tests say is to be made of it, and
`Readings` pairs that with what is made of it.  **Classifier** puts both together: concurrent calls look up, ask, are
answered, fail and store, with the profile that defaults, file and command line
select (`Load`, `Mode`, `BuildClassifier`).

**Install** has the two CA files, the certificates of the proxy in the trust store
(the removal looks at their current and their former subject, and at nothing else), the service as the service
manager sees it and the two scripts.  Two processes (`-init-ca` and the
service) may be in `EnsureCA` at the same time: each reads the certificate and
then the key (`LoadCert`, `LoadKey`), or makes a pair and writes one file and
then the other, each in two steps (`Generate`, `WriteCert`, `WriteKey`), and may fail
or be killed at any of them.  The installer ignores the exit code of `-init-ca`
(`InitEnds`); the uninstaller removes the certificates one by one, ignores a removal that fails, and deletes the
data in whole or in part.

**DnsResponse** parses responses byte by byte; `WellFormed` says what a response is, and
`Encode` puts it on the wire.  **UpstreamDial** has concurrent dials, the cache they share without
holding its lock during a query, a clock, and an upstream that moves.

**AuditStore** is the table, its page and its statistics, pure; a bound is a
time with the offset it is written with and whether it has the form of the
stored times, since the code compares it as text.  **AuditTable**
writes the table (an event is stamped first and inserted later); **Feed**, **History**
and **Extension** (overlapping polls, failures, error answers) read it.
A page of History is asked for, counted and listed in separate steps; while it is
asked for, the page before and its buttons stay in place (`keepPreviousData`), with the
offset of the new one, so the reader may turn on before a page appears.  He enters
at the first page, with any limit of `PageLimits`.  Not modelled: an offset or a negative limit typed
into the URL, and the late answer to a page that was turned away from, which only
fills SWR's cache.
**Launcher** is the other half of the extension: `startProxy` and `stopProxy` with
their handle, the script `start.ps1` phase by phase with the processes it
starts, `taskkill`, the exit event that comes late, unloading and loading.
**Monitor** puts one of them, chosen from `Clients` in the initial state, beside the table:
they see nothing of each other, so no behaviour is lost and their state
spaces do not multiply.

## 3. The runs

| run | distinct states | what it asks |
|---|---|---|
| `classifier` | 187,048 | list and map of the cache agree, the least recently used goes, a hit is the newest verdict, and a reply is read as documented, but for three claims |
| `gateway_strict` | 196,673 | the request path with the default settings, safety and refinement |
| `gateway_open` | 63,457 | fail open, no cache, failing inserts: every request ends |
| `sanitizer` | 58,702 | the loops return `Sanitized`, lose exactly what was sensitive, fail only at the start |
| `session` | 24,777 | whole conversations |
| `service` | 695,812 | redirect, hosts file, dependents, uninstaller |
| `install` | 1,192,641 | what is served is trusted and has its own key; CAs do not pile up |
| `upstream_dial` | 814,510 | no loop, no stale address, responses read as meant |
| `monitor` | 5,854,830 | feeds, pages, warnings, time series, starting and stopping from the extension |

Three further runs each expect a violation; see section 6.

**Bounds, and why they are enough.**
- `gateway_*`: two requests; a third adds no new kind of interference, since
  requests meet only in the cache, and one cannot tell how many others wrote it.
  The inputs have the shapes the sanitizer distinguishes: string and block
  contents, a tool call with its result, a notice behind an emptied turn, a
  marker alone and with text, a message that cannot be decoded, a secret hidden by an
  invisible character.  The cache holds two verdicts of more texts, so that
  eviction happens.  The classifier may judge a text differently each time.
- `classifier`: two calls, four texts and a capacity of two, six operations on
  the cache: fill, hit, evict, store again, evict again, while a second call
  waits.  Replies: every object of a profile's schema, bare, wrapped, behind a
  brace, cut after every token, bare labels and `null`, and a list of deviating ones.  It ends after six operations, hence
  `CHECK_DEADLOCK FALSE`; so does `sanitizer`, which ends when Sanitize returns.
- `sanitizer`: every array of an opener, up to two messages of a repertoire of
  nine and a closer, with every non-empty set of sensitive history segments.
- `session`: eight messages of history, that is four turns: one is blocked, one
  bypassed, one forwarded and one looks back on them.  A tool result carries the marker, too.
- `service`: one intercepted host, two user lines, of which one is not ASCII, and edits
  until the file has four lines; the block and what a
  start adds come on top: a block, its separator and an edit before or behind it.  After an uninstall the system
  may stop, hence `CHECK_DEADLOCK FALSE`.
- `install`: three key pairs and three faults (a lost file, a failed write, a
  killed process): a CA, its replacement and one more.  Failures that touch no
  file (a load, a generation, an exit code, a removal) are not counted and not bounded.
- `upstream_dial`: two dials, two name spellings, one move of the upstream.
  `MinTTL`, `MaxTTL` and the dial timeout are 30, 120 and 30 instead of 30, 300
  and the configured seconds, in steps of 30: only their order matters.  A response
  loses 0, 3 or 20 of its last bytes, so that it ends inside its last record or before it.
- `monitor`: three events, three instants (the second two days and the third
  two months on, past the retention and into other bucket widths), pages of one
  row for the toasts and two for the packets.  Time counts in
  quarters of an hour, of which the stored form shows every second one, so that
  a bound may fall between two stored times; offsets are nine hours either way
  or none.  A series is cut after ten buckets instead of 2000, so that a day series
  is and the others are not.  Three runs of the script: one that exits late, one that is started
  meanwhile, one more.  The page limits
  are scaled down from 20 (toasts) and 30 (packets, extension); what counts is that rows outnumber them.
  The server grants two rows a page (500 in the code), and the limit in the URL of the history is one or
  two, so there are up to three pages; an event may be older than rows inserted before it, and go
  behind a page or before it.  The history lists every decision alike, so all events are blocks while it
  is open (`HistoryDecisions`).  The time window of the page is left out: it only cuts rows at the old
  end, as the retention does.

**Fairness.**  `Gateway!FairSpec` is weakly fair to the steps of a request that
has begun: the call of the classifier and that of the upstream have timeouts
(`config.go:165, 178`), and nothing else makes a handler wait.  It is not fair
to arrivals or crashes.  `Service!FairSpec` is weakly fair to the steps of
`stop`: the supervisor polls until `supervise.stop_timeout_ms`, the shutdown of
the listeners has `shutdownTimeout`, and the commands it runs return.  `Overlook`
and the failures are not among those steps: nothing says that they happen.  Nothing
else is assumed fair.

**What the properties allow.**  Where the code cannot do better the property
says so, instead of the model leaving the case out.  Where a document promises
more than the code keeps, the module states the promise as a definition of its own, marked
"not kept": no run checks it, and TLC refutes each one that is put
among the properties of `MCService.cfg`, `MCInstall.cfg` or `MCClassifier.cfg` (section 6).
- `RedirectHasListener`: a redirect left by a crash or a failed write (`interrupted`).
- `UserLinesKept`: lines lost to an edit between a read and its write, to a write
  cut short or behind the block it left open (`Unreliable`); and the uninstaller's
  write changes what is not ASCII.  `UninstallKeepsLines` does not allow the last.
- `DependentsStopped`: a dependent that was still starting or could not be killed
  (`escaped`), or that a failed query had hidden (`unseen`).  `NothingOrphaned`
  does not allow the last.
- `UninstallRestoresNames`: an uninstall that overtook a starting service
  (`overtaken`), or whose read or write of the hosts file had no effect (`unstripped`).
  `UninstallCompletes` does not allow the last.
- `ServedCertTrusted`: a certificate the service made itself, since it found a file
  missing after `-init-ca` had begun (`own`): what comes of a lost file, and of a failure of
  `-init-ca` that the installer ignores.  That a certificate of any other origin is served
  untrusted, whatever fails, is not allowed.  `InstallLeavesCA` asks for a CA on disk besides, and is not kept.
- `ServedKeyMatches`: a pair whose writing was cut, or met another process in
  `EnsureCA` (`disturbed`).  `ServedMintsLeaves` does not allow it.
- `TrustedOnce`: a lost file, a cut write, a failed removal (`damaged`).  What an
  install and an uninstall promise of the trust store is in `InstallLeavesCA` and
  `NoTrustLeft`, and neither is kept.
- `VerdictsAsMeant`: the replies of the three `Claims` that `OnlyDecisionDecides`,
  `AmbiguousIsError` and `UnsaidIsError` state, and that the parsers do not keep.
- `PagesSkipNothing`: a reader who turns on before the page has appeared
  (`hurried`), and a limit beyond what the server grants.  Both do skip rows: the
  first because the buttons stay (`swr.ts:73`), the second because the URL's limit
  moves the offset (`HistoryClient.tsx:14`) while the server clamps it (`query.go:95-97`).
  No document promises anything for either.
- `WarnedOnce`: a poll overtaken by a later one (`overtaken`).  A reload of the window, after
  which a block may be warned of again, is not modelled.
- `NothingAbandoned`: a script `taskkill` failed to end (`escaped`) or whose handle
  the late exit of the one before it cleared (`displaced`, `extension.ts:216-219`),
  which nothing can stop any more.  A tree is killed in one step: a process
  started while `taskkill` walks it is not covered.
- `SeriesAddsUp`: a `from` with a negative and a `to` with a positive offset, for
  which the totals count events that the series does not have, since the bounds are
  compared as text there (`query.go:234`); and of a series that was cut at
  `maxBuckets` (`query.go:388`) it only asks that it counts no event too many.

## 4. The proofs

Every theorem is for all values of the constants, under the assumptions named
in the modules, which TLC evaluates in every run.  `CapacityAssumption`,
`InstallAssumption`, `DialAssumption`, `TableAssumption` and their like say that
the constants have their types, and little more; these say something of the
world:

- `TextsAssumption`: a text without the marker is left as it is;
- `InputsAssumption`: a message is what the decoder makes of one, and no more;
- `SessionAssumption`: a client writes non-empty user messages without calls, the
  model answers without results, with one call per id, and does not call a tool
  in a message that looks like a block notice;
- `HostsAssumption`: the lines of a block, and a line with lost characters, are told apart from the user's;
- `HistoryAssumption`: the limit of a page is positive;
- `AddressAssumption`: the upstream has addresses other than the proxy's own;
- `ResponsesAssumption`: what a DNS server sends fits the wire format: numbers in
  their width, and lengths that two bytes can say.

| theorem | module | says |
|---|---|---|
| `TypeCorrect`, `EgressInvariant` | `Gateway_proofs` | the types, and `Spec => []EgressInv` |
| `UnvettedNeverLeaves` | | with fail_closed, every inspected text of a body that left was judged harmless, but for the live turn of a bypass |
| `RuleSecretsNeverLeave` | | a text a rule matches leaves only in a live turn its author marked |
| `RefusalsAreKept` | | what was refused or audited as blocked has not been sent |
| `AuditTrailAgrees` | | the audit trail says what happened, and no more |
| `CacheStaysSound` | | the cache holds verdicts on contents, never an outage |
| `OutagesCutNothing` | | if there is a cache, an inspection removes history only for a verdict (an action property) |
| `LiveTurnIsForwarded` | | if arrays end with the turn of their user, that turn is forwarded whole, without a blank block that was not there before, and a rewritten history is well formed |
| `PromiseKept` | | `Spec => KeepsGatePromise`: Gateway implements DlpGate |
| `CacheConsistent`, `CacheFresh`, `EvictsLeastRecent` | `Classifier_proofs` | list and map agree; a hit is the newest; the least recently used goes |
| `CachedAsMeant` | | every reply is read as documented, or breaks one of the three claims; a cached verdict is one a reply on its text was read as |
| `LoopsReturnSanitized` | `Session_proofs` | the loops of the sanitizer return `Sanitized`, or reject what `CanSanitize` rejects |
| `OnlySensitiveIsLost`, `OnlyTheStartFails` | | no other inspected text is lost; an array the API accepts is rejected only if its first turn goes |
| `MarkedSecretsAreSentOnce` | | a secret leaves with the turn that was marked, and never again |
| `HarmlessTurnsAreForwarded`, `HarmlessTextsArrive` | | what was refused earlier stops no harmless turn, and takes nothing harmless with it |
| `UpstreamTakesIt`, `NoticesFollowTurns` | | what is forwarded is well formed; a notice stands behind its turn |
| `RedirectsOnlyWhileListening` | `Service_proofs` | the names lead to the proxy only while it listens, but for crashes and failed writes |
| `StartsWithOneBlock`, `UserKeepsLines` | | one whole block after a start; the user's lines stay, in order, and all that becomes of them is what ASCII makes of them |
| `UninstallRestores` | | after an uninstaller that could read and write, even in part, nothing redirects |
| `NoneLeftListening` | | a stop leaves no dependent that could be seen and killed |
| `AnnouncesOnce`, `MissesOnlyInBursts` | `Monitor_proofs` | a feed announces nothing twice, and misses only what a burst pushed off its page |
| `TurningSkipsNothing` | | turning the pages skips no row, if each is let appear and the limit is one the server grants |
| `WarnsOnce` | | one warning per block, unless a poll is overtaken |
| `SeriesAndTotalsAgree` | | the time series sums to the totals unless it is cut, and never to more |
| `StartedIsStoppable` | | nothing the extension started is abandoned |
| `ServedIsTrusted` | `Install_proofs` | the served CA is trusted or the service's own, however `-init-ca` fails |
| `ServedIsMatched` | | a CA written to the end by one process alone is served with its key |
| `TrustedIsOne` | | without a loss, a cut write or a failed removal one CA is trusted at most |
| `AnswersAreReadRight` | `Dial_proofs` | a response is read as what its server meant, or, cut, as less |
| `NeverDialsItself`, `LeavesOldAddresses` | | no loop; no address is used long after the upstream left it |

**Gateway: what leaves.**  `NoUnvettedEgress` is about requests that have been sent, and is not inductive:
it says nothing about how a body came to be.  `EgressInv` does, in six parts.
`VerdictsClear`: the classifier is not asked about texts a rule matches, and a
cached "allow" is a verdict on a vetted text, whichever request stored it.
`PassedIsClear`: every segment of a request being classified that is neither
still on the list nor found sensitive is clear.  `BodyIsClear`: the body of a
request about to be sent, or sent, holds clear texts only, but for the live turn
of a bypass; from `PassedIsClear`, since sanitizing removes exactly the segments it is
given (`SanitizedSegments`), and stripping a marker changes only the live turn
(`StrippedSegments`).  `HeldBack`: a request is not sent before it is approved,
and has no body before.  `UnparsedIsRefused`: with fail_closed a request that
could not be parsed is on the way to its refusal.  `RefusalIsFinal`: whoever was
answered with a refusal, or audited as blocked, was not sent and will not be.
Every step concerns one request and the shared cache, so each part is shown for
that request, and `OneRequestSteps` carries it to all.

**Gateway: the audit trail.**  `AuditInv` has `RecordedOnce` (no event but a refusal before the
outcome is clear, one event per request) and `Accounted` (whoever was answered
has an event, unless inserts fail); again one request per step.

**Gateway: what is cut.**  `Listed` (the list holds each cached key once) makes
sure that storing a verdict evicts another one than that; a block that an inspection
does not refuse for is then a cached verdict.  Without a cache there is nothing to
point at, hence the condition `CacheSize > 0`.  `TurnInv` remembers that what was
found sensitive is history, since a live hit refuses the request or, on a bypass,
is not classified; a user's turn without calls is then untouched by the marking
of segments, of calls and of notices (`LiveTurnStays`).  `EndsWithUserTurn` is a
condition of the theorem and not of the module, for the code accepts other
arrays; a live turn that is empty, or the model's, may be removed.  `MCGateway` has TLC
evaluate it on its clients.

**Gateway: the promise.**  The initial states map to one another, and every step of
`Gateway` maps to the step of `DlpGate` of its name or to a stutter.  `Release`
needs to know that the body is what the promise allows: `PromiseInv` says that a body which
waits to be sent is part of the conversation, or of the stripped one of a
bypass (`Releasable`), and what of a request is fixed before; that the inspected texts are vetted
comes from `EgressInv`.

**Classifier.**  `ListInv` is what a doubly linked list and a map owe each
other; `Fronted` describes what `MoveToFront` and `PushFront` with eviction do to
positions, so that `OrderInv` (the list is ordered by last use) follows for
hits, refreshed and new keys alike.  `CachedAsMeant` needs besides that a call stores a
verdict on the text it asked about, and that a reply is misread only where a claim is broken (`RepliesRead`).  Objects
are taken out of the text around them first: `Extracted` gives the part between
the first opening and the last closing brace, so an object in prose is found
(`WrappedIs`), text that is cut holds none (`NoObjectUnclosed`), nor does one whose
prose has braces (`NoObjectBraced`).  What is no object is read by its labels
(`UndecodedRead`); an object of no field, one or two is then a matter of its fields' types and values
(`OneTyped`, `TwoTyped`, `TwoValues`), and each schema and each deviation one case.
`AsMeant` compares each with what the documents say: only the readings of a
claim may differ (`WholeRead`, `BracedRead`, `CutRead`, `BareRead`, `RepliesRead`).

**Sanitizer.**  `SanitizerInv` has one part per loop.  `MarkInv`: the flags are those of
the segments marked so far.  `CopyInv`: the copy is `Sanitized` on the messages
visited, and a message not yet visited is flagged if it is a sensitive string, or a
notice behind a message already found empty (`Flagged`); the loop sees that
in time because a notice stands right behind what it answers.  `ValidateInv`: an id is open
exactly if the last block visited with that id is a call.  `OnlyTheStartFails` adds a fact on
arrays, not on loops: with unique ids a call and its result are dropped together
(`PairsGoTogether`), so pairing survives every set of segments; what is left to fail is the first role.

**Session.**  `HistoryInv` says that a history is a dialogue: indices without
gaps, user and assistant in turn, the calls of a reply answered by the next message.  A request
is then a `Prompt`, with or without its marker, and all of `Session`'s properties
are facts about sanitizing prompts: the live turn stays, only the first
role can be wrong afterwards, only sensitive segments and their calls go, and a notice
goes with the emptied turn before it.  The properties about what was sent before need nothing more, since the
proxy keeps nothing between requests.  This is for sessions of every length.

**Service: the hosts file.**  `HostsFile` says which positions of a file stay, and
`LinesAt` lists them in order.  An enumeration of a set of positions is unique
(`EnumerationIs`), so two operations that keep the same own lines yield the same own
lines: `RenderKeepsOwnLines`, `OwnLinesWithout`, `OwnLinesAppend`.  `FilesShaped`
gives every file, and everything read, its shape: plain lines with at most one block among them,
possibly cut short by a write that failed (`StripsTheBlock`).  Every action keeps that
shape, the user's edits and cut writes included, so a whole write leaves one
block.  The uninstaller encodes what it keeps line by line, so the
user's lines stay one to one (`EncodedIs`, `StrippedIs`), and what a cut write
leaves of them is a prefix (`PartLeft`, `CutShaped`).  `FileInv` adds the phases:
`ServingInv` (a proxy that serves has its block), `RemovedInv` and `RestoredInv`
(before a start, after a stop, after an uninstall nothing redirects).  `UserLinesKept`
is inductive as it stands, since a write whose read is out of date counts as unreliable.

**Service: the dependents.**  `StopInv`: the dependents are ended in turn, and one that was dealt
with is gone, or in `escaped` or `unseen`, and does not come back, since only a start launches it.

**Monitor.**  All of it rests on `StoreInv` (an event is inserted once, by the handler that
stamped it) and one consequence: a row never comes nearer to the front of the table, since what is
older than the retention goes first and takes nothing newer with it.  So a row that has left a page has no way
back onto it, and a feed may forget it (`FeedOk`).  The reader's
`reach` is the end of the last page that appeared.  A page he asks for starts
within it unless he hurried, and a row he has not seen lies behind it, as long as he is `Steady`
(`HistoryInv`): rows only sink, so a page that starts within the reach, and is listed in full, moves the
reach without passing over a row.  `totals` needs nothing: a stale one only ends the turning early.
`InOrder`: as long as no
poll was overtaken, what a poll has read reaches no further back than what was
warned of.  `NothingLeft`: each process of a script belongs to certain of its
phases, so a script that does not run needs nobody who could stop it.

**Install.**  `BaseInv` says who may be where (`PlacesInv`) and that a writer writes one
pair (`PairInv`).  `TrustInv`: after -init-ca has begun, what the service writes is its own, and
after the import so is every certificate on file that is not trusted.  `MatchInv`: certificate and
key, on file or in the hands of a process, belong together or were disturbed; the
exception is a writer between its two files, and whoever meets it disturbs its pair.
`OnceInv`: as long as nothing was damaged a CA is made only where none is trusted, which
needs `MarkedInv`, since a service marked for deletion may still be starting.

**Dial: responses.**  A response is its header, its question and its records one behind the
other (`MessageLaidOut`).  `Word` puts a number into two bytes from which `U16` reads it back
(`WordAppended`), and a record behind any prefix is read as that record, from its first byte to
the first of the next (`RecordReads`).  So the loop of `Answers` has, after n records, the
offset of the next one, the addresses of the first n and their least TTL
(`AnswersRead`, `TtlsLeast`); of a cut response it has a prefix of these, or stops as
malformed (`AnswersMeant`).  Each of these is an induction over the records.

**Dial: addresses.**  `NeverDialsItself` and `LeavesOldAddresses` use of this only that what is read is
what was sent.  `UsedUntil(a, t)` says the upstream uses the address or used it until t or longer;
`AnsweredInv`, `CacheInv` and `TriedInv` say for which t this holds of the
addresses of an answer, an entry and a dial, and `ClockInv` that a dial is over
in time.

**Monitor: the series.**  Every counted event lies in exactly one bucket (`BucketOfTime`),
the bounds in text admit what the bounds in time admit once they do not
reach beyond it (`BucketsHoldEvents`, `AskedBounds`), and the cardinalities of disjoint parts
add up to that of the whole (`PartsAddUp`), by induction over their number.

**Induction.**  The induction theorems of the library take an operator and cannot
be used.  Where a least element or a first counterexample will do (positions of
a file, indices of an array), the proofs take it from the well-foundedness of the natural
numbers (`NatLessThanWellFounded`, `WFMin`).  Elsewhere the predicate is a set of
numbers: one that holds 0 and with n also n + 1 holds all of `Nat`.  A fold, or
a recursive function, is its recursion: there is one function that satisfies
the equations, which is shown once per fold, and its values follow by that induction.

**Only model-checked**: all liveness (temporal reasoning under fairness, and
ENABLED, are out of the prover's reach).  `VerdictsAsMeant` is proved for the replies that
`Replies` lists, every object of every schema among them; a model may write
other texts, and of those nothing is said.

## 5. What is not modelled

The decoding of the configuration and its paths, logging, headers, compression
and the framing of events; the wording of the classifier's prompt and the
reason a verdict carries; the persisted prompt text, which differs from the
prompt in rare shapes (`handler.go:209`); the size limit of raw uploads (`handler.go:255`); filters by source and text, latency percentiles, the schema
migration; validity periods and renewal of leaf certificates; building, copying
and migrating by the installer; login, routes, charts, sound, animation and
demonstration data of the dashboard; the terminal of the extension; model
downloads and tests.  `PROJECT.json` "components" gives the reason for each.

## 6. Where code and documents disagree

A run each shows (`PROJECT.json` "findings"):

- `gateway_unvetted_history`: on a bypass, a history segment the classifier gave
  no verdict on is removed as if it were sensitive (`detector.go:128`), which
  `types.go:40-43` says must never happen.
- `session_marker`: "so Claude never sees it" (`handler.go:204`): the client
  resends the marked turn with its history, and the upstream receives the marker.
- `session_bypassed`: after a bypass of a wrongly refused opening turn every
  later turn is refused, as the sanitizer removes that opening and the array
  starts with the assistant (`sanitizer.go:117`), while `decisions.md:135` says
  the user can go on.

Without a run, but each a definition of the model that TLC refutes (section 3):

- `NothingOrphaned`: "nothing is orphaned" (`supervisor_windows.go:36`,
  `main.go:286`): a failed query for the listener looks like a free port
  (lines 81-88), and the process is left.
- `UninstallCompletes`: the uninstaller says that the name resolves normally
  (`uninstall.ps1:99`) when it could not read or write the hosts file.
- `UninstallKeepsLines`: it is to "revert everything" (`README.md:166`), and writes the whole hosts
  file back as ASCII (line 68): other characters of the user's lines become `?`.
- `InstallLeavesCA`: "Generate (or reuse) the ... CA, then trust it"
  (`install.ps1:183`): the exit code of -init-ca is ignored, and an install may end
  with a certificate without a key.
- `ServedMintsLeaves`: a generation cut short between the two files leaves a certificate
  with the key of another CA, which loads without an error (`ca.go:37, 221`).
- `NoTrustLeft`: the uninstaller "removes the CA from the trust store", and ends
  the same when it could not.
- `OnlyDecisionDecides`: only the decision is to decide, and a reply cut before it is
  read by a label in its reason (`profile.go:149`).
- `AmbiguousIsError`: neither label, or both, is to be an error, and in the decision field of an object it is
  read as ALLOW (`profile.go:144`).
- `UnsaidIsError`: `null`, or an object without `ng`, is read as ALLOW
  (`profile.go:198`, `287`).

## 7. Plan

Done: Conversation, LruCache, Gateway with DlpGate; Sanitizer; Session;
HostsFile and Service; DnsResponse and UpstreamDial; AuditStore and its readers;
Install; Verdict and Classifier; Launcher; the proofs of section 4.

Next, more of the system:
1. the persisted prompt (`handler.go:204-209`) and the size limit of
   `passthrough` (`handler.go:255`), which no property covers yet;
2. the toasts' cap and the packets' cap and sweep;
3. the renewal of leaf certificates against the validity of the CA.

Next, more proofs:
1. an abstract specification of the verdict cache and its refinement;
2. the parsers on texts of any length: an object of any number of fields.
