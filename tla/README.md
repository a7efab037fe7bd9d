# FacadeProxy in TLA+

FacadeProxy shows web sites a *persona* (user agent, language, time zone, screen, ...)
instead of the real browser. A persona has to appear on several layers at once, or it
gives itself away: the request headers (a declarative header rule, "DNR"), the routing
(a PAC script that sends traffic through a proxy on localhost), the proxy itself, and the
JavaScript values that pages read. This directory models how the layers are kept
together, checks the models with TLC and proves theorems about them with TLAPS.

## The system

| component | source | state | operations |
|---|---|---|---|
| background service worker | `extension/src/background/background.ts`, `storage.ts`, `types.ts` | globals `lastNetworkReady`, `lastProxyReachable`, `lastValidation`, `activationInFlight`; session storage `activePersonaId`, `desiredPersonaId`; the browser's header rules, PAC setting and badge | `setPersona`, `clearPersona`, the 5 s poll `refreshHealthAndState`, `onProxyError`; all of them share `activatePersonaStrict`, `deactivatePersonaRuntime` and `broadcastPersona` |
| proxy control plane | `proxy/src/proxy.rs:94-372`, `main.rs` | `active_persona` behind an `RwLock`, in memory only | `POST` and `DELETE /persona`, `GET /health`, `GET /persona/current`, `POST /personas`, start and end of the process |
| proxy data plane | `proxy.rs:374-488`, `headers.rs` | a semaphore of `max_connections` permits | `CONNECT` tunnels, forwarded requests with mutated headers, timeouts |
| metrics | `metrics.rs` | atomic counters, a ring of recent requests | `record_request`, `snapshot` |
| persona validation | `persona.rs:97-318`, `persona.ts` | none | the coherence rules, once in Rust and once in TypeScript; tables that derive client hint, offset and renderer from a persona |
| default personas | `defaultPersonas.ts`, `personas/defaults/personas.toml` | three personas | |
| personas file | `persona.rs:61-95`, `proxy.rs:184-267` | a TOML file | rewritten by `POST /personas`, read at start |
| rotating log | `logging.rs` | the log, five older ones, a byte count | `write`, `rotate` |
| content script | `content.ts` | none (what it writes to `sessionStorage` nobody reads back as a persona) | reads the active persona at start, passes broadcasts on to the page |
| injected page script | `injected.ts` | overridden properties and their saved descriptors | synchronous bootstrap from `/persona/current`, `applyPersona`, `restoreOriginals`, canvas and audio noise |
| popup | `popup.ts` | what it shows; it writes the settings in local storage | applies and clears a persona, saves the control token, shows the worker's state |
| proxy configuration | `config.rs`, `main.rs` | none | merges flags, file and defaults |
| build and release scripts | `Makefile`, `scripts/` | none | `artifacts/` holds what they build |

The popup and the content scripts send messages to the worker; the worker calls the
proxy over HTTP, with timeouts of 1.5 to 2 s, and the browser's APIs; it broadcasts to
the tabs; the page script also asks the proxy directly. Nothing is transactional.

What is hard:

* *Interleaving.* Every `await` of the worker lets another handler run. The poll does not
  wait for its predecessor, `clearPersona` does not wait for an activation, and the one
  guard there is, `activationInFlight`, makes a handler join an activation that may be of
  another persona.
* *Partial failure.* An activation is nine steps; each may fail after the others took
  effect, and the rollback ignores its own failures.
* *Restarts.* The browser ends the worker at will: globals and coroutines are gone,
  session storage, rules, PAC and pages are not. The end of the browser takes session
  storage but not rules and PAC. The proxy forgets its persona.
* *Lost and late requests.* A request given up by its timeout may be served later.
* *Stale state.* Every message has the worker read the settings and write them back; the
  popup shows a reply for as long as it is open; a verdict carries no persona.
* *Late news.* A page learns its persona from three sources that race: the proxy, when it
  loads, the worker's reply to its question, and broadcasts.
* *Shared limits.* Requests on several threads share one semaphore, and every way out of a
  handler, a client that disconnects included, has to return its permit.
* *Hostile surroundings.* A page freezes, redefines and removes what the injected script
  overrides, and the script uses its own overrides.
* *Files.* The personas file is rewritten in place, by several threads; a rotation ignores
  the renames that fail.
* *Twins.* Two validators in two languages and four tables of substrings have to agree.

What makes each component correct: the worker never tells a page of a persona before the
network carries it, never leaves a layer behind, never leaves a joiner waiting, and
reaches what the user wants once the faults stop; the proxy holds only personas that
passed its validation; the data plane neither leaks nor exceeds permits, and its counters
add up; a page ends with what the worker says in the end; the two validators agree; the
personas file survives a crash; the log keeps its bound; `restoreOriginals` and the canvas
noise restore what they changed.

## Modules

| module | what it is |
|---|---|
| `ProxyControl` | the proxy's persona, its control handlers and its process |
| `Background` | EXTENDS `ProxyControl`: the worker, the browser state it drives, the requests between the two, and the faults |
| `SingleFlight` | abstract: what `activationInFlight` promises its callers; `Background` implements it |
| `Page` | EXTENDS `Background`: one web page, its content script and its injected script, next to the worker |
| `DataPlane` | EXTENDS `ProxyControl`: tunnels and forwarded requests, the semaphore, the counters |
| `BoundedPool` | abstract: what the semaphore promises; `DataPlane` implements it |
| `Popup` | the popup, and what the worker does around every message: defaults, settings, state, verdict |
| `PersonaRules` | the two validators, the derived values, and the way of one persona through them |
| `PageScript` | the overrides of the injected script on the objects of one page |
| `CanvasNoise` | EXTENDS `PageScript`: what the overrides do to canvas and audio data |
| `PersonaFile`, `RotatingLog` | the two files of the proxy |
| `ProxyFiles` | EXTENDS both: one process, its crashes and restarts |
| `BackgroundClaims` | what a comment says of the worker and the code does not do |
| `BackgroundProofs`, `SerialProofs`, `PageProofs`, `DataPlaneProofs`, `PopupProofs`, `PersonaRulesProofs`, `CanvasNoiseProofs`, `ProxyFilesProofs` | the theorems |
| `MCBackground`, `MCPage`, `MCDataPlane`, `MCPopup`, `MCPersonaRules`, `MCCanvasNoise`, `MCProxyFiles` | fault sets, symmetry and tables for TLC |

### How `Background` reads the code

`Tasks` is a set of slots in which handlers run as coroutines. `pc[t]` says at which
`await` the handler in slot `t` is suspended, `kind[t]` which handler it is (`set`,
`clear`, `poll`, `error`), `arg[t]` its persona (the desired persona in a poll), `seen[t]`
what it last read, and `reply[t]` the reply to its HTTP request. One action is the code
from one `await` to the next, which JavaScript runs without interruption: `PollHealth`,
for instance, is everything from the resumption after `fetchProxyHealth` in line 227 up
to the next suspension in whichever branch is taken.

* A call to a browser API takes effect when it is made and resolves one step later.
* An HTTP request is three steps: it is sent (`Send`), served or refused or timed out
  (`Serve`, `Refuse`, `Timeout`), and its reply is consumed by the handler.
* A timed-out or orphaned `POST` or `DELETE` may stay under way (`late`) and is served
  at any later time (`ServeLate`). `late` is a set of the personas these requests carry,
  with `NoPersona` for a `DELETE`: two equal late requests have the effect of one that is
  served twice, and one of them is enough for any single surprise.
* `activatePersonaStrict`, `deactivatePersonaRuntime`, `clearPersona` and the `catch`
  block share the tail that takes the layers off (`TeardownPcs`); `AfterTeardown` says
  where each caller goes on.
* `EndActivation` is the `finally` block together with the resumption of everybody who
  awaits the same promise.
* `told` is the persona of the last broadcast: what every tab has been told.

State that no decision depends on is left out: `lastError`, wording, the version check
(which only sets `lastError`), `uptime`. So are reads of the settings and of the persona
store; `ProxyEnabled` and the verdicts of the two validators (`LocallyValid`, `ProxyAccepts`)
are constants. `Popup` has the settings, and `PersonaRules` the validators.

### How `Page` reads the code

A page is the persona its overrides show (`shown`) and how far its content script is
(`page`). `Load` is a navigation: the synchronous bootstrap of the injected script, which
takes `/persona/current` at its word, and the two questions of the content script to the
worker. `ReadActive` and `AnswerPage` are `getActivePersona` in the worker before and after
its await, `PublishActivePersona` is the resumption of the content script once the runtime
state has come as well, and `Listen` its message listener, which every broadcasting step of
the worker (`Tell`) triggers. A worker that ends rejects the questions (`LoseAnswers`), and
the content script falls back to the real values. Pages do not influence each other or the
worker, so one stands for all of them. Messages are delivered when they are sent: all of
them go over one ordered channel, and a delay of the whole channel is a later step.

### How `DataPlane` reads the code

`at[c]` says where the request in slot `c` is. A step is what a handler does between two
accesses to state it shares with other threads: the semaphore, the persona behind its lock,
and each of the counters, which are separate atomics. `handle_connect` counts a request
before it has a permit, `forward_http_request` afterwards; the order of the actions is
theirs. The permit is returned by its destructor, so every way out of a handler is `Finish`,
among them `Disconnect`, where hyper drops the handler of a client that has gone at one of
its awaits. A tunnel takes its permit along and has no timeout; the response of a forwarded
request streams its body after the permit is back. `BadHeader` says which of a persona's
values is not legal in a header, if any: `mutate_request_headers` stops there.

### How `Popup` reads the code

The popup runs one flow when it opens and one per button; the button is disabled meanwhile,
so a flow has at most one message under way and its handler in the worker goes by the flow's
name. `Start` is the beginning of `ensureDefaults` up to its first await, `WritePersonas` and
`WriteSettings` its two writes; between read and write other handlers and the popup run, and
`snapshot` holds what was read. Then comes the work: `GetState`, `FetchMetrics`, `SetPersona`
with `Activate`, `ClearPersona`, or the poll (`PollReads`, `RefreshHealth`). How a persona is
activated is `Background`; here an activation succeeds or not, and one that joins the poll's
may activate what the poll wanted. `active` is the persona as far as `getActivePersona` trusts it.
`AfterMessage`, `AfterState`, `AfterMetrics` and `SaveToken` are the code of the popup after each
reply, `RenderState` and `RenderValidation` what the popup then shows. `Throw` is a call to the
browser's storage that fails, `LoseWorker` the end of the worker.

### How `PersonaRules` reads the code

A platform or user agent is the set of tokens that its lower case contains, since the code
asks for substrings only (`PersonaSpace`: a platform with "darwin" has "win" too);
`accept_lang` is the sequence of its entries. The tables of regions, zones, languages and
resolutions are those of the code, once per language it is written in. A rule is an element of a set of
broken rules; `Hard` rules are errors, the others only in strict mode. The actions take one
persona from the popup through both validators, or past the first one: the poll activates
what is desired without validating it (`PollActivates`). `timezoneOffsetFor` in `persona.ts` and
`timezoneOffset` in the injected script are copies of each other.

### How `PageScript` and `CanvasNoise` read the code

A target is a property with the function that overrides it; properties that no code treats
differently share one. JavaScript runs a message to its end, so `ApplyPersona` is all of
`applyPersona`, the restoring before and the `catch` included: `Reached` are the targets that come
before a global that is gone and not guarded by `typeof`. The page freezes (`Seal`), defines
(`Redefine`) and removes (`Remove`) whatever it likes in between. Two history variables follow what
the page would have without the script: `own` is its last definition of a target, `overlaid` says
that this one fell on an override. The script saved its descriptor before, so that
`restoreOriginals` puts an older value back and the page's definition is gone; `AllOrNothing` states
this exception, and that there is no other. A canvas is one row of pixels,
given by the bytes that differ from what the page drew. Every call of the page is one action,
with the call that the patched function makes to the other patched function inside it
(`Perturbed`). `StablePrint` and `ExportsArePure` except the personas whose `getImageData` noise
reaches a region of one pixel (`hashPersona` modulo 13 below 4): for these, reading the pixel
back disturbs it again, and exports drift. An export that throws leaves its flipped pixel
behind (`ToBlobThrows`): the page drew nothing, so later exports are compared with the earlier ones
and differ. `spoiled` records it, and `StablePrint` then allows a second print but no third: a
further throw flips the pixel back.

### How the files are read

`save_personas` is `Truncate`, `Write` and `Protect`, since `fs::write` opens with truncation and
then writes, on any thread, without a lock; what a second writer leaves behind the end of the
first stays there (`torn`). The log is written under a mutex, so a line is one step:
`Append`, or a rotation (`Rotate`) with any set of renames that fail, or one that cannot open the
new log (`RotateFails`) and leaves the handle on a file that has moved (`HandleAfter`) and the count
where it was. Lines are numbered; `excess` and `gaps` are history variables that say what failed.

### Bounds and faults

`Tasks` bounds how many handlers of the worker overlap, `Personas` how many personas there
are, and `MaxFaults` how many faults happen in a behaviour; which kinds, `Faults` says. The
faults are: `proxyCrash` (the process ends), `timeout` (a request times out although the
proxy runs), `refusal` (a browser call or a storage write reports `lastError`), `proxyError`
(`onProxyError` fires), `workerRestart` and `browserRestart`. A proxy that is not running
costs no fault: every request to it is refused. `Conns` bounds how many requests are under
way in the data plane, `MaxRequests` how many come in a behaviour.

Everything that can go wrong with one handler at a time needs one slot; two slots give
every interleaving of two handlers, among them two activations, a clear in the middle of
an activation, a poll over a `setPersona`, and a joiner. Two personas are what it takes
for a wrong one; four faults are enough for a fault during the recovery from the recovery
from another, and for a page two are enough to lose the worker or the proxy during
either of the two sources that race. Two requests and one permit are enough for every
request to be refused or admitted in either state of the other, and four requests for a
slot to be used again after each kind of end.

In `Popup` the user does `MaxInputs` things (a click, a choice, a typed token, closing and opening
the popup) and `MaxFaults` calls fail or workers end: two and one, so that two flows overlap with
each other, with the poll and with a fault at any point, and a token is typed and saved while
another handler is at work. (Longer behaviours, five inputs and two faults, were simulated at
random; the theorems of `PopupProofs` have no bound.) In `CanvasNoise` the page tampers `MaxTampers`
times, twice: enough to freeze one target and remove another between two personas; two personas,
one whose noise reaches the exported pixel and one whose noise does not; a canvas of two
pixels. In `ProxyFiles` there are two concurrent `Posts`, two rotated files, `MaxLines` lines
of one or two units with a limit of two, so that every second line rotates and all files fill,
and `MaxMishaps` rotations in which something fails. That run does not check for deadlock: a proxy
with `--persona` really cannot start again over a file that a crash left empty. `PersonaRules` has no
bound but the personas it enumerates: every platform with every user agent, and every region with
every zone and seven lists of languages, which meets each branch of the two validators.

### Fairness

`FairSpec` assumes that the event loop resumes a coroutine whose `await` is resolved, that
a request is answered or refused (its timeout sees to that), that `setInterval` keeps
firing while a slot is free, that a late request is served, and that the user starts a
proxy that is down. `FairPageSpec` adds that the messages between page and worker arrive.
`FairDataSpec` assumes that the runtime runs every handler and every timer. All are weak
fairness. `FairPopupSpec` assumes that as long as a flow of the popup has something to do in worker
or popup, the event loops run some of it (one weak fairness for all flows together: the flows are
finite, so none needs its own), and not that the poll runs.
Nothing is assumed about what the user does, about navigations, about upstream servers,
clients or the ends of a tunnel.

## Runs

| run | question | bounds |
|---|---|---|
| `serial_failures` | after any failure, is every layer off unless the worker is ready, and does the badge admit what is applied? | 1 handler; 4 of proxy crash, timeout, refusal, proxy error |
| `serial` | does "ready" mean that all layers carry the stored persona, are pages told last, is nothing applied that the proxy refuses, and does the poll reach what the user wants, in the proxy too? | 1 handler; 4 faults of all kinds |
| `overlap` | under every interleaving: one activation, one result for all its callers, no handler left waiting, and does a clear win in the end? | 2 handlers, no faults |
| `routing_disabled` | is nothing ever touched with `proxyEnabled` false? | 2 handlers; 1 fault of any kind |
| `page` | does a page show what the network carries whenever the worker is ready, and the real values in the end once nobody wants a persona, whatever its sources say meanwhile? | 1 handler, 1 page; 2 faults of all kinds |
| `data_plane` | are permits conserved, refusals justified, set-ups finite, and do the counters add up? | 2 slots, 4 requests, 1 permit |
| `popup` | does a saved token stay, does the popup show what is wanted and the verdict that belongs to it, do all buttons come back? | 2 inputs, 1 fault, 2 personas (one invalid) |
| `persona_rules` | do the validators agree, and does an applied persona look like one machine in one place? | 24 platforms with 64 user agents; all regions, zones and 7 language lists; screens of each kind; the 3 default personas |
| `canvas_noise` | does a page show one whole persona or its own values, what of these may it lose, and does one persona give a canvas one print? | 4 targets, 2 personas, 2 tamperings, 2 pixels |
| `proxy_files` | what of the two files survives crashes, concurrent writers and failing renames? | 2 concurrent `POST`s, 4 lines, 2 rotated files, 2 failing rotations |

`serial_failures` and `overlap` use personas on which both validators agree; `serial` and
`page` use one that only the extension accepts and a proxy that starts with a persona from
its command line. `SelfHeals` and the properties of `Page` are stated for one handler at a
time: with two they are false, because `claim_repaired` shows how two handlers leave the
layers apart for good.

Two runs refute a sentence of the repository.

* `claim_repaired`: `JsWithoutNetworkRepaired` (comment at `background.ts:237-239`). `set` A is
  activating when `set` B starts: B's deactivation removes rule and PAC after A installed them; A
  ends ready; B, which may have joined A, reports success. Pages now show a persona whose
  headers are not rewritten. The poll finds the proxy in agreement and does nothing, for ever.
* `claim_no_side_effects`: `NoSideEffects` (`docs/FacadeProxydesigndoc.md:362`). The patched
  `getChannelData` adds its noise to the page's own array, and once more with every call;
  restoring the function does not take it out.

What else the models say of the code, as the exceptions written into the properties or as
comments:

* A teardown removes header rule and PAC, waits for the `DELETE`, and only then tells the pages
  (against `docs/ARCHITECTURE.md:12`); `NetworkFirst` is about the way in.
* `setPersona` stores the desired persona before it validates it. What it rejects as `INVALID` the
  next poll activates without asking again, if the proxy accepts it (`README.md:76`; `PollActivates`
  in `PersonaRules`). The two differ by default: `coherence_strict` is false in the proxy
  (`config.rs:57`) and true in the extension (`background.ts:26`).
* `set` B joins the activation of A and answers ok (`README.md:79`; `Stray` in `Popup`).
* A page whose content script waits for the second of its two answers overwrites a broadcast with
  the older first one, and keeps it until the next broadcast or until it is loaded again
  (`raced` in `Page`).
* Header mutation that fails half-way is forwarded "unmodified" with the user agent replaced
  (`MutateRequestHeaders` in `DataPlane`; `proxy.rs:463`).
* A token saved while a handler is between its read and its write of the settings is lost
  (`raced` in `Popup`; `background.ts:75-85`).
* `clearPersona` leaves the verdict in local storage, so the popup may show the pill `UNSET` with old
  errors. What it says while a save fails is nothing, and "Token saved" is overwritten
  by the refresh that follows it. Any rendering overwrites a token being typed and a choice not
  yet applied (`popup.ts:81-91`).
* `toBlob` without a callback leaves the pixel perturbed, so that one persona has two prints of a
  canvas from then on (`ToBlobThrows`, `spoiled`).
* What a page defines over an override is lost when the override is taken off or replaced, against
  `docs/FacadeProxydesigndoc.md:362` (`Redefine`, `overlaid`; `injected.ts:71-86`).
* A proxy that wants a token the extension does not have keeps its persona for ever, since the
  outcome of the `DELETE` is ignored (`ProxyForgets` excepts it; `background.ts:276`).
* A platform with "linux" and "android" is Linux to the validators and Android to the hints; an empty
  first entry of `accept_lang` is English to the extension and no language to the proxy; the
  offsets are those of summer, and a zone that the switch does not know shows the real offset
  (`OneMachine`, `StrictIsEnough`, `OnePlace`).
* A mirror sync replaces whatever the user had in the personas file.

## Theorems

All hold for any sets of personas, handler slots and requests, any verdicts of the
validators and any number and kind of faults, unless a theorem says otherwise in its
hypotheses. The assumptions are those named in the modules, which TLC evaluates in the runs:
the special values differ, `ProxyAccepts` is a set of personas, the proxy starts with an
accepted persona or none, `Conns` is finite, and in `PersonaRules` the personas are of the type
`PersonaSpace`, the three of `defaultPersonas.ts` among them. Every safety property that a run
checks is stated by a theorem. Each is proved in the same way: an invariant that
implies it, checked by TLC under the run's bounds first, one lemma for each group of
actions that says that these keep it, and a last step by temporal logic.

`BackgroundProofs`, for any number of overlapping handlers:

* `TypeCorrect`: `Spec => []TypeOK`.
* `OneActivationHolds`: `OneActivation` says in both directions how `activationInFlight` and
  the positions of the handlers agree, and is inductive with `TypeOK`.
* `OnlyAcceptedHolds`: this one is not inductive: an activation installs `arg[t]`, a re-sync
  broadcasts `seen[t]`. `PostedFirst` adds that a handler past its successful `POST` has an
  accepted persona, `StoredFirst` that what a poll read from session storage is one.
  `OneActivation` is needed too, because a handler inside the activation must not be
  mistaken for one whose teardown ends elsewhere.
* `NothingWhenDisabledHolds`: `DisabledInv` adds that no handler is past the first step of an
  activation, that the worker is never ready, and so that no poll sees an active persona.

* `SingleFlightHolds`: `Background` implements `SingleFlight`. The leader is `inFlight`, the
  joiners are those who wait for it, and each step of the worker is a step of `SingleFlight` or
  a stutter, because `OneActivation` tells leader and joiners apart.

`SerialProofs` is about one handler at a time (`Tasks` has one element at most):

* `ReadyMeansShownHolds`, `NetworkFirstHolds`: from `SerialInv`, which annotates every position
  of the handler with the layers that are on by then (`ReadyApplied`, `InstallOrder`) and with
  what its locals mean (`SomePersona`, `SeenIsActive`).
* `NotReadyMeansOffHolds`, for a worker that is not restarted (`Faults` without the two
  restarts): `OffInv` annotates the teardown in the same way, with the layers that are off.
* `BadgeNeverDeniesHolds`, for such a worker and personas that both validators judge alike
  (`SameVerdict`): the badge is the last thing a handler writes, from flags and a verdict that
  others wrote long before. `BadgeInv` follows these: whoever acts on a persona acts on the
  desired one and has seen the proxy (`DesiredApplied`), the verdict is that of the desired persona
  from `validate` on (`VerdictCurrent`), and what a poll read for the badge still holds when it
  writes it (`BadgeWritten`). It needs `OnlyAccepted`: an active persona is a valid one.

`PageProofs`: `WorkerUndisturbed` shows that every behaviour of `PageSpec` is one of
`Spec`, so that the theorems about the worker hold next to a page.

* `PageTypeCorrect`, and `OnlyAcceptedShownHolds` for what the page itself shows, which comes from
  the proxy, from session storage or from a broadcast.
* `PageMatchesNetworkHolds`, for one handler at a time: `PageFits` says that a page shows, or
  has read and is about to show, the active persona whenever the worker is ready and not at one
  of the two positions where its state is ahead of the broadcast (`Settled`). The worker comes
  there from elsewhere only by a broadcast (`SilentSettled`), and that is about the active
  persona (`TellSettled`); both are by `SerialInv`, which also gives that the header rule agrees.

`DataPlaneProofs`: `ImplementsPoolHolds` shows that the semaphore implements `BoundedPool`:
`Positions` says which positions belong to which kind of request, `PermitsMatch` that the free
permits and their holders add up, and each step takes, returns, is refused or leaves alone one
permit. `DataTypeCorrect` uses the same for the bounds of `free`. `CountersAgreeHolds` follows
the requests between their two counters.

`PopupProofs`, for any number of inputs and faults: `PopupTypeCorrect` needs that a good answer to
a question for the state has one (`AnswerFits`) and that a flow awaits what its handler is about
(`FlowFits`). `TokenKeptHolds` is by `KeepInv`: nobody between its read and its write holds an
older token than the one saved last. `ViewIsCurrentHolds` and `VerdictFitsHolds` are by `ViewInv`,
which follows a flow that nothing overlaps from its click to the rendering: no other handler of
the popup is at work (`RunsAlone`), what `setPersona` activates is desired (`ActivatesDesired`),
outside it the verdict is that of the desired persona as long as nothing failed
(`VerdictKnown`), so the answer says what is desired, active and judged (`ReplyCurrent`) until it is
rendered and from then on the view does (`ViewCurrent`). The verdict in local storage may be
that of another persona; it is never asked for then, which is what `VerdictKnown` shows.

`PersonaRulesProofs`, for every persona in `PersonaSpace` that `Personas` may hold: `RulesInv` says what a
stage means for the verdicts of the two validators; the rest is about the tables.

* `StrictIsEnoughHolds`: the tables of the two languages are the same (`SameTables`), and so is the
  language they take from `accept_lang` (`SameLanguage`), if there is one.
* `OneMachineHolds`: the four tables that read a platform agree, except where it has "linux"
  and names another system besides.
* `OnePlaceHolds`: the offsets of the switch are those of July (`OffsetsFit`), and dropping empty
  entries leaves the first one in place (`FirstStays`).
* `DefaultsPassHolds`: the three default personas break no rule of either validator.

`CanvasNoiseProofs`, for any targets in any order: `ScriptTypeCorrect`; `AllOrNothingHolds`, by
`SavedIsOwn` (what is saved is what the page had before the override, its last definition unless
that one fell on an override) and `SavedFits` (what is saved is what shows a persona);
`StablePrintHolds` and `ExportsArePureHolds`, by `PrintInv`: each print is the one that the
present overrides make of the canvas or, after an export that threw, the canvas as it is, since
a throw swaps the two (`ThrowKeeps`).

`ProxyFilesProofs`, for any number of `POST`s, files and lines: `FilesTypeCorrect`; `FileIsLastHolds`
(`FileInv`: between its truncation and its write a handler finds the file empty unless it met
another); `FilesBoundedHolds` (`SizesInv` relates the count to the size of the file the handle is
on); `NewestFirstHolds` (`AgesInv`, also for a handle that a failed rotation left on a moved
file); `OnlyOldestDroppedHolds` (`KeptInv` and `FilledInv`).

Only model-checked, being liveness under fairness, which TLAPS does not prove:
`EveryHandlerReturns`, `ClearTakesEffect`, `ProxyForgets`, `SelfHeals`, `ClearReachesPages`, `HoldsBriefly` and
`ButtonsComeBack`. The two claims that fail are refuted by TLC.

## Not modelled

* In `Background`, failures of `storageRemove` and of writes to local storage (`Popup` has them),
  and a browser in which another extension controls the proxy settings.
* `GET /metrics`: the counters are read by Relaxed loads one after the other, so that
  between two values of one snapshot nothing is promised. The ring of recent requests, and the
  counters of validations and polls.
* The referer, target parsing, hop-by-hop headers and CORS headers of the proxy; merging of flags
  and configuration file (pure parsing); a `CONNECT` without an authority, which is an error before
  anything is counted; user agents that are not empty and name no system; the layout of the popup and of the badge.
* The contents of the plugin list, the masking of `toString` and the script-tag fallback of the
  content script.
* Build scripts, and the artifacts directory, which holds built copies of the sources.

## Plan

All modules of the plan are done, and every safety property of the runs is proved. What could
follow: a second page to relate tabs to each other, and theorems about two handlers at a time
that say which layers may disagree while they overlap.
