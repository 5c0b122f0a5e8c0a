# Runnrr in TLA+

Runnrr is a single-process chat engine: FastAPI in front of an agent loop that drives one of three model
providers, runs the tools the model asks for, and streams events to a browser. This directory holds TLA+ models of
its core, TLC configurations that check them on small instances, and TLAPS proofs of what matters most for every
instance.

Paths below are relative to `src/runnrr/`.

## The system

| part | source | state it keeps | operations | interacts with |
|---|---|---|---|---|
| agent loop | `agent.py` | locals of one generator per turn: hop, pending calls, buffered usage | `run_conversation_stream` | appends to the session's messages; awaits provider streams and tool threads; yields events |
| providers | `providers/*.py` | none per turn beyond the stream being assembled | `stream`, `format_user`, `append_tool_results` | append assistant turns and results to the list they are handed |
| chat API | `app.py` | `SESSIONS` | `chat`, `_cleanup_stale_sessions`, `_instrument`, `_sse_format`, read-only endpoints | admits turns, wraps the loop, charges the budget |
| token budget | `budget.py` | date, tokens used | `has_capacity`, `record`, `reset`, `stats` | asked at admission, charged at the end of a turn |
| usage, pricing | `usage.py`, `pricing.py` | none | `tally`, `billable_total`, `cost_usd` | folded over a turn's usage events |
| tool dispatch and handlers | `tools/*`, `web_search.py` | none | `run_tool` | run on worker threads, failures become results |
| profiles, skills, KB | `profiles.py`, `skills.py`, `kb_loader.py` | files | load, discover, read | read by tools and by the builder |
| RAG index | `rag/indexer.py`, `manifest.py`, `vector_index.py`, `bm25_index.py` | three files per profile | `build`, `is_stale`, `info` | a command line process writes what the server reads |
| RAG retrieval | `rag/retriever.py`, `tools.py`, `inspect.py` | `_RETRIEVER_CACHE` | `get_retriever_for_profile`, `search`, `clear_retriever_cache` | called from tool threads |
| builder | `builder.py` | profile directories | save, note and skill CRUD, expiry sweep | its profiles are chatted with through `app.py` |
| evals | `evals/*` | run records | offline runs and scores | drives the loop and the retriever |
| web, deploy | `../web`, `../deploy*` | browser state | pages, scripts | HTTP only |

What makes it hard. Everything in the server but tools runs on one event loop, so code between two awaits is atomic,
and everything that matters happens at the awaits: other requests for the same session, a client that vanishes, a
session that expires, a day that ends, a provider that fails half way. A turn holds its session dict across all of
them. The RAG index is three files written one after the other by one process and read by another.

What makes each part correct:

* agent loop and message log: every tool call is followed by its results, in call order, or the vendor refuses the
  conversation from then on; history is never rewritten; a turn ends, within its hops; the client's last event
  agrees with the log;
* chat API: sessions never mix, whatever expires or overlaps; caps and limits hold up to a known overshoot; a switch
  of profile or provider starts clean;
* token budget: what the providers report is charged, once, to the day the turn ends; a day starts at zero;
* RAG index: an index reported current holds what the knowledge base holds; a cut-short build is repaired by a later
  one; the server reads the newest complete index;
* builder: only owners write; caps hold; nothing bundled is ever removed.

PROJECT.json lists, under `hazards`, the places where these can go wrong and which property watches each.

## Modules

| module | models |
|---|---|
| `MessageLog` | the message list of one session as pure operators: entries, results in each vendor's form, unanswered calls, orphaned results, what a vendor accepts |
| `AgentLoop` | turns on conversations: `run_conversation_stream`, the three providers' streams, `_instrument`'s accounting |
| `StreamAssembly` | how the OpenAI-compatible provider puts tool calls together from fragments (pure) |
| `Executor` | the threads of the event loop's default executor, which the next two and `RetrieverCache` share |
| `ToolFanout` | the fan-out of a hop's calls over the executor's threads, with cancelled turns |
| `SemanticSearch` | `run_tool` on those threads, composed of `ToolFanout` and `RetrieverCache` |
| `TokenBudget`, `DailyMeter` | `budget.py`, and the meter it promises to be |
| `Usage` | the three `_norm_usage`, `usage.py` and `pricing.py` (pure) |
| `ChatServer` | `app.py`'s chat handler composed with `AgentLoop` and `TokenBudget` |
| `RagIndex` | `rag/indexer.py`'s build over the three files of an index |
| `Chunker` | `chunk_markdown` (pure) |
| `IndexFiles` | the promise of the builds to readers: in which order the three files come, are rewritten and go |
| `RetrieverCache` | searches on several threads over one cache of retrievers, while a build rewrites the files |
| `RankFusion` | order of BM25 hits, reciprocal rank fusion, reranking, the cut to k (pure) |
| `Builder` | profile directories: saves, notes, skills, ownership, caps, the expiry sweep, crashes |
| `KbReader` | windows of `read_file`, depth of `list_kb`, filter of `iter_kb_files` (pure) |
| `EvalRun` | the metrics of a retrieval-only eval run and their summary (pure) |
| `Sorting` | what `sorted` does, by a relation (pure; used by `StreamAssembly`, `RankFusion`, `EvalRun`) |
| `MCAgentLoop`, `MCSemanticSearch`, `MCChatServer`, `MCRagIndex`, `MCRetrieverCache`, `MCBuilder` | the instances for TLC |
| `MCStandalone` | the instance of the parts that need no other: the budget and the six pure modules, with the pieces their inputs are put together from |
| `TokenBudget_proofs`, `AgentLoop_proofs`, `ChatServer_proofs`, `RagIndex_proofs`, `RetrieverCache_proofs`, `SemanticSearch_proofs`, `Builder_proofs` | the TLAPS proofs about the components |
| `Algorithms_proofs` | the TLAPS proofs of the laws of the pure modules |

Composition: `ChatServer` extends `AgentLoop` and drives an instance of `TokenBudget`, which implements `DailyMeter`.
`SemanticSearch` extends `ToolFanout` and `RetrieverCache`, which run on the same `Threads`. `RagIndex` (with the contents of
the files) and `RetrieverCache` (with their identity) both implement `IndexFiles`: the build that the retriever's
model runs is an abstraction of the indexer's, and this is where the two are tied together.

### AgentLoop

A turn's `pc` names the await or yield its generator stands at: `ready` (not started), `stream` (inside
`provider.stream`), `usage` (at the yield of the usage event), `tools` (inside `gather`), `results` (at the yields of
tool results), `ending` (at the terminal event), `closing` (abandoned, not yet finalised). `Start`, `EndStream`,
`UsageSent`, `ToolsDone`, `ResultsSent`, `Finish`, `Close` are the code from one such point to the next; `Submit` is
the end of the chat handler; `Disconnect` is the loss of the client at any of them. Text deltas are not events of the
model: they change nothing, and a client lost at one is lost at `stream`.

A provider's stream is one step that picks any of the outcomes its adapter can produce (`AnthropicReplies`,
`OpenAIReplies`, `GeminiReplies`): the adapters append the assistant turn and then hand over calls, usage and stop
reason without awaiting, so nothing can come between. One token stands for the usage of a hop: the properties only
ask whether a hop is counted. An OpenAI-compatible endpoint can finish with `tool_calls` and send no call: the loop then
takes another hop right behind the assistant's message, with no results in between. Left out: the branch of
`agent.py:106` that yields usage after an exception, which none of the three adapters can reach (they raise nothing
after they report usage).

A session dict is a conversation, a (provider, profile) pair a mode. `stray` records that a turn inside
`provider.stream` still holds the list a switch has replaced, `cutAt`, `shared`, `reported` and `billed` are history
that only the properties read. `VendorAccepts` is what the Anthropic and OpenAI services do with a log; it is
external, taken from what `agent.py:166-171` says of them.

### TokenBudget and DailyMeter

Each method holds the lock throughout and is a step. `Current` is the counter after `_maybe_reset_locked`. Under the
refinement `spent <- Current`, midnight itself resets the meter, and the later call that takes the lock and rewrites
the date is a stutter. `Report` is a usage event folded into a turn's tally, `Settle` the charge of that tally:
what is spent is what was reported, not any number. `running` is the set of turns between `has_capacity` and `record`.

### ChatServer

`chat` has no await, so it is one step with the outcomes its early returns have: `ReadBudget` (budget spent),
`SweepOnly` (sessions full, or no such profile), `ChatCapped` (429, which has already refreshed `last_seen`) and
`Chat`, which attaches the turn. Steps of running turns are `AgentLoop`'s; the step that ends a turn records its tally
on the budget. `Tick` and `Midnight` are the clocks. A conversation neither registered nor held is garbage and is
reused, which keeps the set of dicts finite.

### RagIndex

`build.pc` names the point a build has reached between two effects on disk: `reset` (the unlinks of a rebuild),
`delete` and `write` (each delete and each batch commits in `index.sqlite`, while the BM25 corpus changes in memory),
`bm25` and `manifest` (those files are open for writing and hold nothing that loads: `Torn`), `saved` (between the
two). `Edit` changes a file of the knowledge base at any moment, `Cut` ends a build at any of these points, whether
the process dies or an exception escapes; `ReadFails` is the exception the code itself raises when a file is gone. A
version stands for a file's text and its hash; a chunk is known by its file and line range, as `chunk_id` is, so that
the vector index replaces a chunk where the BM25 list gains a copy. The scan is one step: each file is hashed once,
and no property relates the moments two files were hashed. Batches may be any part of a file's chunks.

The constant `Torn` is a value no whole file can have (`FilesAssumption`): a reader tells a file it can load from one
it cannot.

`suspect` is history: files that a cut build had found changed, or that were edited between scan and read, until a
build deletes their chunks or starts afresh.

### IndexFiles and RetrieverCache

`IndexFiles` has one action per thing that can happen to a file: `Unlink` (the manifest first), `CreateVector`
(`sqlite3.connect`, from a build or from a search), `Tear` and `Write` (`open("wb")` and what follows), and `Begin` and
`Leave` for the build around them. What it gives a reader is `ManifestVouches`: a manifest that is there comes with
the two other files.

In `RetrieverCache` a content is `<<build, stage>>`: which build wrote it, and how far it was. Two contents differ
exactly when mtime or size do, so a fingerprint is the sequence of the three contents. A search (`thread[w].pc`) goes
from one moment another thread can see to the next: `stat` (one per file, `Stat`), `look` (the cache under its lock,
`LookUp`), `load` (the files, outside the lock, `Load`), `store` (evictions and the new entry under the lock, `Store`),
`connect`, `assign` and `schema` (`VectorIndex._connect`: opened, put into `self._conn`, schema ensured over whatever
connection is in `self._conn` by then), `answer`, and the second look-up for the size of the index (`round` 2). A
connection has an owner, the thread that opened it, which sqlite insists on (`check_same_thread`), and goes on reading
the file it opened after that was unlinked (`Detach`). `heap` is the retrievers somebody refers to; others are freed.

The model shows two ways a search fails that the envelope turns into an error result: a cached connection that
another thread opened, and an eviction that closes such a connection and raises after it popped the entry. Neither
breaks a property below: a search that answers answers from the index. It also has a search create an empty
`index.sqlite` between the unlink and the build's own creation of it; with a change of dimension the real search
would create it with the old one, which the model does not distinguish.

`clear_retriever_cache` is not modelled: only the indexer's own process calls it, in which no search runs.

### ToolFanout and SemanticSearch

A call is `waiting` for its turn's semaphore, `queued` at the executor, `running` on a thread, `answered`; or
`orphan` (running on a thread for a turn that is gone) and `dropped`. `Acquire`, `Take`, `Return` are
`asyncio.to_thread` inside `async with tool_slots`; `Cancel` is the generator being closed inside `gather`. A call
cancelled in the executor's queue stays there until a thread comes upon it and passes it over (`Skip`).
`SemanticSearch` gives each thread the call's body: `Dispatch` is `run_tool` up to the handler, with each refusal an
outcome; a call in `Searches` then takes `RetrieverCache`'s steps, any other succeeds or fails; `Deliver` is the
envelope. `TOOL_DEBUG_ERRORS`, which re-raises, is taken to be off.

### Builder

Every handler is a coroutine without an await, hence one step: `SaveProfile`, `SaveRefused` (the sweep of a create has
happened by the time of a 503 or 400), `WriteNote`, `DeleteNote`, `WriteSkill`, `DeleteSkill`. `SaveCut` is a save that
dies between two of its writes (each of its files is opened, which empties it, and then written), `SweepCut` an `rmtree` that leaves any part of a directory. `TimePasses` is a TTL
without a write. A text has an author, so that what a slug's next owner inherits can be seen.

Facts of the code the model has, and which its properties are worded around: a `profile.json` cut in writing locks its
slug for good (it reads as a bundled one); a save cut before that leaves the old `profile.json` over a `system.md` or
`catalog.json` that is cut short (`halved`), so that the agent is loaded with half its instructions; a profile without an owner can be claimed by anyone; notes whose name
begins with a dot are written but not counted, as they are not listed; deleting the newest note can make a profile
old enough for the sweep, without a warning to its owner (the sweep is still right: no file of it is fresh).

### The pure modules

Their operators are translated as functions and operators without state, and each has a law that relates the result to
what it is for. Each module ends in a small specification whose state is an input, which grows by a piece at a step:
a stream by a fragment (`Arrive`), a turn's usage by a reply (`Reported`) or a reply without a report by a character
(`Unheard`), a document by a line, a query by a judgement of the reranker, a knowledge base by a file or a line, an eval
run by a case (`RunCase`). The law is an invariant of it, so it is checked on every input that can be put together
within the bounds. `Algorithms_proofs` proves `Spec => []Law` for every value of the constants, so for inputs of any
size:

| law | over | says |
|---|---|---|
| `AssemblyLaw` (`StreamAssembly`) | streams of up to 3 fragments, with and without index, id, name, arguments | a call is made of all fragments that went in under its index, and is announced once; two calls become one only behind an index that was skipped, two answers share an id only if the endpoint repeats one or gives `call_<i>` itself while the i-th call has none, and an answer departs from the stored id only if none was given |
| `UsageLaw` (`Usage`) | turns of up to 2 vendor reports with counts 0..2; estimates of up to 9 characters of each kind | over a turn every token is charged and priced once, also when cached or spent thinking; a reply without a report is not free |
| `ChunkLaw` (`Chunker`) | documents of up to 6 lines of 6 kinds, target 4, overlap 2 | no line is lost; a chunk names the headings it stands under, ends with the line that fills it, takes up the overlap of the one before, and no two share a line range |
| `RankingLaw` (`RankFusion`) | all result lists, scores of 0..3 and partial judgements over 3 chunks, k up to one more than the tool's limit | fusion keeps every hit it has room for once, respects what both lists agree on and prefers neither; of the candidates none that is left out is judged better than one returned; a failed judge changes no order |
| `ReadingLaw` (`KbReader`) | files of up to 7 lines of 0, 1 or 4 bytes, with pages of 3 lines and 3 bytes; trees of up to 2 files 3 deep | reading on reports every line once; a page says that it was cut exactly when it reports a line that it does not show whole, and reading from that line shows it, unless it alone is over the limit; listing leads to whatever the search can find |
| `EvalLaw` (`EvalRun`) | a case of up to 4 hits and 3 expected paths out of 3, k up to 2; a run of up to 3 cases of up to 2 hits, or without an index | recall, precision, reciprocal rank and failure label of a case speak of the same hits (no claim is made about searches for another k, which may rank otherwise); each of a variant's three averages lies between the scores of the cases it could run |

What the laws are worded around: `read_file` cuts a page at a number of bytes while the `lines` it reports stay those of
the whole page, so a reader who goes on behind them skips what was cut, and only the mark at the end of the text says
so; the OpenAI-compatible provider stores an empty id as it came and answers it as `call_<i>`, which may be the id of
another call; a fragment without an index goes to the call whose number is the count of calls so far.

Limits of these models: a chunk that stood twice in one BM25 list (see `current_index`) would count twice in the
fusion; a reranker that answers `NaN` as a score (`reranker.py:91` takes it for a number) makes `sorted` return any
order, and is left out; the corpus order by which BM25 breaks ties is a constant (`CorpusOrder`), one order per
instance; the summary of an eval run adds the cached tokens to the input that contains them (`evals/records.py:208`,
against `usage.py:34-35`), a figure that nothing else reads. Fused scores and averages are exact fractions in the
models and floats in the code, which may break a tie that is exact.

## Runs

| run | bounds | question |
|---|---|---|
| `agent_loop` | 2 turns, 1 conversation, an Anthropic and an OpenAI-compatible mode, 2 hops, 2 calls per hop | what can interleaved turns, failures and lost clients leave in the log and on the bill |
| `turns_settle` | 2 turns, 1 conversation, 2 hops, 1 call | does every turn end |
| `chat_server` | 2 turns, 2 session ids, 4 dicts, an Anthropic and a Gemini mode, 1 hop, limits of 1, 2 days | admission, expiry, caps, switches, budget |
| `standalone` | 3 turns, limit 4, up to 3 tokens each, 3 days; inputs as in the table above | overshoot and rollover of the budget; do the pure modules keep their laws on every small input |
| `rag_index` | 2 files, a version of one chunk and one of two, 2 embeddings, 2 edits, 2 cuts | what builds leave on disk, whether they repair it, and in which order readers see the files |
| `retrieval` | 2 threads, 1 build that may be cut | what a search can answer from |
| `fanout` | 2 turns with 3 calls, 1 of them a search, 2 threads, 1 slot, 1 build | how many threads a turn takes, whether every call is answered, and in which order searches find the files of an index |
| `builder` | 1 bundled and 2 free slugs, 2 owners and a caller without a token, caps of 1, 1 crash | ownership, caps, what a slug claimed again holds |
| `current_index` | 1 file, 1 edit, 1 cut | a statement of the source that does not hold |
| `vanished_client`, `blocked_reply`, `switch_mid_turn` | 2 turns, 1 conversation | three statements of the source that do not hold |

Two turns are enough for one to overtake another at every point, two hops to have a hop behind tool results and a last
hop, two calls to have an order among results. Gemini's replies and the two others are covered between `agent_loop`,
`chat_server` and `blocked_reply`, since each pair of families behaves alike as far as the other turn can see. The
server run keeps one hop (the loop's own behaviour is the other runs' subject) and one slot of everything that has a
limit, so that limits are hit at once. Deadlock is not checked in the agent loop's runs: a run has finitely many
requests, and when all are over it stops. The server, and with it its budget, is checked for deadlock.

A behaviour of `standalone` is one of a single part (`part` says of which), while the rest stay as they begin: the parts
share nothing, so nothing could come of interleaving them. It is not checked for deadlock, since a pure module stops
when its input has reached its bound.

Two files let one be suspect while the other is not; two versions that share a line range let a chunk be replaced,
added and dropped by an edit; a second cut falls into the repair of the first. `rag_index` may stop, since a torn
manifest stops every build, and is not checked for deadlock.

In `retrieval`, two threads are enough for one to load, evict or close what the other holds, and one build, which can be
cut at every step and be an update or a rebuild, takes each file through all its states; what an earlier cut build
left is reached by cutting that one, since searches go on behind it. In `fanout` one thread more than slots shows a
turn kept to its share while the other runs, and an orphan holding a thread the other turn waits for. In `builder` caps
of one are hit by the first profile, note and skill, and the second slug is the one that must be refused or be swept
for; listed notes and skills are interchangeable like owners and slugs (symmetry). `fanout` may stop, when all calls
are answered, and is not checked for deadlock; `retrieval` and `builder` are.

Fairness in the loop is weak fairness of a running turn's steps: provider clients and tools run under timeouts
(`config.py`), so a stream or a `gather` ends; a slow reader is either served or found gone; asyncio runs what is
ready. Nothing is assumed of clients, and a turn is never assumed to be given a particular reply. In `RagIndex` a build that is not cut goes on (weak
fairness), and `ForceRepairs` assumes an operator who keeps running `build --force` (strong fairness of `Forced`,
since other builds may run in between): the code schedules no builds, so nothing less can promise a repair. `fanout`
assumes weak fairness of each call's `Submit` (the event loop wakes the semaphore's waiters) and of each thread's steps
(handlers end: HTTP clients and sqlite have timeouts); nothing is assumed of builds, their cuts or cancelled turns.

### What the refuted statements show

* `vanished_client`. Appending results before yielding them protects a client lost at a `tool_result` event, which is
  the case the test has. A client lost at the `usage` event, or while tools run, still leaves calls unanswered.
  `CallsAnsweredOrExplained` states the exact set of causes.
* `blocked_reply`. Gemini's `usage` followed by `error` loses the usage of that hop. `BilledAsReported` states that
  this is the only way, and only for one hop.
* `switch_mid_turn`. A switch gives the session a fresh list, but a turn that runs its tools meanwhile looks the list up
  again when it appends their results, which become the first entry of the new history. A turn that had not begun when
  the switch came, and so writes its prompt into the new list, is left aside. `SwitchStartsClean` states that either
  takes an overtaken turn.
* `current_index`. A build cut short after it saved `bm25.pkl` and before it wrote the manifest is followed by one that
  adds the same chunks again; the index then counts them twice and is reported current. The same cut can leave vectors
  of text since removed, or none of a file whose edit was undone. `IndexMatchesManifest` states that only such files
  are affected, `ForceRepairs` that a forced build repairs them.

## Proofs

Every theorem holds for all values of the constants that meet the assumptions of its module. Most assumptions say that
limits are natural numbers, that sets clients range over are finite where the code counts them, and that a model value
for "nothing" (`Absent`, `Torn`, `NoConv`, `NoToken`, `Live`, `Nobody`) is not one of the things it stands apart from
(`GapsAssumption`, `FilesAssumption` and `ValuesAssumption` say this of values that are built from constants). Two say
more. `ServerAssumption` gives the server a dict for every session id and every turn, so that one that nobody holds is
always there to be reused: a process can always allocate. `FanoutAssumption` says that a call belongs to one turn.
The message cap and the daily limit are positive: with a cap of zero the server turns every request away.

Each component has one inductive invariant, from which all its theorems follow. Each way of changing the state is a
lemma, each action a lemma over those.

* `TokenBudget_proofs`: `TypeCorrect`, `Overshoot`, `Refinement`. The overshoot bound is inductive together with
  typing and finiteness of `running`: admission needs a count below the limit and adds one turn's worth to the
  reserve, settling moves at most that much from the reserve to the count. The refinement maps each method to a step
  of the meter or to a stutter, by cases on whether the date has moved.
* `AgentLoop_proofs`, the bill: `TypeCorrect`, `BilledCorrect`. `BilledAsReported` speaks of turns that are over; `IInv`
  adds what makes it true: until then the tally keeps up with what was reported (`KeepsUp`), except that an error event
  can leave a Gemini turn one hop behind (`OneBehind`), and a turn has heard out at most one stream per hop
  (`HopsHeard`), which bounds the counters and so carries the typing too.
* `AgentLoop_proofs`, the log: `OneReplyHolds`, `OrphansHold`, `CallsExplained`, `LastWordHolds`, `HistoryHolds`. What the
  log must look like depends on where the turns that write to it stand, and a turn knows that only as long as nobody
  else wrote. `LogInv` therefore says: turns on one conversation are `shared`; a live turn that is not has its own
  last message at the end of the list, of the kind its `pc` calls for (`LastOk`); every entry belongs to a turn that is
  where it can have written it (`EntryOk`), no two replies are of one hop, orphaned results belong to shared turns,
  and every unanswered call has its cause (`Explained`). `MayAppend` states once what any step may append, so that the
  four parts of `ConvInv` are carried over an arbitrary append, and each action only has to be shown to be one.
* `ChatServer_proofs`: `ServerTypeCorrect`, `ServerBills`, `Isolated`, `CapHolds`, `SwitchIsClean`, `ServerKeepsLogs`,
  `ServerRefinesBudget`, `ServerMetersDays` (the budget's own refinement, brought back along the server's: the server
  implements the daily meter). The loop's invariants are part of `ServerInv`, so the loop's theorems hold again behind the
  server, where conversations are emptied and handed out anew. Isolation needs turns as well as entries:
  `OwnSessions` says of each registered dict that nobody else's turn holds it. The cap needs to know how much a turn
  may still append: `Steps` counts what it can have appended up to its `pc`, and a list is never longer than the
  prompts the cap admits plus the steps of an unshared turn on it (`Fits`). That a fresh dict exists at all is a count:
  dicts registered and dicts held are fewer than the dicts there are. In the refinement, a turn that the server lets
  in is `Admit`, each usage event `Report`, and the step that ends it `Settle`.
* `RagIndex_proofs`: `TypeCorrect`, `OneEmbeddingHolds`, `MatchesManifest`, `ReadersOrder` (`RagIndex` implements
  `IndexFiles`), `Vouched` (what `IndexFiles` promises readers, so of the real builds: a manifest comes with its two
  files). `OneEmbedding` is not inductive: it says nothing of a build whose manifest is gone, and such a build is
  the one that writes vectors of another embedding. `IInv` adds where a build stands: an update has found all three
  files whole and of its own embedding (`Updating`), a rebuild has unlinked the manifest before anything else, and the
  vectors before it goes on (`Resetting`), and from then on all vectors are of its embedding, as is the manifest if it
  is there (`Writing`, which also says which file is torn at which point). The refinement needs exactly this.
  `IndexMatchesManifest` speaks of the files between builds; `Matching` adds, for every file that is not suspect, what a
  build has brought so far into the corpus in memory and into the vectors on disk (`Progress`, `Done`), that it compares
  with the manifest that is there (`Base`), that files it did not find changed stay (`Kept`), and that only changed
  ones are deleted and written (`Deleting`, `ToWrite`).
* `RetrieverCache_proofs`: `OneCachedHolds`, `SearchersOrder`, `SearchersVouched` (the promise of `IndexFiles`, of
  every single moment; a search takes several, and a build may unlink a file between two of its stats), `CacheTypeCorrect`, `NeverOlderHolds`, `CalmSearchHolds`, for any number of threads and builds. The cache is always part of a singleton (`AtMostOne`): the one step that adds an
  entry evicts those of other keys and replaces its own, and an eviction that raises only takes entries away. For
  the other two, contents have an age, the order in which builds write them, and a file that is gone an age too, that
  of what it can come back with (`Newest`), so that age never falls (`BuildInv`, which ties each file to the
  point its build has reached). Everything a search sees is then ordered: what it read at `stat` is not older than
  what was there when it began, and the retriever it refers to not older than that (`Ordered`, `Suits`). The hard
  part is what is shared: a cache entry keyed by three contents must serve whoever looks it up (`Serves`), also after
  another thread put a connection into it (`Joins`: a connection that is about to be assigned suits every entry and
  every search of that retriever), and a retriever that is loaded but not stored is nobody else's (`Own`).
  `CalmSearchIsExact` follows from both bounds: in calm, what is found is neither older than the files nor newer, and
  an age determines the content (`AgeTells`).
* `SemanticSearch_proofs`: `SearchTypeCorrect`, `TurnsAreBounded`, `ToolsKeepTheCache`. `TurnBounded` speaks of threads, the
  semaphore of calls, and a cancelled turn's threads go on without holding it. `FanoutInv` counts a turn's orphans along
  with its holders (`Busy`), which is sound because only a turn that hands out no more slots has orphans (`TurnInv`),
  and says that threads run different calls and that the queue holds no call twice. The cache's invariant is carried
  along (`SearchInv`), so its theorems hold of searches that tool calls make.
* `Builder_proofs`: `TypeCorrect`, `CapsHoldAlways`, `TextsHold`, `LoadsWholeHolds`, `OwnerKeeps`. `Good` is a predicate on the
  directories rather than on the state, since a create first sweeps and then writes: it is shown of the swept
  directories, and of what is written into them. `DirInv` says of each directory that its texts are its owner's and
  its files are complete, unless a cut sweep left it or it never had an owner (`mixed`).

* `Algorithms_proofs`: `AssemblyLawHolds`, `UsageLawHolds`, `ReadingLawHolds`, `RankingLawHolds`, `EvalLawHolds`,
  `ChunkLawHolds`, for streams, turns, files, corpora, rankings, runs and documents of any size. The prover has no
  induction for an arbitrary formula, so induction is over sets: a set of numbers that is not empty has a least element
  (`LeastNat`), hence what holds at 0 and is carried from i - 1 to i holds up to n (`Upwards`). A function defined by
  recursion over 0 .. n is a `CHOOSE` of one that satisfies its equation; `Recursion` builds one from a step function
  on a set of states, so the chosen one satisfies it too, and `RecursionStays` keeps it in that set. Each loop of the code
  is then a recursion whose states carry the loop's invariant: the fragments merged so far (`AssemblyLaw`), what a turn
  owes so far (`UsageLaw`), pages that join without a gap, line ends that only grow, so that what is cut is a tail, and levels of directories
  (`ReadingLaw`), sums of fractions
  that stay between n times their bounds (`EvalLaw`). Sorting is by a relation: an order on a finite set has one listing
  (`Sorting`, `OneOrder`), so what is returned first is what is best, and both lists of a fusion may change places.
  `ChunkLaw` has three loops. What `_split_by_h1_h2` knows after i lines is `Scanned`: the headings over the present
  section are those a reader sees over each of its lines, and the sections before it tile the lines before it (`Tiles`).
  What `_chunk_section` has cut is `Cut`: chunks that start one behind the other and leave nothing out (`Linked`); each
  starts a line further on at least, so after as many turns as the section has lines one has reached its end
  (`CutEnds`). `ChunksOf` puts the sections together: of chunks in two sections the headings differ, since a section's
  heading names its own first line (`OtherHeading`). The laws' theorems have as hypothesis only the assumptions of the
  module on its constants, which the run evaluates for its instance; that the input stays one (a sequence of replies, a
  tree of files) is the inductive invariant, and the law follows from it by the lemmas above.

Model-checked only: liveness, `TurnsSettle`, `CallsAnswered`, `ForceRepairs`, which is out of the prover's reach. Every
other property of a passing run is the statement of a theorem. The refuted statements are TLC's, as a counterexample is
all they need.

## Plan

Done: every module above, and theorems for every property but liveness. What would add most from here:

1. Two builds of one profile at once, should the indexer ever be run by anything but hand.
2. The builder page's own state (`web/builder/builder.js:225`, `:399`), where answers may overtake each other.

## Not modelled

* Text, wording, logging, HTTP, rate limits (a third-party limiter), authentication of providers, tool schemas and cache
  breakpoints: formatting without state, or external.
* Provider registry and configuration: constants and a cache that never changes.
* Tool bodies other than those of the knowledge base: each is arithmetic, string work or one request; `SemanticSearch` has
  them succeed or fail.
* Skills' frontmatter and profile texts (a body that contains `---` does not survive its round trip; this is parsing of
  text, and no state depends on it). `inject_kb_manifest`'s memo only concerns bundled profiles, whose files do not
  change.
* Two builds of one profile at once (builds are run by hand), embeddings and PCA (numeric), the command lines.
* The LLM-judged graders and the eval harness around them: offline, sequential, and dependent on a model's answer.
* The web pages and deployment.

PROJECT.json gives the reason per component.
