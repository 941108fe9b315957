# Verification of mat-copilot

mat-copilot compares what a user intended (a plan document and an interview) with what
was built (uploaded artifacts) and reports the drift. A FastAPI backend keeps one session
per user in memory, calls LLM agents, and runs two kinds of asynchronous jobs; a React
frontend uploads, interviews and polls.

This directory holds TLA+ models of the backend's and of the frontend's behaviour, the TLC
runs that check them on small instances, and TLAPS proofs for every size of instance. Run, in
this directory:

    tlc -config SessionJobsSafety.cfg MCSessionJobs     (all five SessionJobs*.cfg)
    tlc -config InterviewEngineSafety.cfg InterviewEngine
    tlc -config MCParts.cfg MCParts                     (about two minutes with two workers)
    tlc -config InterviewPageStaleTree.cfg InterviewPage
    tlapm SessionJobsProofs.tla                         (and every other *Proofs.tla)

Line numbers below are those of the source at the modelled commit; `PROJECT.json` maps
every definition to its lines.

## 1. Inventory

| Component (source) | State it keeps | Operations | Interacts with |
|---|---|---|---|
| Job runner (`services/jobs/runner.py`, `plan_extraction.py`, `api/routes/jobs.py`) | `JobRecord`: kind, status, `cancel_requested`, checkpoints, completed stages; `active_job_id` | `start`, `retry`, `cancel`, `_run` | creates one asyncio task per start or retry; writes the session's status and intents; touches the store; uploads the report blob |
| Analysis pipeline (`services/jobs/pipeline.py`, `demo.py`) | checkpoints; the session's schema, normalized intents, evaluation items, charts, report | six stage blocks, each skipped when completed | awaits agents; reads artifacts and intents of the session |
| Session state and its handlers (`store/state.py`, `api/routes/plan.py`, `artifacts.py`) | status, plan, intents, artifacts, `lock` | upload plan, submit artifact | starts the extraction; archives to blob under the lock |
| Interview engine (`services/interview/engine.py`, `fallback.py`) | question tree, answers, bonuses used, time limit, reason of the end | start, answer, complete, read | awaits agents under the lock; falls back to fixed questions |
| Session store (`store/memory.py`, `api/routes/sessions.py`) | sessions, tombstones | create, get, touch, sweep, delete | every handler gets its session here; a finished analysis touches it |
| Blob archive (`store/blob.py`) | blobs by prefix | upload, delete prefix | failures are swallowed |
| Rate limiter (`services/rate_limit.py`) | times of hits per address | check | session creation |
| LLM client and agent runtime (`agents/`) | none between calls | call with timeout, retries, parsing and validation of the answer | pipeline, interview, extraction |
| Sandbox parser (`services/sandbox/parser.py`) | none | parse one file | plan and artifact uploads |
| Frontend API client (`shared/api/apiClient.ts`, `endpoints.ts`, `errors.ts`) | per call: attempt, retry after 429 used, caller's signal; the mock handler installed or not | `request()` with attempts, time-outs, two kinds of retry, abort | every page and the poller |
| Job poller (`shared/api/polling.ts`) | timer, request in flight, ETag, failures in a row | start, refresh, stop, visibility change | `getJob`; calls back the home and the analysis page |
| Session, interview and report stores (`stores/`) | session, token, status, active job; question tree and `submitSeq`; report | setters | written by pages, by bootstrap, and by answers that outlive their page |
| Bootstrap, router, shell and pages (`app/`, `pages/`) | flags, phases, lists of calls per page | create or give up a session, upload a plan, answer, submit artifacts, start, watch, cancel and retry an analysis, read the report, redirect | the API client, the stores, each other by navigation |
| Mock backend (`shared/api/mock/mockBackend.ts`) | one session: status, questions, jobs, artifacts | the server's handlers, synchronously; a job moves on when it is asked for | in place of the server in the sample |
| Frontend pure functions (`shared/utils`, `features/interview`, `features/report`) | none | validate, parse a CSV, lay out and walk the questions, divide the document, number footnotes | pages |
| Start-up, errors, observability, configuration | none | wiring, formatting | |
| Infrastructure, prototype | | deployment descriptions, a static page | |

What makes them hard, and what correctness means for each:

* **Concurrency.** Everything runs on one event loop, so code between two awaits is
  atomic. Handlers of one session exclude each other by `state.lock`; job tasks do not take
  the lock. A handler that holds the lock over an await (plan upload, interview,
  artifact submission) and any number of job tasks interleave at every await. Correct
  means: verdicts, stages, status, active job and intents stay consistent in every order.
* **Cancellation is a flag.** `cancel` answers at once and the task notices at its next
  stage boundary. Until then a retry clears the flag: two tasks then execute one record.
* **Check, await, act.** The upload checks the status before it reads its body
  (`plan.py:24` against `plan.py:43`), the pipeline tests the schema before it awaits a new
  one (`pipeline.py:254`), the interview becomes done before its intents are derived
  (`engine.py:255`).
* **Failure.** Any agent call may fail at any await; the job must fail and give the
  session back. Nothing is persisted, so there is no recovery after a restart: the sweep
  of orphan jobs at start-up walks an empty store.
* **Timeouts and retries** are within one agent call (`copilot_client.py`) and in the
  frontend's client and poller. An attempt that timed out may have been executed.
* **Answers that outlive their page.** A React page's continuation runs after the page was
  left, its session given up or deleted, or another call of the same kind was sent; some
  calls are aborted, some are not, and a body that is being read is never aborted. Correct
  means: the visitor is shown what the server has, is never sent in a circle, never left
  with a button that stays disabled, and never waits for a job that nobody polls.
* **Limits.** Artifacts, questions, sessions, tombstones, hits per minute.

`PROJECT.json` lists the hazards at their lines, with the properties that cover them; for
those without a property a note says why.

## 2. Modules

| Module | What it is |
|---|---|
| `SessionJobs` | one session: upload handler, interview and artifact handlers by their effect on the session, job handlers, job tasks, pipeline control |
| `SessionLifecycle` | the abstract specification: what a client may rely on about the session's status |
| `MCSessionJobs` | symmetry for TLC |
| `SessionJobsProofs` | the inductive invariant and the theorems |
| `InterviewEngine` | the interview of one session: tree, turns, watchdog, completion, errors |
| `InterviewDialogue` | the abstract specification: what a client may rely on in an interview |
| `InterviewEngineProofs` | its inductive invariant and theorems |
| `SessionExpiry` | the backend's store of sessions: lifetime, sweep, tombstones, deletion, late tasks |
| `RateLimiter` | the sliding window that admits the creation of sessions |
| `StoreProofs` | theorems about both |
| `LlmCall`, `AgentCall` | one call of an agent; the abstract specification of what the jobs and the interview rely on |
| `ApiErrors`, `ApiClient`, `ApiCall` | the client's errors; one call of `request()`; the abstract specification of what a call promises |
| `JobPoller` | the poller of one job |
| `CallProofs` | theorems about `ApiClient`, `JobPoller` and `LlmCall` |
| `SessionStore` | the browser's session store, as operators |
| `ClientRouting` | pages, redirects and the late answers that move the visitor |
| `HomeSession`, `PlanUpload` | the home page: its session; its plan |
| `InterviewPage`, `InterviewPageProofs` | the interview page over the interview store; its theorems |
| `ArtifactsPage` | the submission page |
| `AnalysisPage` | the page that waits for a job |
| `ReportPage` | the report page |
| `PageProofs` | theorems about these three pages, `PlanUpload` and `ClientUtils` |
| `MockBackend` | the backend in the browser, against `SessionLifecycle` |
| `BrowserProofs` | theorems about `ClientRouting`, `HomeSession` and `MockBackend` |
| `QuestionTree`, `ClientUtils`, `FrontendFunctions` | the client's pure functions, and what they must do for every small input |
| `MCParts` | the machines from `SessionExpiry` to `MockBackend` side by side for TLC, with fairness and `BusyEnds` |
| `PartProofs` | theorems about that composition |

### SessionJobs and the code

A step is the code between two awaits. `pc[t]` says where task `t` is suspended:

| `pc` | suspended at |
|---|---|
| `spawned` | created by `create_task`, not yet run (`runner.py:41`, `:54`) |
| `extract` | `await run_plan_extraction` (`:90`) |
| `schema` | `await build_normalization_schema` (`pipeline.py:254`) |
| `stage` | an agent call of stage `at[t]` |
| `archive` | `await self.blob.upload` after the verdict (`runner.py:117`) |
| `done` | returned |

`lock` names the handler that holds `state.lock` over an await; every other handler step
needs it `free`. `StorePlan`/`StartExtraction`, `BeginInterview`/`QuestionsReady`,
`CompleteInterview`/`DeriveIntents` and `BeginSubmit`/`AppendArtifact`/`EndSubmit` are
the halves of such handlers.

Data is abstracted to what the properties tell apart. A checkpoint is the task that wrote
it, a report the task that published it, a schema the task that built it; an intent is where
it came from (a plan or the interview) and whether it names source questions; an
artifact counts, and whether one was parsed. `Completed(j)` is derived from the
checkpoints, since `_complete_stage` runs in the same step that stores one.

Abstractions and their direction:

* The blob archive is taken as enabled and demo documents as absent. Otherwise awaits are
  gone: the same code in fewer interleavings.
* A task that is created runs in the loop's next round, before most new requests; the
  model lets anything happen first, which adds interleavings (a cancel that finds a job
  QUEUED, for one).
* Several awaits of one stage (six parallel DRIFT agents, the artifacts of INGEST) are one
  suspension: between them the code writes nothing the properties look at.
* Requests that are refused and reads change nothing and have no action.
* `PlanSourced` says whether an extracted intent may carry source questions. The prompt
  never asks for them; the parser would accept them. Runs take `{FALSE}`; the proofs take
  any subset of `BOOLEAN`.

### SessionLifecycle and the refinement

Three variables: the status, the set of workers executing a pipeline, whether a report is
published. The mapping takes tasks suspended in a stage as the workers and
`report # None` as published. It says what the state diagram of TRD 4.3 becomes
under retries and cancellation: the interview is passed once, `ANALYZING` is entered only
by a worker that starts, `REPORT_READY` only by one that delivers (or finds the report
there), and a published report is never lost. `LifecycleKept` is that specification as a
property of `SessionJobs`.

### InterviewEngine and the code

All handlers of the interview hold `state.lock` from start to end, so one turn is under way
at a time; `turn` is the await it is suspended in:

| `turn` | suspended at |
|---|---|
| `roots` | the root questions (`engine.py:208`) |
| `assess` | `assess_answer` (`:309`) |
| `followups` | `generate_candidates` and `validate_candidates` (`:231`) |
| `derive` | `derive_intents` (`:267`) |

What can change during an await is the clock (`TimePasses`) and, by the extraction's task
that takes no lock, the intents (`PlanChangesIntents`). A question is its number in
`question_order`; an unused number has status `none`. `AddNodes` is `_add_nodes`, `Offer` and
`OfferNothing` are `select_next_question` by its two results, `EndTurn` is the end of
`submit_answer`; the selection sees the questions added in the same step, so these operators
read `count'`, `parent'` and `kind'`.

Abstractions and their direction:

* An agent's answer is any number of candidates up to what was asked for, of any kinds; an
  assessment is whether a required follow-up is needed and whether the score exceeds the
  threshold. An unavailable agent is replaced by the fallback, whose questions, score and
  intents are among these. Generation and validation are one await, since nothing is written
  between them.
* `Malformed` says whether an agent may reply in a wrong shape. A JSON reply whose items are
  not objects raises `AttributeError` in `runtime.py:375` or `:392`, which is not the
  `LlmUnavailableError` the engine handles; the handler gives up the lock where it stands.
* The number of candidates of one turn and of roots is one constant, `Batch`, as both are 3.
* Time is whether the limit has been reached. Changing the settings may take that back or
  bring it about.
* Of intents only "none or some" is kept, for the guards that ask for it, and a change of
  plan may turn it either way: more than the code allows once interview intents exist.
* `INTERVIEW_DONE` stands for the later statuses too, in which the interview's handlers are
  refused or change nothing.

### InterviewDialogue and the refinement

The status, the questions with an answer, and the question put to the user. A question is
asked only when none is before the user and it has no answer; an answer is for the question
asked; the end is final. The mapping reads the three off the questions' statuses.

`SessionJobs` and `InterviewEngine` describe the same session from two sides and are not
composed: what passes between them is the status and whether there are intents, and each
module lets the other side's part change freely.

### SessionExpiry and RateLimiter

`SessionExpiry` has the store's two containers in their order (`states`, `tombstones`), the
times of every state object, which outlives its entry, and the clock in hours. Its actions are
`create_session`, a request (`get` with lazy expiry, then `touch`), `sweep`, the user's deletion, and the start and the end of an analysis, whose task
touches the object it kept even when the session has left the store. `told` is what the last
request was answered, so that `GoneForGood` can say that a session that is gone never answers
again, and `LifetimeKept` that it does not go before its time. A request's get and its answer are
one step: one that holds the session's object when the user deletes it may still be answered, which
the model leaves out. Notes: the change of status to
`ANALYZING` is merged into the start; a new analysis shortens the lifetime that had grown from
24 to 72 hours by a report; a late analysis may revive a session that is over but not swept;
a wrong token changes nothing and is left out.

`RateLimiter` is `check()` with the clock in ticks, several to a second, so that a hit can be
just inside or just outside the window and `Retry-After` has something to round up.
`WindowHonoured` says that no window holds more admissions than the limit, though addresses
are dropped, and that a refused address that waits as told is admitted.

### LlmCall and AgentCall

`LlmCall` is `_call_with_retry` and, around it, the repair of a reply that holds no JSON:
`llmPhase` is where the coroutine is suspended (an attempt, the closing of a cancelled one,
the back-off). An attempt may fail, time out or be answered whenever it is under way; the
lengths of time-outs are left out. `AgentCall` is what `SessionJobs` and `InterviewEngine` take
an await of an agent for: it ends with an answer the model gave or as unavailable, after at
most `MaxRequests` requests. The tokens of a reply that came after its time-out are counted by
no one. With the defaults of the code one call may take twice 3 × 15 s and the back-offs: the
constant `TURN_BUDGET_SEC` = 45, which the code does not use, is not kept.

### ApiClient, ApiCall and JobPoller

`ApiClient` is the loop of `request()`: `phase` is the await it is in (`sent`, the body of an
error, the body of an answer, one of the two waits), `fetches`, `onWire` and `executed` are the
server's side, which may execute a request after the client has given it up. Timers fire
whenever they are armed. The time-out is disarmed before the body is read (`apiClient.ts:221`)
and the mock's answers do not look at the signal. `ApiCall` says what a caller may rely
on: a call that is not idempotent goes over the wire once, nothing is sent after an abort,
and a call closes once, well only if someone has executed it.

`JobPoller` is the poller of one job: the timers that will fire, the handle of the last, the
calls on their way, and the job as the number of its version; equal ETags are equal
versions. `OneChain` says that the chain of timer and request neither forks nor breaks under
hiding, showing, refreshing and stopping; `NewsInOrder` that the page sees versions in order and
nothing after `stop()`; `EndNoticed` that a job that has ended is noticed. One `getJob` of the
poller is one whole call of `request()`: four failures in a row may be 16 requests on the
wire before the page hears of an error, where TRD 7.6 speaks of three.

### ClientRouting and SessionStore

`SessionStore` gives the store's setters and the two maps from statuses to routes.
`ClientRouting` has the route, the store, whether bootstrap has ended, and which calls are on
their way whose continuation writes the store or navigates (`AskedOn` lists them by page). The
session moves at the server by its worker, by another tab and by the clock, so `Follow` may
bring any status, and a call may be answered 404 or 410 long after its page was left (`Gone`).
`redirect` is the pages' own redirects and nothing else. A late 404 of a session that was given up
clears the token of the one created meanwhile; the visitor then stands on the expired page.

### The pages

Each page is one record with its flags, phases and the calls on their way. A call has `mine`
(its component is still mounted) and, where the page aborts it, whether its signal is
`live`. What the code does at unmount, in effects and in `finally` is in the actions that cause
it.

* `HomeSession`: creation in the effect guarded by `startedRef`, retry, "새로 시작", the sample's
  chain over the real and then the mock backend, the saving of the settings after a pause. `fits`
  says whether a call's token and backend belong to the session it was made for.
  `HomeRecoverable` exempts one dead end of the code (`deletedHere`): after the data were deleted on the
  home page itself `startedRef` is still set, so no session is created and only the sample's button
  leads on.
* `PlanUpload`: an upload that replaces another (which is aborted, unless its body is being
  read), the poller of its extraction, the pollers left over by a page that went
  (`strays`), the reading of the session after success. `UploadWatched` exempts a page with no file
  selected and an extraction that was cancelled, which the code does leave unwatched.
* `InterviewPage`: `nodes`, `active`, `submitSeq` and `submitting` are the interview store's and
  outlive the page; a submission keeps the tree it would restore (`orig`). The server is
  how many questions of a session are answered and whether it is over.
* `ArtifactsPage`: the chains that send files one after the other, a queued file `behind` the one of its
  chain that is going up, links beside them, the count of accepted artifacts, the start by hand or by the sample. An
  upload that is accepted while the list is loaded is counted twice until the next load
  (`ArtifactsPage.tsx:176`).
* `AnalysisPage`: the poller is on or off; `job` is the server's job and `shown` what the page
  shows. Cancelling stops the poller first; a refused cancellation or retry reads the session.
  Calls of earlier visits end whenever they will. In one order of events the code leaves the page
  without a poller: a retry is sent and the page left; the page is entered again while it is on its
  way, and tries again; the job runs and fails once more, but the visitor cancels before the poller
  shows it; the cancellation is refused, and the first retry reaches the server before the session is
  read. The session is `ANALYZING` again, so
  `routeFromSession` navigates to the page one is on, which mounts nothing and starts no poller. The
  model takes this step; `overtaken` remembers it, and `AnalysisWatched` is not claimed from there until
  the visitor cancels, polls again or leaves. Drop `~watch.overtaken` and TLC shows the order.
* `ReportPage`: the three panels, loaded together and tried again one by one.

`MCParts` checks of all of them together that no flag stays raised (`BusyEnds`).

### MockBackend

One handler is one step, as the code is synchronous; `getJob` moves the job on. Its session
follows `SessionLifecycle` (`MockFollowsLifecycle`) with its jobs as the workers. It does not in
three places, which the property names as exceptions: where a session is created or deleted; once
a plan is uploaded, which the mock shows as `ANALYZING` at once; and where the questions are started
after the completion (`StartedLate`). The mock accepts `complete` in a session whose interview was
never started (`mockBackend.ts:320-347`) and then the start (`250-258`), which takes
`INTERVIEW_DONE` back to `INTERVIEWING`; the server refuses that start. One more difference does not touch the
lifecycle: the report is 404 once a new analysis has begun.

### Pure functions

`FrontendFunctions` holds assumptions that TLC evaluates at the start of every run that extends it, `MCParts` that is:
`ListedOnce`, `DrawnApart`, `KeysReachAll` (every tree of four questions), `CsvReadBack`,
`CsvPlain`, `ChartsHaveNumbers` (every short CSV and table), `FootnotesInOrder`,
`DocumentShownWhole`, `SelectionNamesBlock`, `ThresholdOnSlider`, `ChecksAtLimits`. They compare
the functions with what was written down, drawn or chosen, not with a second implementation.

## 3. Runs

| Run | Question | Instance | Result |
|---|---|---|---|
| `jobs_safety` | Do stages, verdicts, executors, active job, intents and status stay consistent in every interleaving? | 2 jobs, 3 tasks, 2 plans, 4 stages, 1 artifact | holds, some 580 000 states up to symmetry |
| `jobs_liveness` | Does everything that starts end? | 2 jobs, 2 tasks, 1 plan, 6 stages, no symmetry | holds, some 100 000 states |
| `one_analysis` | Is there one analysis at a time in a session, as TRD.md:367 says? | as `jobs_safety` | violated |
| `completed_stage_kept` | Does a retry leave completed stages alone, as SCHEMA/schema.md:57 says? | as `jobs_safety` | violated |
| `plan_fixed` | Is the plan fixed once the interview starts, as plan.py:25 says? | as `jobs_safety` | violated |
| `interview_safety` | Does the tree keep its limits and order, does the reason fit, does the client see a dialogue, with handlers that may fail at any await? | 5 questions, depth 1 (2 with a bonus), batches of 2 | holds, some 400 000 states |
| `interview_liveness` | Does a waiting user have a question, a completed interview its intents, and does an interview end? | 4 questions, depth 1, batches of 2, replies in the right shape | holds, some 39 000 states |
| `intents_lost` | Are the intents derived whenever the interview is completed, as fallback.py:52 says? | as above, replies of any shape | violated |
| `nothing_open` | Is an interview with all questions answered over, as TRD.md:494 says? | as above, replies of any shape | violated |
| `after_limit` | Are only required questions put to the user once the time is up, as TRD.md:492 says? | as above, replies in the right shape | violated |
| `parts` | Do the client's machines, its pages, the store of sessions, the limiter and the agent's call each keep their promises, and does every call lower the flag it raised? | thirteen machines, one per behaviour | holds, some 285 000 states |
| `stale_questions` | Does the page show the questions of its own session only, as TRD.md:1258 has it? | two sessions of two questions | violated |

**Bounds.** Two jobs: every interaction in the code is between a record and one other
(an analysis beside an analysis, an extraction that supersedes another). Three tasks:
two on one record after cancel and retry, and one on the other. Two plans: one
replaces the other. Four stages keep a first stage, NORMALIZE, a middle one and REPORT; the
control treats the stages between NORMALIZE and REPORT alike, and the liveness run and
the proofs have six and any number. One artifact reaches the limit. A job or task identity
is used once, so the runs are finite; `StorePlan` is guarded by a free identity of each
kind, since the handler that stores a plan goes on to start a job.

In the interview, five questions are two batches and a part of a third, so that the cap cuts
a batch; a limit of depth of 1 has questions at the limit, and below it by a bonus; batches
of two mix kinds. The proofs have no bounds.

`parts` starts in one of thirteen initial states (`part`) and runs one machine; the other
machines keep their initial state, so its states are the sum of theirs, not the product.
The machines do not share state in the code but through calls, which each of them has as
the other side's nondeterminism. Its bounds, by machine:

* client: three endpoints (one idempotent), three refusals, the code's three retries;
  poller: three versions, two of them terminal (a failed job runs again by a retry), the code's three failures.
* routing: one call beside the boot (`MaxAsks`); the proof has any number.
* home: two sessions, two calls at once, one sample chain; the proof has any number of sessions and calls.
* plan: two accepted uploads, one aborted upload on its way; the proof has any number of uploads accepted.
* interview: one session, two questions, two submissions, one load and one early end on its way
  at a time; the proof has any number of the first four. Larger instances were checked by hand, with early
  ends kept apart from loads: two sessions (3.4 million states), and three questions, four
  submissions and two loads (2.7 million).
* artifacts: two files, two calls, two artifacts, one link per tab; files that validation refuses are left out.
* analysis: the page may be left and entered again while its calls are on their way, one of each kind and
  visit (this one, an earlier one) at a time.
* mock: two jobs, one artifact. expiry: two sessions, lifetimes of one and two hours, one
  tombstone, one analysis of a session at a time. limiter: two hits in two seconds of two ticks,
  one address remembered. llm: the code's two retries.

**Deadlock** is not checked: a session at rest, with its identities used up, may stop, and so
may a visitor.

**Fairness.** `WF(TaskStep(t))` for each task and `WF(HandlerResumes)`. The event loop runs
what is ready, and an awaited agent call ends, by an answer or an error, because each
attempt has a timeout and attempts are counted (`copilot_client.py:87`); a blob upload ends
because its errors are swallowed and its client has timeouts. No fairness is assumed of
users: no request has to come. Fairness is on a task's whole step, not on single actions,
so an agent is never assumed to succeed.
The interview has `WF(AgentReplies)` for the same reason. `InterviewEnds` needs a user who
keeps answering; that is a premise of the property, not of the specification.

`MCParts` has weak fairness of each kind of call by itself (`CallEnds`), or one kind could starve
another. That a call ends is what the machine of the client shows: `BusyEnds` for `part = "client"`
says that `request()` settles if its timers fire, its waits end and its body, once begun, is read or
breaks. That an agent's call ends is shown the same way (`part = "llm"`); it assumes that
a cancelled attempt closes its session, which `wait_for` waits for. What `SessionJobs` and
`InterviewEngine` assume of agents rests on it. Nothing is assumed of visitors, workers or
clocks: a poller that watches a job that never ends polls for ever.

**What the violations show.**

* `one_analysis`: cancel an analysis, start another, retry the first. `retry` looks at its
  own record only (`runner.py:44-55`), while `start_analysis` looks at all. Both pipelines
  write the same session fields.
* `completed_stage_kept`: cancel a running job and retry it before its task reaches a
  boundary. The flag is false again, the old task never notices, and both tasks execute the
  rest of the pipeline; a stage one completed is stored again by the other.
* `plan_fixed`: an upload that passed its status check is still reading its body when the
  interview starts; it then replaces the plan under the lock without a second check.

In these three, the safety properties of `jobs_safety` still hold: the two pipelines waste
work and overwrite each other, but leave no job or session hanging.

* `intents_lost`: the status is INTERVIEW_DONE before the intents are awaited, and only
  `LlmUnavailableError` leads to the fallback. After any other error the session is done
  without intents; completing again returns at `engine.py:381`, and without a plan the
  analysis is refused for ever.
* `nothing_open`: an answer is stored before the agents are awaited. When the reply to the
  last answer has a wrong shape, the interview has no open question and is not over: the
  repeated answer returns without looking again, and start answers 409. Only the user's own
  early completion gets out.
* `after_limit`: an answer is assessed while there is time (`timed_out`, `engine.py:326`), and its
  follow-ups are awaited, an agent call with its retries. The limit passes meanwhile; the old value is used at
  `engine.py:349`, the tree grows and an optional question goes out. The property is about the turn of an
  answer only: the start of the interview and its repetition (`engine.py:208-224`) read no limit at all,
  and what they offer late is not counted against it.

* `stale_questions`: `InterviewPage.tsx:124` loads the tree only when the store holds no question,
  and only the deletion of the data resets the store. After "새로 시작" the next session's interview
  shows the questions of the last one, whose answers are then refused.

Beside the runs, `NoFalseAnswered` says where it holds: within a browser's first session
(`talk.opened <= 1`) and without the sample. TLC finds it violated otherwise. The sample's timers (`QuestionCard.tsx:51-72`) send an
answer while another is on its way; when the second fails, it restores the tree it kept, with
the tick of the first, which may have failed too. And a submission that outlives the deletion of
its session meets a `submitSeq` that began again: its answer is merged into the next session's
tree (`InterviewPage.tsx:222`). To see them, drop `~talk.sample`, or drop `talk.opened <= 1` with `LastTalk = 2`.

`QuestionOffered` and `IntentsDerived` hold when agents reply in the right shape or are
unavailable: the fallbacks do what they are for.

## 4. Proofs

`SessionJobsProofs` proves, for any finite or infinite sets of jobs, tasks and plans, any
number of stages from two and any artifact limit (`ConstantsAssumption`), that `Spec`
implies every invariant of `jobs_safety`, `SourcedIntentsKept`, and `LifecycleKept`.

None of the invariants is inductive by itself. `IInv` adds to them:

* `TaskShape`, `JobShape`, `PlanPresent`: where a task is suspended agrees with the kind of
  its job, the plan it read and its stage. Without these a step of an unreachable state
  breaks types.
* `SchemaBuilt`: NORMALIZE is completed only with a schema at hand. A retry that skips
  NORMALIZE enters a later stage without looking at the schema, so `StagesInOrder` needs it.
* `ReportPublished`: a completed REPORT has a published report, by a task that exists. The
  retry of a job that was cancelled after its last stage announces REPORT_READY with no work
  at all, so the announcement rests on this alone.
* `ActiveAtWork`: a cancelled job is active only while another of its tasks is at work (or
  the upload handler is about to start a new job). A task skipped before its first step
  returns ahead of `finally` and leaves `active_job_id`; this is why somebody else clears it.

The proof of each step has a frame lemma for the quiet actions (`<1>0`), one step per
action of a task, and one for the handlers. Helpers state what recording a stage completes
(`RecordStageCompletes`), that walking the skip-blocks enters stages in order
(`NextStageInOrder`, `NothingAfterCompletes`), and that a pending job keeps its executor
(`ExecutorKept`). `IInv` was model-checked on the instance of `jobs_safety`, with both
values of `PlanSourced`.

`InterviewEngineProofs` proves, for any caps on questions, depth and batch and with
`Malformed` either way (`InterviewAssumption`), every invariant of `interview_safety` and
`DialogueImplemented`; and, with `Malformed` false, `QuestionOffered` and `IntentsDerived`
(`InterviewGoesOn`). Its `IInv` adds `Made` (exactly the questions in `question_order`
have a status), `OneActive`, and `TurnShape`: in a turn no question is active, the turn's
question has its answer and no follow-ups yet, and a turn that awaits follow-ups has room
below the limit or a bonus used. `ExpandedOnce` rests on the last but one, `DepthEarned` on the
last. `AddNodesFacts`, `OfferFacts`, `OfferNothingFacts` and `EndTurnFacts` say what the
helpers do to the tree and the statuses; `TreeStays` and `TreeGrows` carry the tree's
invariants over; each action then has a lemma of its own. `IInv` was model-checked on the
instance of `interview_safety`.

`CallProofs` proves, for any endpoints, refusals and number of retries, that the client
implements `ApiCall`. Its invariant `CInv` says of each phase what has been sent (`Called`), that
only an idempotent call is ever tried again (`RetriesAllowed`), that every request was paid for by a
retry of one of the two kinds (`FetchesPaid`), and that an answer being read was executed
(`ServedOnce`). It proves `OneChain` and `NewsInOrder` for any job and any number of tolerated
failures: `JInv` adds that an answer on its way is no older than what is shown (`AnswersAreNews`),
that a verdict has stopped the poller (`VerdictStops`) and that failures are counted below
the limit (`FailuresTolerated`). And it proves that `LlmCall` implements `AgentCall` for any
`retry_count`: `LInv` counts the requests of the run before the repair (`Requested`) and the replies
(`Accounted`).

`StoreProofs` proves `WindowHonoured`, `LifetimeKept` and `GoneForGood` for any limit, window, lifetimes
and caps. `RInv` relates what `RateLimiter` remembers of an address to the log of its admissions: the
record is the end of the log, and what it lacks has left the window, popped or dropped with its
address (`Recent`); a promise is the moment at which the hit that makes room leaves
(`PromiseKept`). `ExpiryInv` says that a session is held, buried or gone, never two of them
(`InOnePlace`), that what the user was told is still true (`ToldTheTruth`) and that the lifetime runs
from the last activity (`LifetimeFits`). Half of the module is about lists: what `Pruned`, `Only` and
`Capped` keep, in which order, and each member once.

`PageProofs` proves `AnalysisWatched` (the exempted order included as a step) and `UploadWatched`. `WInv` adds who owns the page's
calls (`CallsOwned`: a raised flag has a call of this visit, and a stopped poller a cancellation), and
that a refused cancellation or retry that still looks on has a call or a poller (`RefusedLooksOn`, `RetryLooksOn`). `PInv`
adds that the job being extracted is this visit's (`ExtractionOwned`). Of the submission page and the report
page it proves what makes `BusyEnds` true of them: a queued file has one of its own chain going
up before it, and a flag or a panel that is up has a call of this visit on its way that lowers it
(`SubmissionAwaited`, `PanelsAwaited`), for any number of files, visits, retries and late
answers. And it proves four of the assumptions of `FrontendFunctions` for every input:
`ThresholdOnSlider`, `SelectionNamesBlock`, `FootnotesInOrder`, `ChartsHaveNumbers`.

`BrowserProofs` proves `RedirectsEnd`, `HomeRecoverable` and `MockFollowsLifecycle`. The first needs only
that the store's values fit together in type, which every late answer preserves, and a lemma on the
redirects from any such store (`TwoRedirects`); `CallsMove` bounds the calls on their way for the
type. The second is an invariant of the page alone (`Good`): while `startedRef` is set, the store has
a session, or the page's creation is alive, or its error is shown. The third needs `MInv`: jobs that
have not ended lack a stage (`JobsFit`), only the last question is open (`QuestionsFit`), and without
a plan the session's status tells how far the interview is (`SessionFits`).

`InterviewPageProofs` proves, for any number of sessions, questions, submissions, loads and early ends,
that the page keeps its type, and `NoFalseAnswered` (`FirstTicksAreAnswers`), however many sessions
come after the first. Its invariant says that there and
without the sample one submission is on its way at a time, that the tree it would restore shows no
tick the server does not have (`Honest`), and that a load has seen nothing the server has lost
(`LoadsSeen`).

`PartProofs` carries the theorems about each machine over to the composition that the run `parts`
checks: its type invariant (`PartTypeOK`) and every safety property of that run
(`PartsKeepTheirPromises`), for every value of the constants. The lemma between them, `EachByItself`,
only reads off how `MCParts` is composed.

**Everything that starts is finite.** Liveness under fairness is out of the prover's reach, and the half
of it that needs no fairness is proved, for every value of the constants: there is a measure that
each step of a task, of an interview, of a call of `request()` and of an agent's call raises, that no
other step lowers, and that has a bound (`EveryTaskIsFinite`, `EveryInterviewIsFinite`,
`EveryCallIsFinite`, `EveryAgentCallIsFinite`). A task enters a stage once, retries and other
tasks on its job included; an answer is worth three steps, and answers are as many as questions; a
retry starts a round, and rounds are counted. What is left to fairness, and so to the runs, is that
a step that can be taken is taken, and that one can be. The inductive invariants are those of the
safety theorems; both measures of the backend were model-checked on the instances of `jobs_safety`
(with two tasks) and `interview_safety` (with four questions) first.

**What the proofs assume.** The constants' assumptions, named in the module that declares them, say no
more than that bounds are natural numbers and that a limit or a window is not zero; the code's
constants satisfy them. `MaxAsks`, `MaxSessions`, `MaxPlanJobs`, `MaxMockJobs` and the other bounds of
the runs are such numbers, so the theorems hold for each of them. `LimiterAssumption` has a stale address
outlive the window, `ExpiryAssumption` the longer lifetime for a report; both are so in the code.

**Where induction is needed** (what `Only` makes of a list of any length, the first file of a chain, the last
column of a header), the argument is by the least counterexample: `WFMin` of the library gives one for any
set of naturals (`LeastNatural`, `FirstFile`, `FirstOfSome`). The library's induction theorems take an
operator as a parameter, which the provers cannot instantiate.

**What the proofs changed.** The chain of a file used to be a number, taken again once free. With three
files that number could be that of another chain, and the queue of files was not inductive; TLC, with
two files, could not see it. A queued file now names the file it waits behind. `Pruned` is stated by what it keeps and `Only` is a
recursive function rather than a fold, so that facts about them can be proved.

**Only model-checked:** the liveness properties (that a step is taken at all rests on fairness and
ENABLED, which are out of the prover's reach:
`JobsSettle`, `AnalysisEnds`, `ActiveJobReleased`, `LockReleased`, `InterviewEnds`, `EndNoticed`,
`BusyEnds`); the pure functions that fold an operator over a sequence (`parseCsv`, `splitIntentDoc`,
`flattenQuestionTree` and what is built on it), an operator parameter again;
the checks at the limits, which are evaluations; the counterexamples.

## 5. Not modelled

* **What the stages of the pipeline compute**: coverage, findings, metrics and the assembly of a
  report are functions of agents' answers, and so is what a reply is parsed into and what a prompt
  says. `SessionJobs` keeps who wrote what and when. Two hazards stay without a property for this
  reason: an extraction retried during an analysis changes the intents between two stages, and a retry
  analyses an artifact that was submitted after INGEST without a summary.
* **The sandbox parser**: a pure function of text formats and archives without state.
* **The blob archive**: no code reads a blob and errors are swallowed; an upload only takes time,
  which `SessionJobs` has. Blobs left over by expiry and by tasks of a deleted session
  (TRD.md:618) are seen by nothing in the program.
* **Start-up, errors, logging, configuration, transport models**: wiring and wording. The recovery of
  orphan jobs walks a store that was created in the same call.
* **Markup, wording, downloads, toasts and dialogs**, the deployment files and the prototype.

What could be taken up next: a composition of `InterviewPage` with `InterviewEngine` in place of
its counter of answers.
