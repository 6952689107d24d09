# Patchwork specifications

TLA+ specifications of Patchwork, an agent that repairs repositories: a language
model drives tools on a sandbox copy of a repository until its test suite passes.
The modules are written from the Python code under `src/patchwork`; paths below are
relative to that directory, and line numbers are of the commit this directory
stands beside. `PROJECT.json` maps every definition to its lines.

1. [The system](#the-system)
2. [Modules](#modules)
3. [How the models correspond to the code](#how-the-models-correspond-to-the-code)
4. [Runs, bounds, fairness](#runs)
5. [Where documents and code part ways](#where-documents-and-code-part-ways)
6. [Proofs](#proofs)
7. [What is not modelled](#what-is-not-modelled)
8. [Plan](#plan)

## The system

Everything runs in one thread of one process; the program waits for the
model's provider, for GitHub, and for the commands it starts in the sandbox. There is
no persistent state: a crash loses the run, and nothing resumes it. The difficulties
are those of nested control loops that an unpredictable model steers, of state
that several tools share, and of external services that fail.

| Component | State | Operations | What makes it correct |
|---|---|---|---|
| Agent loop, `agent/loop.py` | calls and turns made, `ctx.active_tools` | `run_agent` | every request is one a provider accepts; the run ends within its budget; the result tells the truth |
| Subagents, `agent/subagent.py`, `tools/orchestration_tools.py` | a nested run with its own registry, context and budget | `run_subagent`, `analyze_failure`, `review_patch` | a subagent edits nothing, spawns nothing, and leaves only its verdict |
| Registry, `registry.py`, `tools/base.py` | an immutable set of tools with namespace and scope, each with a schema taken from its handler | registration on import, `scoped`, `execute`, what is advertised | it is complete whichever modules were imported before; a view holds no tool that its filter excludes; a handler runs only with arguments it takes; a failure is an answer and not a crash |
| Dynamic loading, `tools/meta_tools.py` | `ctx.active_tools` | `tools.load`, `search`, `namespaces` | what was loaded stays available |
| Conversation, `agent/context.py`, `llm/base.py` | transcript, set of stubs, pinned ledger | adding messages, `note`, `compact_if_needed` | the task and the recent messages stay verbatim; old results go first, none more often than once |
| Rate limiter, `resilience/ratelimit.py` | `_tokens`, `_last`, `_lock` | `acquire`, `try_acquire` | over every stretch of time it admits at most the burst, what comes back, and one call more, for any number of threads |
| Retry, `resilience/retry.py` | attempt number | `retry_call`, `delay_for` | bounded attempts and waits; a failure that will pass is retried while attempts are left |
| GitHub and LLM clients, `tools/github_api.py`, `llm/*_client.py`, `llm/factory.py` | a limiter each | `_request`, `complete`, the translation of transcript and response | failures are classified correctly; nothing is carried out twice unless a failure left open whether it had been; a service reads its own calls and their results in the next request |
| Sandbox, git and code tools, `tools/sandbox.py`, `git_tools.py`, `code_tools.py` | working tree, index, commits, branches | the copy of the repository, the write tools | the copy is faithful or fails, and the original is untouched; work that is not committed is not lost; a patch that does not apply leaves nothing behind to be committed |
| Test tools, `tools/ci_tools.py` | `ctx.scratch` | `run_tests`, `run_single_test`, `parse_failures`, ... | what is read from the scratch is of the run it is taken for |
| Repair flow, `flows/repair.py` | the report | `repair_repository` | "verified green" is true of the tree that is left behind |
| Evaluation, `eval/harness.py` | outcomes | `run_eval`, `score`, `main` | each case is scored on its own |
| Configuration, command line, `config.py`, `cli.py`, `errors.py` | the settings, the exit code | `from_env`, `resolved_provider`, `run`, `tools`, `doctor` | the exit code is that of the report; a program that cannot begin leaves nothing behind |
| Tracer, `observability.py` | a list of spans | `span`, what fails in one | the trace tells what the run did |
| GitHub tools, `tools/github_tools.py` | | issues, `open_pull_request` | a pull request carries the fix |
| Prompts, fixtures, tests | | | see [What is not modelled](#what-is-not-modelled) |

How they interact: a program reads the settings, builds a client, loads the registry and starts the flow,
once or for each case of the evaluation. The flow builds a sandbox, a registry and a conversation and calls
`run_agent`. For each turn `run_agent` compacts the conversation, asks the model
(client, limiter, retry), and hands each call of the answer to `execute`, which runs
a tool. An orchestration tool runs `run_agent` again inside that call, on the same
sandbox and tracer but with a new context and a filtered registry. Exceptions travel
the other way: a tool's own failures become error results in `execute`; what a
subagent raises, its exhausted budget included, becomes one of those; the lead agent's exhausted
budget is caught by the flow; anything else ends the process. At last the flow runs the
suite itself and writes the report.

What is hard, in order of importance: budgets and transcripts across nested runs and
every kind of failure; compaction repeated over a growing transcript; the limiter's
lock, which is held and given up around sleeps; requests repeated when their fate is unknown; a shared scratch
and a working tree that change between the step that looked and the step that
relies on it; and, across providers, calls told apart by ids, by names or only by their order. `PROJECT.json` lists the hazards line by line, with the properties that
guard against each.

## Modules

| Module | What it is |
|---|---|
| `ToolRegistry` | the registry and its views, as operators |
| `ToolSchema` | schemas, the check of arguments against them, and names, as the providers get them |
| `BoundedAgent` | abstract: an agent's run as the flow sees it |
| `AgentSystem` | `run_agent` with subagents, dispatch and dynamic loading; implements `BoundedAgent` |
| `Exchange` | a run as its provider sees it, and its trace; uses `ToolSchema` |
| `Transcript` | messages by their sizes, token estimates, stubs |
| `AtomicCompaction` | abstract: compaction as one definition |
| `Conversation` | the transcript of a run, compaction step by step; implements `AtomicCompaction` |
| `LeakyBucket` | abstract: what the bucket promises, as one account with atomic steps |
| `RateLimiter` | the token bucket, at the grain of loads and stores; implements `LeakyBucket` |
| `Pacing` | the limiters of Groq and Gemini: a `RateLimiter` whose rate comes from the user's tier |
| `ServiceCall` | the four clients around `retry_call` |
| `SandboxCopy` | the copy of a repository into its sandbox, entry by entry |
| `Workspace` | the sandbox and the write tools |
| `RepairFlow` | the flow: `Workspace`, test tools, subagent tools and pull requests, driven by an instance of `BoundedAgent` |
| `EvalHarness` | the evaluation over several cases |
| `Programs` | the command line and the evaluation from the environment to the exit code; composes `SandboxCopy` and `EvalHarness` |
| `MC...` | instances for TLC |
| `..._proofs` | theorems about `AgentSystem`, `Conversation`, `RateLimiter`, `ServiceCall`, `RepairFlow`, `Exchange` and `SandboxCopy`; those about `EvalHarness` are in `Programs_proofs`, with what both it and `SandboxCopy` keep inside the programs |

The agent and the flow meet in `BoundedAgent`: `AgentSystem` is shown to implement it
(by TLC on an instance and by proof in general), and `RepairFlow` uses it in place
of the agent. So the flow is checked against every order of tool calls an agent may
make, without the transcript, and what the flow relies on (at most `MaxToolCalls` calls, exhausted
only when all have been made) is what `run_agent` keeps. `EvalHarness` and `Programs` go one level up in the same way:
of the flow they have how it ends, which `RepairFlow` shows to be truthful (`GateTruthful`) and to happen (`FlowEnds`).

A definition whose comment begins with "Faulty" is a variant of the one after it
with a bug that could plausibly be made there. No specification uses it; with it in
place of the right one, the run of each property fails on that property (`mutants`
in `PROJECT.json` pairs them), so no property holds just because of the way the model
is built.

## How the models correspond to the code

**AgentSystem.** A nested call of `run_agent` is a frame on `stack`; the local variables
of the function are its fields (`calls`, `turns`, the calls of the turn still to do as
`todo`), and so are its conversation (`msgs`, `ledger`), its registry (`tools`) and
`ctx.active_tools` (`active`). `menu`, what the last request advertised, is kept for a
property. `edits` and `spans` are of the whole session: write tools that took effect,
and spans of kind "tool" in the tracer that all runs share. A turn of the model is
`ModelCallsTools`, `LeadAnswers`, `SubagentAnswers` or `ModelFails`; a pending call is
served by `LeadOverBudget`, `SubagentOverBudget`, `UnknownTool`, `ToolFails`,
`RunTool`, `LoadTools` or `SpawnSubagent`, in the order in which the code looks: the
budget first, then the name, then the arguments, then the handler. A tool that fails may have taken effect or
not; a `tools.load` that fails at one name has activated those before it. The model is free: any tool, existing or not, any number of calls up to a
bound, a text at any time, or no answer. A subagent's final text either has a JSON
object or not, and the tool succeeds or fails accordingly.

**ToolSchema and Exchange.** A schema is the names of a handler's parameters, those without a default
apart; types are told to the model but nothing checks them. A name is a sequence of words and separators, so that
`_san` and `_desan` really replace one separator by the other, and a model can make up a name that only looks translated.
`said` is what the service has put into its responses, `messages` the transcript made of it; `Request` and `Respond`
are `complete()` with `to_api_messages`, `to_messages` or `to_contents` and `parse_response`, and `UnknownTool`, `RejectCall` and `RunHandler` are `execute`. How a
service reads the next request is `TakenFor`: Anthropic and Groq look for a result under its call's id, Gemini
goes by the order, and the client numbers Gemini's calls from 0 in every response. `spans` is the tracer's list;
a span is opened before the arguments are checked and after the name is looked up, and `fail` or the exception closes it.

**Conversation.** A message is its size. `compact_if_needed` is `StartScan`, then `Skip` or
`Stub` for each position, then `ScanOver`; `Turn` and `AddResult` are what the loop adds. The numbers of the
code are kept (four characters a token, 240 characters of excerpt, the digits in the header of a stub), since
a stub can be longer than what it replaces. `_compacted`, a set of object identities, is a set of
positions: messages are never removed. `body` remembers the size a tool returned.

**RateLimiter.** Exact integers: a tick is the time in which 1/`TicksPerToken` of a token
comes back. `acquire` is `Enter`, `Refill`, `Check` and `Take` under the lock, or `Wait`, then
`Wake` and again from the start; `try_acquire` ends in `Take` or `GiveUp`. `-=` is a load
and a store (`seen`). The clock may run between any two steps, and a sleep may last longer
than asked. `grants` records the clock when a token is taken, which may be later than the reading (`_last`) on which the
bucket admitted it: hence the one call more in `AdmissionRate`. `LeakyBucket` has neither lock nor threads nor loads: `due` is when all that was
taken will have come back (`last + Capacity - level`), and a call is admitted on what is there at that very step.

**Pacing.** The rate of `groq_client.py:92` and `gemini_client.py:126`: a burst of a sixth of the user's requests per
minute (at least two), and nine tenths of them coming back in a minute, though not less than `Floor` (6 for Groq, 3 for Gemini). Calls are
admitted once, and their retries are not admitted again; so `grants` counts calls of `complete()` and not requests. `PromptSpec` is a service that answers at once.

**ServiceCall.** One client and its calls, one after the other. `Begin` asks the limiter;
each attempt ends in `Succeed`, `Raise` or `BackOff`; `Sleep` precedes the next one. `MayRetry` and
`MayRaise` say how each client classifies a failure; both may hold where the
classification goes by the wording of a message. An answer that cannot be read ("unreadable": `resp.json()` at `github_api.py:56`,
`parse_response` after `retry_call` in the others) is a failure of a request that was carried out: the caller gets an exception. Time is in half seconds, passes only in
sleeps, and is kept only for the call at hand. `effects` counts how often
the request was carried out, also by attempts that appeared to fail, and `doubtful` the failures at which it may have been.

**SandboxCopy.** `from_local` with `shutil.copytree`: `CreateCopy` makes the root and the directory and lists the
repository; each nested call lists its directory, makes the copy of it and goes through what it has listed; an entry is copied by `CopyFile` or `CopyFolder`,
or its path is too long (`NameTooLong`), or it cannot be copied for any other reason (`EntryFails`): a link to nothing, a special file, a file that may not be
read. `copytree` notes these errors, and those of copying attributes (`ErrorsAfter`), and raises them at the end. `Unreliable` is the set of paths at which one may happen; any set will do.
`CannotBegin` is an error of `mkdir`, `mkdtemp` or the first listing. Paths are sequences of names, so
that a sandbox root inside the repository is what it is in the code: one more directory to be copied. If the root is the
repository itself, the copy is in the list of the first call and is copied as far as it has come by then, once. The library's
`copytree` is external and modelled from its documented order.

**Workspace and RepairFlow.** The contents of a file are a version or `Missing`; a tree
is a function from paths to contents; a commit is a tree; a branch is the number of a
commit. Every tool that changes the repository is an action, after what the git command
it runs does to the tree, the index, the commits and the branches. `from_local` does not look at the exit status of `git add` and
`git commit`, so the flow may begin without a commit (`Born`, `SandboxInit`); then `HEAD` has no tree and no branch a name but "HEAD" (`NoBranch`).
`Checkout` writes the files that differ between the two commits, if they have no local changes; git counts a file that was only deleted from the
working tree as clean, and brings it back. A ref that is a path makes `checkout` restore files (`CheckoutFiles`). A tool that fails
changes nothing, but for `apply_patch`: `.patchwork.patch` is a path of the tree (`PatchFile`), there while `git apply` runs; it is unlinked
whether the patch applies or not (`ApplyPatch`, `ApplyPatchFails`), and stays if the command is killed at its time-out (`ApplyPatchTimesOut`).
The agent may also write a file of that name itself (`Write`); `excused` notes either. The tests pass on the trees of `GreenTree`. `failures` and `child` stand for
`scratch["last_failures"]` of the lead agent and the analyst, by the test run they come
from. A pull request shows GitHub's branch (`RemoteTree`), which no tool of the agent writes.
`AgentStops` leads to `Verify` or `VerifyTimesOut`, then `WriteReport`.

**EvalHarness.** The local variables of `run_eval` are variables, since they outlive an
iteration. `fates` is how the flow really ended on each case.

**Programs.** `env` is what `from_env` and `resolved_provider` look at: an override, the keys, and whether the numbers can be read. A
command goes through `ParserExits` (arguments it does not understand, or `--help`), `SettingsFail` or `ReadSettings`, then `ListTools`, `Doctor`, or `ClientFails` or
`BuildClient` and `BeginWork`, in the order in which `cli.py` and `main()` of `eval/harness.py` take them, and ends with
an exit code and a kind of output (`printed`). `imported` is Python's module cache: importing a tool module registers its tools, but only
the first time in a process, which is why `load_builtins` must not clear what is there.

## Runs

Eight runs look for errors and find none; four more each refute one sentence of the
documentation.

| Run | Question | Distinct states |
|---|---|---|
| `AgentSystem` | transcripts, ledger, each run's budget, isolation, and the implementation of `BoundedAgent` | 2,889,956 |
| `AgentSystemDynamic` | the same agent with dynamic loading: the menu only grows; the cost of the session with its subagents is bounded; and it terminates | 51,328 |
| `Exchange` | for each provider: results reach their calls, the history is as the service said it, a call that follows what is advertised is executed, handlers bind, the trace is true | 473,445 |
| `Conversation` | what is cut, in which order, and that the loop computes `AtomicCompaction` | 8,432 |
| `RateLimiter` | admission rate, truthful waits, the implementation of `LeakyBucket`, every call returns | 524,866 |
| `ServiceCall` | waits, attempts, duplicates, for all four clients; every call ends | 68,270 |
| `RepairFlow` | the verdict, the patch file, the scratch, uncommitted work; the flow ends | 1,680,276 |
| `Programs` | the copy and why it may fail, the outcomes of the cases, exit codes, what a failed start leaves, the registry | 325,860 |

Type correctness is a theorem for every component that has one and is not
checked a second time by TLC.

### Bounds

- `AgentSystem`: seven tools, one for each combination of scope and namespace that the
  filters treat differently, and the three the code names. Two calls for the lead agent, two for
  the reviewer, one for the analyst, at most two calls a turn: enough for two subagents one after the other,
  a turn that exceeds the budget at its first or second call, a subagent that does, and a call left
  unanswered. With dynamic loading one call a turn is enough, since loading and using are
  in different turns. `SessionBound` is checked there: its bound of six tools is reached when both calls of the
  lead agent start a reviewer that uses up its budget.
- `Conversation`: eight messages, of which the task and the last one are protected, results of 100, 250 and 2000 characters,
  that is, never cut, longer when cut and shorter when cut. The budget of 650 tokens has room for one long
  result in full and not for a second; it is exceeded again as the transcript grows, also when all that may be cut
  has been. With one recent message protected, a turn of two calls is protected in part, and a message that one compaction
  protects is open to the next.
- `RateLimiter`: two threads, two calls each, a burst of two tokens, a token in two
  ticks. Two threads that sleep for the same token, and one that takes it between the other's sleep
  and its lock, occur. `MaxTime` bounds the idle time; the clock runs on while anyone sleeps. There is no
  deadlock check: once every call has been made and `MaxTime` is over, nothing more happens.
- `ServiceCall`: two calls, so that one follows another; attempts are bounded by the
  code, and each fails in one of five ways. Hints of three seconds and an hour, below and above every client's `max_delay`.
- `RepairFlow`: a module and the patch file; a broken and a fixed version; two branches and two commits; six calls, enough for a branch, an edit,
  `add`, `commit`, another edit and a switch back between commits that differ, and for a killed patch whose file is added
  and committed; with and without a baseline commit. A file that is not tracked is one that a patch deleted before, or the patch file. An unstaged deletion and a branch switch
that undoes it take all six calls (branch, edit, add, commit, delete by a patch, switch). The two runs that refute a sentence have a third file, a new module that the fix needs, and three or
four calls.
- `Exchange`: two turns of at most two calls, so that calls of one response and of two have to be told apart; two
  tools, one with arguments like those of `open_pull_request` (a required `title`, which is also a keyword of JSON Schema); a
  name that only looks translated; arguments that fit one tool, the other, or neither; each of the three providers.
- `Programs`: the repository has a package and caches at two depths; the sandbox root is next to it, the repository itself, a new directory in it, or
  below an ignored name in it that is there or has yet to be made; paths of up to seven names let the copy go through itself twice before they are too
  long. The unreliable paths are a file and a directory to be copied, one below an ignored
name, and a root. Three cases to evaluate, the middle one with a predecessor and a successor. Two modules of tools, any of them imported before.
- `RpmBudget`: the default tier of Groq, 30 requests a minute (`Floor` 6), of which the 31st is sent within the first minute.
  `SandboxInside`: paths of nine names.

### Fairness

- `AgentSystem` (`Termination`): `WF_vars(Next)`. One thread runs everything, and each of
  its waits ends: commands have time-outs (`tools/sandbox.py:119`), HTTP requests have one
  (`tools/github_api.py:42`), and the SDKs and `retry_call` make a last attempt. Which step is taken is
  left open, so a model that asks for tools for ever is included. The test commands' own children are assumed
  to end with them.
- `ServiceCall` (`EveryCallEnds`): `WF_vars(Next)`, for the same reasons.
- `RepairFlow` (`FlowEnds`): `WF_vars(Next)` likewise, and `WF_vars(AnalystReturns)`: the analyst may run tests any number of
  times in the model, but its run ends, since its budget is bounded (`Termination` of `AgentSystem` has that).
- `RateLimiter` (`EveryCallReturns`): weak fairness of each thread and of the clock: the
  operating system runs every thread that can run, and time passes. The lock is not assumed to be fair. The property is
  of finitely many calls; if the others call without end, a thread may starve, and nothing in the code prevents that.

## Where documents and code part ways

Four sentences are refuted by a run.

| Run | Says | Does |
|---|---|---|
| `SandboxInside` | `docs/USECASES.md:35`: `patchwork run --repo .` works on a "sandboxed copy" | the default sandbox root is a directory of the current one, so `copytree` lists the copy it has just made and copies it into itself, until the path is too long and `shutil.Error` ends the program (`tools/sandbox.py:48`) |
| `RpmBudget` | `config.py:35`: "Requests/min budget for the client-side limiter." | the burst comes on top of the 90% of it that the first minute brings back: 31 requests at a budget of 30 (`llm/gemini_client.py:126`, `llm/groq_client.py:92`) |
| `FlowPullFix` | `flows/repair.py:82`: the pull request is opened "from your fix branch" | no tool pushes, so GitHub has no such branch, or an older one of that name (`tools/github_tools.py:122`) |
| `FlowReviewer` | `tools/orchestration_tools.py:74`: the reviewer critiques "the current working diff" | `git diff HEAD` leaves out files that are not tracked: a new module is not in what is reviewed (line 82) |

`CopyFaithful` says what else may make the copy fail: with a sandbox root outside the repository, or below an ignored
name in it, only a path that is too long, or something unreliable that was to be copied (or is the root, or the repository). What is under an ignored name cannot. Only a root that is the
repository itself may get away with being inside. `AdmissionRate` is what the limiter does guarantee, and `MinutePaced` what that comes to in a minute, in calls that are admitted: fewer
than the burst, what comes back, and one; for budgets of 12 or more, above the budget by less than a fifteenth and one call. Retries come on top of that, unpaced.

Others were seen while modelling. They are plain from the code, and have no run:

- `docs/USAGE.md:36` calls `PATCHWORK_MAX_TOOL_CALLS` the "per-session tool-call budget"; each subagent has a budget of its own on
  top (`agent/loop.py:92`), so that with the default settings a session may run up to 60 * 13 tools. `SessionBound` is the bound that holds.
- `errors.py:69`: "5xx / connection reset / timeout. Worth retrying."; the GitHub client does not map the exceptions of the HTTP library
  (`tools/github_api.py:42`), and the call ends at its first attempt.
- `tools/ci_tools.py:93`: "from the most recent ci.run_tests"; `run_single_test` overwrites the list, and a run that times out leaves the older one
  (line 63). The list is parsed from the last 8000 characters of the output, which may have lost some of it.
- `docs/USAGE.md:53`: exit code 2 is "ran but still red", and 0 "verified green"; 2 is also argparse's for arguments it does not understand, and 0 that of
  `--help` (`ExitTellsReport` says what both mean).
- `cli.py:108` reads the settings before the `try`, so an unreadable setting ends in a traceback and not in "error: ...".
- `eval/harness.py:106` leaves crashed cases out of the sum of the calls but not out of the divisor.
- `tools/github_api.py:56`: `resp.json()` may raise on a 2xx, and the clients parse a response after `retry_call` (`groq_client.py:128`): the request was carried out, and its caller
  sees an error that is none of `errors.py`. `DuplicatesExplained` counts these among the failures that leave room for a duplicate.
- `llm/gemini_client.py:39` drops `additionalProperties` from the schema it sends, and `registry.py:138` rejects arguments that are not in it: a call that follows the
  advertised schema may be rejected, with Gemini only (`AdvertisedIsExecuted` makes the exception).
- `tools/sandbox.py:47`: "Copy tree but skip the original .git"; a dangling link or an unreadable file anywhere in the repository makes `copytree` raise at the end, and no one handles `shutil.Error`. Line 52: whether
  the baseline was committed is not looked at (an empty repository has nothing to commit), and without it review and `restore_file` have nothing to go by.
- `tools/git_tools.py:52`: git undoes a deletion that was not staged when it switches to a branch where the file differs (`CheckoutKeepsEdits` makes the exception), and takes a ref that
  is a path for a file to be restored, whose edits are lost.
- `tools/git_tools.py:85`: `git add -A` takes along what test runs left in the tree, unless it is ignored.
- `tools/code_tools.py:64` splits at every separator that `splitlines` knows, form feeds among them, and joins with newlines.
- `resilience/ratelimit.py:54`: `acquire(n)` with `n` above the capacity never returns (no caller asks for more than one), and woken threads compete
  for the lock in no order.
- `agent/loop.py:97` tells the model to "wrap up and report what you have", but line 101 raises before any
  request could carry the message.
- `agent/subagent.py:6` and `MEMO.md:31` speak of a verdict "validated" against its schema; line 48 returns whatever JSON
  object it finds.
- `prompts.py:6`: "Before you can call a domain tool you must activate it"; `registry.py:152` runs
  any tool of the registry, active or not.
- `agent/context.py:73`: "Bring the transcript under budget"; when all that may be cut has been cut, the
  request goes out over budget (`OverBudgetOnlyIfCut` is what holds). `MEMO.md:91` says that compaction lowers the
  estimate; the stub of a result of 241 to about 260 characters (line 91) is longer than the result.
- `tools/github_api.py:3`: "Every call goes through the shared limiter"; line 38 asks it once per call, before the
  retries, and so do the other clients.
- `resilience/retry.py:6`: "we honour a server-provided retry_after"; line 36 cuts it to `max_delay`. Line 1 speaks of
  full jitter; the default is none.
- `llm/gemini_client.py:142` takes a message that contains "rate" for a rate limit; "generate" contains it.
- `cli.py:101`: `--open-pr` opens a pull request "when green", and `tools/orchestration_tools.py:77` calls the
  review "a gate before opening a PR"; `open_pull_request` looks at neither.
- `tools/orchestration_tools.py:51`: the analyst "composes on the structured failures from ci.run_tests"; its
  scratch starts empty (`agent/subagent.py:92`), and only two strings are passed to it.
- `flows/repair.py:6` promises the verification "regardless of what the agent claims"; if the suite hangs, the
  exception at line 113 leaves no report at all.
- `eval/harness.py:5` scores whether "the agent [did] stay within budget"; line 88 counts a case whose agent was stopped.
- `flows/repair.py:5` speaks of teardown; `cleanup()` is never called. `TestsStillFailingError` is never raised.

## Proofs

TLAPS checks the following for all values of the constants that satisfy the modules' assumptions.

| Module | Theorem | Statement |
|---|---|---|
| `AgentSystem_proofs` | `TypeCorrect` | `Spec => []TypeOK` |
| | `NestingBound` | `Spec => []OneLevelOfSubagents` |
| | `SessionIsBounded` | `Spec => []SessionBound` |
| | `RequestBound` | `Spec => []RequestsBounded` |
| | `ReportIsTrue` | `Spec => []ReportedCalls` |
| | `SubagentsReadOnly` | `Spec => SubagentNeverEdits` |
| | `Refinement` | `Spec => ImplementsBoundedAgent` |
| | `RequestsAreWellPaired` | `Spec => []RequestsWellPaired` |
| | `LedgerIsTrue` | `Spec => []LedgerMatchesResults` |
| | `ParentIsIsolated` | `Spec => ParentIsolated` |
| | `MenuOnlyGrows` | `Spec => MenuGrows` |
| | `SessionIsFinite` | each step makes the number of steps left smaller |
| `Conversation_proofs` | `TypeCorrect`, `RecentIsVerbatim`, `CutsOldestFirst`, `StubsTellSize`, `CutsWhatItMay` | types, and the four invariants of the run `Conversation` |
| | `Refinement` | `Spec => ImplementsAtomicCompaction` |
| `RateLimiter_proofs` | `TypeCorrect`, `Admission`, `WaitIsReal` | types, and the two invariants of the run `RateLimiter` |
| | `Refinement` | `Spec => ImplementsLeakyBucket` |
| | `MinutePaced` | calls of one client admitted within a minute: fewer than the burst, what comes back, and one; from 12 requests a minute on, less than a fifteenth and one call above the budget |
| `ServiceCall_proofs` | `TypeCorrect`, `NoNeedlessDuplicate`, `WaitIsBounded`, `NoEarlyGivingUp` | types, and the three invariants of the run `ServiceCall` |
| | `CallsAreFinite` | each step makes the number of steps left smaller |
| `RepairFlow_proofs` | `TypeCorrect`, `GateIsTruthful`, `NoPatchStays` | types, and the two invariants of the run `RepairFlow` |
| | `ScratchKept`, `EditsSurviveCheckout` | `Spec => ScratchIsolated`, `Spec => CheckoutKeepsEdits` |
| | `FlowIsFinite` | each step but the analyst's test runs makes the number of steps left smaller |
| `Exchange_proofs` | `TypeCorrect`, `ResultsReachTheirCalls`, `HistoryIsAsSaid`, `AdvertisedCallsRun`, `HandlersAlwaysBind`, `TraceIsTrue` | types, and the five invariants of the run `Exchange` |
| `SandboxCopy_proofs` | `CopyIsFaithful` | `CopySpec => []CopyFaithful` |
| `Programs_proofs` | `CasesStandAlone`, `ExitIsTruthful` | `OutcomesAreOwn` and `ExitTruthful` of an evaluation by itself |
| | `ExitCodeTellsReport`, `NothingIsLeftBehind`, `RegistryIsComplete`, `CopyInProgramIsFaithful`, `EvaluatedCasesStandAlone`, `EvaluatedExitIsTruthful` | the six invariants of the run `Programs` |

Every theorem is a consequence of an inductive invariant of its module (`IInv`; `CopyInv`, `EvalInv` and `ProgramInv` in the last two) or of one of its steps.

**AgentSystem.** What a session costs follows from the shape of the stack: `Nesting` says that
it holds the lead agent, or the lead agent and one subagent whose registry is a read-only view without an orchestration tool, with no
more budget than the larger of the two the code fixes. So a subagent can neither edit nor spawn. `Budgets` bounds each frame's calls;
`Turns` says that turns are at most calls plus one, with one less while a request may be sent, which is why the number of requests is bounded at all. `SpansBounded` is the
potential function: the tools run so far cost at most a full subagent's budget for each of the lead agent's
calls, where the call a subagent is running in counts only as far as that subagent has come. `Endings` ties the reported count to the frame.
The proofs use what `AgentAssumption` says of the registry: the two
spawners are read tools of a namespace that no subagent is allowed. A registry
with a spawner in "code" or "git" would refute them.

`RequestsWellPaired` speaks of moments when a request may be sent, and is not inductive: in the middle of a turn the
last message of the model has results for some of its calls only. `Transcripts`, a second invariant on top of `IInv`, says that the
pending calls complete it: what has been answered, followed by what is pending, is the turn. The one frame
that does not fit is that of an exhausted run, whose refused call has a result that the ledger does not have; hence the exception in
`LedgerMatchesResults`. `ParentIsolated` and `MenuGrows` need that a lower frame is not touched while another is above it, and that
what is active is never given up.

`SessionIsFinite` is what is left of `Termination` when nobody promises that the thread runs: `StepsLeft` is a natural number, every step of a running
session makes it smaller, and at first it is what the constants say. A turn of the lead agent is worth one step and those of its calls; a call is worth what a whole
subagent may take (`Share`), since any of them may start one; and while a subagent is running, it has its own steps left, and one for its return, instead of that share.
`SpawnShrinks` and `ReturnShrinks` are the two steps at which the accounts change hands.

**Conversation.** `OldestFirst` is not inductive: while a scan is on, the next message to be cut need not be the oldest. `ScannedIsCut` adds that everything before the cursor
that may be cut has been; `Shape`, that the task comes first and only tool messages have a body; `CompactedAreStubs`, that
`_compacted` and the stubs agree, without which `StubTellsSize` would fail at the second compaction. That protected positions of a
longer transcript were not cut when it was shorter follows because the protected tail only moves right.
The refinement maps the transcript to what the scan will make of it (`Abstract`). That this does not change while the scan is on is the
whole proof: a stub replaces the first message that is still to be cut (`StubAhead`), the position where the definition stops stays the
least that fits (`LeastPosition`, from the well-foundedness of the naturals), and at the end of a scan nothing is left to cut (`ScanComplete`). So all steps of a
scan but its first are stutters, and the first is the compaction.

**RateLimiter.** `LockHeld` is mutual exclusion and `Loaded` says that what a thread is about to subtract from is still the level.
`Account` is the heart of `AdmissionRate`: for every grant that the last refill has counted, the tokens taken after it, plus the level, are at
most the capacity plus the time from that grant to the last refill; a refill preserves it whether it is capped or not. `Counted` says that only the latest grant may be later than
the last refill: whoever is held up between the refill and the subtraction still holds the lock, and the next one refills first. That grant is the one call more.
`SleepCounts` says that a thread's counted waits lie in the time between the start of its call and its next waking.
In the refinement only `Refill` and `Take` are steps of the account. That a refill puts `due` off to the new reading exactly if the bucket overflows is the cap's (`RefillPasses`);
that a token is taken from what is there, not from what was there when the thread looked, needs `Loaded` (`TakeAdmits`), and so the lock.
`MinutePaced` is `AdmissionRate` in the numbers of `Pacing`; only it and its lemmas use `PacingAssumption`.

**ServiceCall.** `WaitedSoFar` and `SentSoFar` count what the attempts so far have cost, as a multiple of the limits of the client's
policy; `InCall` that no request has been carried out more often than its failures left open; `GaveUp` which failures may end a call before its attempts are used up. In `CallsAreFinite` each attempt left is worth two steps, the request and the sleep before it.

**RepairFlow.** `Verified` keeps the verdict and the tree together from the independent run of the suite on, since nothing writes after it.
`Unlittered` holds of the tree, the index and every commit at once, because each is filled from another; it is in the invariant
as `excused \/ Unlittered`, which is as much as is true. `EditsSurviveCheckout` needs only the types of the repository and the rule by which git refuses to switch: a file that is written
was clean, and a deletion that was not staged is all that counts as clean and is a change.
`FlowIsFinite` counts two steps for each call of the budget, for a call may start a subagent that has to return. The analyst's test runs are left out of it: their number is
bounded by the analyst's own budget, in `AgentSystem`.

**Exchange.** `Numbered` says which calls have ids and that these differ; `Queue`, that what is left to do is the end of the last response; `Asked`
and `Answered`, that the messages of the model are the responses in order, and that each result stands at its call's place among the results of its
response, under its id and name; `OneEach`, that every call that has been worked off has exactly one; `Counted`, how many of the last response there are.
With ids a result is found because `Numbered` tells calls apart, for Gemini because `Answered` gives the place; one
invariant serves both. That a name comes back as it was follows from
`ToolAssumption` and `ExchangeAssumption`: no tool has the separator `__` in its name, and a made-up name has no dot.
For the trace, `Spanned` relates the n-th tool span to the n-th result of a known tool, by counting both.

**SandboxCopy.** The invariant (`CopyInv`) says what a copy that is under way is. `CallsOK`: each call on the stack copies a directory `Source \o r` to `Destination \o r`, for the
same path `r`, whose copies down to there exist. `Mirrored`: everything in the copy has an original, under names that are kept. `Grown`: all that is new is in the copy or
on the way to the root. `Covered` is what completeness follows from: without an error, every path of the repository either has its copy already or is *awaited*, that is, a
call on the stack has the next name on the way to it in its list. It is not enough to speak of the directory the path is in, which may not have been reached; so a new call takes over what its caller
awaited, and no induction over the tree is needed. When the stack is empty nothing is awaited, and `Covered` and `Mirrored` together are equality. `Endless` is
about a root in a directory of the repository: some call always awaits the copy or what leads to it, at whatever depth of copies in copies it is; so the stack does not become
empty without an error. `Excused` says that an error has a reason (`Excuse`): an entry that is too long or unreliable is a path of the repository that is
not under an ignored name, or the root is inside. That `folders` and `files` stay apart comes from the repository's being a tree,
which `SandboxAssumption` states.

**EvalHarness and Programs.** `CasesMatch` pairs each outcome with the fate of its case, in its place; `CodeIsFinal`, that the score is
computed once. `Programs_proofs` carries that invariant and `CopyInv` through the steps of the whole program, and its own `ProgramInv`: no work without a client (`ClientFirst`),
nothing printed before the end (`Silent`), and the stages each program may be in (`Staged`).

Every invariant and action property of the passing runs, and each refinement, is a theorem. Only model-checked is liveness
(`Termination`, `EveryCallReturns`, `EveryCallEnds`, `FlowEnds`), which rests on fairness and ENABLED; the prover treats neither. The three theorems with "Finite" in their
names are the part of it that a step decides: what runs, runs out. For `EveryCallReturns` there is none: how often a thread sleeps again depends on how the clock and the other threads run.
What a definition by recursion computes for every input is out of the prover's reach, too. No module here declares a recursive operator.

## What is not modelled

- Floating point: tokens, delays and averages are exact. `jitter` is the identity by default, and nobody passes another.
- Texts: prompts, task, results, diffs, verdicts and what is in a file. So the parsing of
  pytest's output, the search of JSON in an answer, line endings in `replace_lines`, and `search` are left out.
- The types in a JSON schema (nothing in the program checks them) and the SDKs' own retries below `complete()`.
- Git beyond what the tools do with local branches: detached heads, tags, merges, shallow clones. Ignored paths are left out: git overwrites an ignored file that is in the way of a
  checkout, which `CheckoutKeepsEdits` does not cover, and `git add` skips it. So are a `git init` that fails, what the agent writes below `.git`, and git commands killed at
  their time-out (60 s) half-way through a checkout or a restore; only for `git apply` is that modelled.
- The caches and coverage data that test runs leave in the tree, and so what `git add -A` takes along of them, and whatever else the suite does to the tree:
  `NoPatchLeftBehind` speaks of the patch file only, and `GateTruthful` takes the suite to leave the tree as it is.
- The rate of requests as opposed to calls: retries are not admitted by the limiter, and `RateLimiter` does not count them.
- A sandbox root, or a directory on the way to it, that is a file.
- Flaky tests: a tree is green or not. Processes that outlive the command that started them.
- Of the GitHub tools, the reading ones, and `comment_on_issue` beyond its being a write tool.
- The texts the programs print, log lines, durations, and the cleaning of the sandbox that the code never does.
- `prompts.py` (the model is free to ignore them), the fixtures and the tests: no logic of the program.

## Plan

Done: every component of the inventory but the texts, the paths of both programs from the environment to the exit code, refinements of the agent's
run, of compaction and of the limiter, and the theorems above. What would come next:

1. The composition of `Pacing` and `ServiceCall`: what a retry after a rejection does to the rate, with the limiter asked once.
2. Test artifacts and `.gitignore` in `Workspace`.
3. `CodeEdits`: the edits by lines as operators with a reference definition, once contents are more than versions.
