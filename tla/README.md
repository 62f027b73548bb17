# Verification of `pc` (pve-cli)

`pc` is a command-line client for Proxmox VE and Proxmox Datacenter Manager. It
keeps almost nothing of its own: one process makes HTTP calls to a cluster that
other people change at the same time, over connections that get lost, and tells
its user, or the script that called it, by an exit code what became of the call.
What can go wrong is therefore about *knowledge*: what an exit code may be
trusted to mean, whether a call that failed may still happen, whether an edit
overwrites somebody else's, whether a command that waits ever returns.

This directory holds TLA+ models of that behaviour, TLC configurations that
check them on small instances, and TLAPS proofs for every instance.

## 1. Inventory

| part | sources | state it keeps | operations | what is hard |
|---|---|---|---|---|
| request engine | `internal/transport/client.go` | attempt counter, limiter bucket | `Do`, `doRaw`, `attempt`, `backoff` | lost answers, retries, a server that runs a call whose answer is lost, the rate limit under failure, deadlines |
| error taxonomy | `internal/protocol`, `internal/cli/errors.go` | none | `DecodeError`, `kindFromStatus`, `ExitCodeFor` | a status whose meaning depends on the method and on the text of the answer |
| authentication | `internal/auth` | cached ticket, CSRF token, expiry | `Apply`, `Refresh`, `ensure` | logins happen inside attempts; a ticket ages, or is forgotten by the server, in the middle of a run |
| task wait | `internal/task`, `finishTask`, `rawMutate` | deadline, last status seen | `Wait`, `task wait` | a poll is old when it is judged; polls get lost; tasks that never end |
| task log | `internal/cli/task.go` | cursor of the next line | `streamTaskLog` | the log grows, and the task stops, between two reads |
| providers, guest resolution | `internal/provider`, `internal/cli/guest.go` | none | `ResolveGuest`, name look-up, `guestBase` | a guest that moves or is recycled between look-up and call; remotes that are down |
| commands of one call | `internal/cli`: `guest_lifecycle`, `guest_extras`, `storage`, `node_network`, `pve_*`, `pdm_*`, `access_realm`, `raw`, `api` | none | some 90 commands | which checks, look-ups and prompts come before the call, and what the exit code says of the task it starts |
| node network | `internal/cli/node_network.go` | the changes staged on the node | create, update, delete, apply, revert | staged changes of several people are applied together |
| guest tags | `internal/cli/tag.go` | the plan shown at the prompt | single and bulk edits, `rename`, `import` | read-modify-write against concurrent edits, late writes, partial failure, plans that are stale when confirmed |
| tag style | `internal/cli/tag_style.go` | none | `color set/rm/clear`, `style set/clear` | read-modify-write of one string, without a digest |
| snapshot prune | `internal/cli/snapshot.go` | the list of snapshots to delete | `snapshot prune` | deletions chosen before a prompt and made one by one |
| configuration | `internal/config`, `internal/cli/config.go`, `auth.go`, `context.go` | the file, the keyring | load, edit, save, `auth login` | two processes edit the file; a crash during a save; a file and a keyring that must agree |
| resolution | `internal/config/resolve.go`, `internal/cli/root.go` | none | `Resolve`, `Validate` | precedence of flags, environment and contexts |
| console | `internal/cli/console.go`, `transport/websocket.go` | two pumps | `runConsole` | either side closes first |
| everything else | plugins, output, TLS pinning, schema tools | none | build-time only, or one decision | nothing the other parts do not have |

The parts meet in the request engine: every command is a sequence of its calls.
`task.Wait` adds a deadline to the context of its polls, which the engine's
back-off, limiter and round trip observe; every other call runs under a context
that never ends. A command finds its guest through a provider, asks, and makes its
call through `rawMutate` or `GuestPower`, which hand the task id they get to
`finishTask`, which may call `task.Wait`. What a command connects with is what
`Resolve` made of the configuration file, which other processes may be writing.

`PROJECT.json` lists every component with its status, and under "hazards" the
places where this code can go wrong in ways a test would hardly reach.

## 2. Modules

```
 CallPromise   (abstract: one state-changing call)   AtomicTags (abstract: edits)
      ^ implemented by                                   ^ implemented by
 Transport  <- TransportProofs                       TagEdit <- TagEditProofs
      | EXTENDS
 Protocol   <- TaskWait        TaskLog
                  | EXTENDS       | INSTANCE (its task is TaskWait's)
                  +---> Command <-+      Command <- CommandProofs
                          | EXTENDS
                        Verbs -> Providers

 ConfigResolve <- ConfigResolveProofs     TagStyle      <- TagStyleProofs
      ^ EXTENDS        ^ EXTENDS          SnapshotPrune <- SnapshotPruneProofs
 ConfigStore   <- ConfigStoreProofs       Console       <- ConsoleProofs
```

| module | models |
|---|---|
| `Protocol` | the answers of a server, `DecodeError`, `kindFromStatus`, `retryableStatus`, `ExitCodeFor`, `TaskStatus.Done/OK`, as operators |
| `CallPromise` | what `pc` promises of one state-changing call: it runs at most once, and the verdict ("applied", "refused", "unknown") is true |
| `Transport` | `Do` and `DoRaw`: the attempts of `doRaw`, the decoding of the answer, the limiter, the cached ticket and the login inside an attempt, and the server, which may handle a request late |
| `TaskWait` | a command that starts a task (`rawMutate`, `finishTask`) and other `pc task wait` processes: poll, look, sleep, deadline |
| `TaskLog` | `streamTaskLog`: cursor, pages, status read before the drain, a log that grows meanwhile |
| `Providers` | listings and `ResolveGuest*` of both providers, the resolution by name, `--kind` and `--node`, `guestBase`, as operators; and which guests a path leads to |
| `Verbs` | what each command does before its call, and the call, as a sequence of steps in the order of its `RunE` |
| `Command` | a command from its arguments to the end of its task: the steps of `Verbs`, the resolution of `Providers` on a cluster that changes, then `TaskWait` and `TaskLog` on the same task |
| `AtomicTags` | what the tag commands promise to other editors: each edit is one atomic step on the tags of that moment; success means every guest was dealt with |
| `TagEdit` | the tag commands step by step: choose guests, preview, prompt, read, write with digest, count failures, return |
| `TagStyle` | `tag color` and `tag style`: read the option, edit it, prompt, write the whole of it back; the option as the property string it is |
| `SnapshotPrune` | `snapshot prune`: list, choose by date, prompt, delete by name one after the other |
| `ConfigResolve` | `Resolve`, `Validate`, `overrides` and `Provider` as a function of the file, the environment, the command line and the keyring |
| `ConfigStore` | the file and the keyring under `auth login`, `context use`, `config set/init/view/get` and a command that connects by `ConfigResolve`; each may be killed between two steps, and a write may break off anywhere |
| `Console` | `newGuestConsoleCmd` and `runConsole`: the terminal's mode, the handshake, the two goroutines and the channel between them, the deferred calls, and a signal, after which they do not run |
| `MC*` | the values the runs give to the constants |
| `*Proofs` | theorems and their proofs |

### How state and actions correspond to the code

`Transport`: a call is one `Do` or `DoRaw`, and a call in `Decoded` is a `Do` with a value to
decode the answer into; `pc[c]` is the place in it ("backoff",
"limit", "apply", "send", "await"), `attempt[c]` its loop counter, `outcome[c]` the
kind of the error it returned. `requests` are those sent and not yet handled; the
server handles each at most once and at any time, so an answer may be lost, late,
or follow a timeout. `ticket`/`credentials` stand for `TicketProvider`: `ticket` says
that the cached ticket is taken for fresh, `TicketAges` is its 110 minutes running
out (an attempt that has left `Apply`, at "send", keeps the one it got), and the
server may answer 401 to a ticket it has forgotten.

`TaskWait`: `seen[p]` is the `TaskStatus` of the last poll, judged in a step of
its own so that the task may end in between; `tries` are the retries of the
engine under one poll, `expired` the deadline `WithTimeout` sets. `wait`,
`structured` (`-o json|yaml`) and `bounded` are flags chosen at the start.

`TaskLog`: line n of the log is the number n. `next` is the cursor, `fetched`
the size of the last page, `seen` the status read before the last drain.

`Command`: `cmd` is what the command knows until its call is answered: the steps it
has still to take (`todo`), its arguments, the guest it found, whether it was told to
go on (`consent`), and, as history, the guests that fitted its arguments in the
listing it got (`listed`) and on the server at that moment (`present`). The cluster is
not a variable: a listing shows any guests that may exist together, minus those of the
remotes that are down, and the call reaches any guest the path leads to by then
(`sent`), so that a guest may be moved, deleted and replaced at every point between.
`RawMutate`, `GuestPower` and `PrintAnswer` are the three ways a call is made and its
answer used; `HandleIsMadeUp` is the handle that `GuestPower` makes of an answer
without a task id, `AnswerUndecoded` the answer it cannot decode, which ends the command
although the action ran. `Fold` is the letter case of `strings.EqualFold`, by which `--remote`
is compared. From then on the state is that of `TaskWait`, and the `log`
variables those of `TaskLog`, whose task is `TaskWait`'s.

`Verbs`: a command is a record of the arguments it takes, whether it has `--wait` and
`--timeout`, and its steps; the names of the steps are those of the helpers the `RunE`
functions call. The steps that are errors of arguments only ("args") are merged where
nothing lies between them. `Destructive` are the calls that take something away or
down, whatever their method, and `Unasked` those of them that are sent without a prompt.

`TagEdit`: a command is the record of its flags and arguments, and the set
`Commands` holds those that run. `todo` is the rest of the loop, `writing` the
guest whose PUT is awaited; `writes` are the PUTs the server has not handled.
From what `Transport` shows of a state-changing call, a PUT is handled at most
once, but maybe after its command gave up on it. A digest is the configuration
that was read, in a set, which is empty where no digest is known. `settled` is a
history variable: which command has dealt with which guest.

`TagStyle`: the option is a function from the keys that are present to their
values, which is what the property string says; `parseTagStyle` and `String` are
the two conversions, and an option without keys cannot be written, only deleted
(`writeTagStyle`). `seen` is the style of the last read, `puts` are the writes the server has not
handled, and `effective` is a history variable: the commands whose edit the server
has had since they began.

`SnapshotPrune`: `snaps` dates the snapshots of each guest by a clock, `rows` is
what was shown at the prompt, `left` the rest of the loop. A deletion is a request,
then a task, either of which may come to nothing. The cutoff is any of `pruneCutoffs`: the
clock less an age, which `parseAge` lets be negative, or any date of `--before`, so that it
may lie in the future.

`ConfigResolve`: the one action is `Provider`; the result is in `settings`, empty where
the command fails. An answer of the keyring is a secret, which may be empty, or that it
cannot be read; a reference that was cut short ("astray") names another entry. `Layer`
is the chain flag, variable, file, built-in that `Resolve` repeats for each setting.

`ConfigStore`: `disk` is the file: absent, garbled, or YAML, which says a
configuration, with the profiles that have a value of the wrong type in `bad`
(`Load` refuses those, `loadMap` does not). `secrets` is the keyring. A writer has a
job, a place `pc` and the file it has in memory, `work`; `os.WriteFile` is the two steps
it is, `OpenFile`, which leaves the file empty, and `WriteFile`. Where the disk is full that
leaves a beginning of the text, and where another wrote meanwhile the rest of that other text
behind it (`Broken`, `Overlaid`). Either may be garbage, or YAML that says something else:
a break (`Breaks`, any of them) says which entries are read whole and from which of the
texts, and which profile is cut (`Seam`), in which of its values (`Cut`). `Put` is the assignment
to a map, `coerceScalar` what `config set` makes of a value. `base` and `alone` are history:
what a writer read, and whether another process has touched the store since.

`Console`: `main`, `reader` and `writer` are the three goroutines; `main` is "ended" when the command
ended by itself and "killed" after a signal; `done` is the
buffered channel. `conn` is what the connection can still do, `incoming` what the
server has sent on it, `unread` what it has not read. A key is its position in what
was typed, so that what arrives can be compared with what was typed.

Definitions named `X_Fault` stand next to `X`: each is the definition with one
plausible mistake. No action uses them; a check that puts one in place of the
original must see the property fail.

## 3. Runs

| run | instance | shows |
|---|---|---|
| `transport` | a state-changing call and a read, or a poll with a deadline; 2 retries, 8 answers, a bucket of 1, ticket login, tickets that age | what exit codes mean; `Do` and `DoRaw` implement `CallPromise`; the rate holds for retries too; every call ends |
| `transport_ticket` | a read, ticket login | *violation*: a wrong password ends in exit code 4 |
| `command` | every command on both providers, nine guests, one other process that waits for the task or follows its log | a call reaches only a guest that was named; none is picked among several, but for remotes that differ in letter case; nothing destructive goes unasked, but for `Unasked`; exit codes 0 and 5 are true; no line of the log is lost; waits and follows end with the task, bounded waits end anyway |
| `command_ambiguous` | the same | *violation*: a remote that is down hides one of two guests with the id |
| `task_wait_json` | a command and one `task wait`, 1 retry, three exit statuses | *violation*: with `-o json` `--wait` does not wait |
| `task_log_trailing` | pages of 2, up to 5 lines | *violation*: more than a page left at the end is dropped |
| `tag_edit` | a rename or an import over two guests, or a removal on one; two tags, two names | no lost update; success is complete; commands end |
| `tag_style` | pairs of the five commands, two tags, every option, one other client | exit code 0 is no lost edit; an edit keeps what it has no business with |
| `snapshot_prune` | one prune, two guests with two names, a cutoff that is always to come, or the last date | exit code 0 means that what was shown is gone; nothing without a date and nothing in a dry run is deleted; a confirmed prune ends |
| `config_store` | one command alone against all files, environments and command lines of the instance; or two writers, each with any of 14 jobs, and a command that connects; seven ways a write breaks off | flags and variables win and the rest comes from one profile; the file never names a secret the keyring lacks, unless the reference was cut; an edit that nobody interfered with does what it says and nothing else |
| `config_resolve_context` | the first half of it | *violation*: `PVE_CLI_PROFILE` beats `--context` |
| `console` | 4 frames, 5 keys, a terminal that may fail, a signal at any time | output and input arrive in order and complete; a command that ends by itself restores the terminal; hang-up and Ctrl-] end the command |

The violations are described, with the line of the documentation they
contradict, under "findings" in `PROJECT.json`.

**What the models show the code not to promise.** These are reachable in the
models, and the properties are stated so as to leave them open.

- `Command`: a guest that is deleted after it was found, and whose id, node and kind
  another takes, is what the call reaches; a name is not looked at again
  (`OnlyTheNamedGuest` says what is left). On PDM a guest that moved within its remote
  is still found. An answer to a power action that has no task id is made a handle of
  (`pve.go:164`), whose polls fail: the action ran and the command does not end with 0.
  An answer that does not decode ends a power action with exit code 1 although it ran
  (`AnswerUndecoded`). Where two remotes differ in letter case only, an id with
  `--remote` is that of the first in the listing (`pdm.go:193-196`), and a call may go
  to the other one's guest. Against README.md:141, "destructive ops prompt unless
  `--yes`/`--force`", six kinds of calls that take something away or down ask nobody
  (`Unasked`): `pool update --remove` (`pve_admin.go:64`), `access acl set --delete`
  (`pdm_access.go:121`), a moved disk or volume whose source is deleted, a field cleared
  with `delete=`, `agent shutdown` (`guest_extras.go:272`), and a backup that takes its
  guest down.
- Of the arguments and answers that `Verbs` leaves out: a firewall rule is deleted by
  its position; `node network apply` activates what others staged; `access token create`
  drops the secret the server answers with; and PDM's `ListTasks` leaves out remotes
  that fail (`pdm.go:291`).
- `Transport`: exit code 1 of a call made by `Do` may mean that it ran: its answer was a
  success that could not be decoded (`Returned`). A 5xx that says of a lock or of a
  parameter is taken by `DecodeError` for a refusal, and by `MayAnswer` for one that is
  true: that the server changes nothing before it finds the lock is an assumption. A
  ticket the server has forgotten ends the call with a 401, since `Refresh` is never
  called. Logins do not go through the limiter: `RateBound` counts attempts.
- `ConfigStore`: a crash between `OpenFile` and `WriteFile` leaves an empty file, which
  loads as an empty configuration. A full disk or two writers may leave a garbled file,
  or one that loads with profiles missing, with a value cut short, or with a reference
  to the secret of another profile (`Seam`); two writers may both exit with 0 over such
  a file. `auth login` only checks that there is one of `--token-id` and `--user`
  (`cli/config.go:287-317`): an empty server or an empty answer at the prompt is stored,
  over a good secret, the login exits with 0, and the next command fails in `Validate`
  (`CleanEdit` says exactly when it can connect). A login or an edit writes back all it
  read, so that what another process wrote meanwhile is lost (`CleanEdit` speaks of
  edits nobody interfered with). A login into a profile that exists, killed after
  `StoreSecret`, leaves the old profile with the new secret. A value that looks like a
  number is stored as that number (`coerceScalar`), so that `context use 007` selects
  "7", and `CleanEdit` speaks of names that are no numbers; and `config set` accepts a
  value of the wrong type, after which every command fails to load the file
  (`SetValue`).
- `TagEdit`: a guest that loses the old tag, or is replaced by another, while
  `tag rename` or `tag import` waits at its prompt is edited all the same (`ReadGuest`
  looks at the tags only).
- `TagStyle`: a style that is changed while a command waits at its prompt is
  overwritten, since the write carries no digest (`Confirm` writes `seen`).
- `SnapshotPrune`: a snapshot that is replaced under its name after it was listed is
  deleted although it is new (`Delete` sends the name). A negative `--older-than` and a
  `--before` to come are accepted, and choose every snapshot that has a date.
- `ConfigResolve`: `PVE_CLI_PASSWORD` beats `PVE_CLI_TOKEN_SECRET` for a token too,
  although `docs/configuration.md:129-130` gives the one to tickets and the other to
  tokens: a token with both set is sent with the password (`OverridesWin` says nothing
  of that case, nor of `--context`, of which `ContextFlagWins` speaks).
  `--insecure=false` is not handed on (`root.go:79`) and does not turn verification on
  again (`Overrides`), and a keyring that cannot be read is fatal even when the secret
  is in the environment (`ResolveFails`).
- `Console`: no signal is handled, so that SIGTERM, or the SIGHUP of a closed window,
  leaves the terminal raw (`Kill`; `TerminalIsRestored` speaks of commands that end by
  themselves). Ctrl-] is not looked at before the handshake is answered (`Handshake`),
  nor while a write to the server blocks (`SendKeys`); and a frame may be printed after
  the terminal was restored (`WriteFrame`), although the comment at `console.go:159-161`
  expects the output goroutine to have stopped by then: nobody waits for it.

**Bounds.** Two retries give a first, a middle and a last attempt, one more than the
loop's boundary conditions distinguish. `MCReplies` has one answer for every way the
engine and the decoder treat an answer differently. One bucket token makes every retry
wait. Two pages and a half of log reach an empty, a partial, a full and a second full
page. `MCCommand` has, on PVE, a VM and a container that share a name, two VMs that
share a name and a node, and an id that is a VM or, once that is gone, a container
elsewhere; on PDM, an id that both remotes have, and a third whose name differs from one
of theirs in letter case. One other process watches the task: watchers do not meet but
through the task. Two guests are the fewest on which a bulk edit can partly fail, two
tags the fewest a rename needs, two names the fewest that tell a recycled guest.
`Scenarios` says which commands run together, so that one run of TLC covers several
groups of them. In `tag_edit` each group is one command: to it, a rival is one of the
foreign edits, which are unbounded (any guest may change to any configuration at any
time), and the theorem `AtomicWithDigests` covers any set of commands. Two tags and one
color give every way an edit of the color map can meet another, with all 48 options as
the start. Two snapshots on each of two guests give a batch that fails in part; three
ticks of the clock, an age of -1, which is a cutoff ahead of the clock whenever it is
asked for, and a `--before` at the last tick leave every dated snapshot before the
cutoff, or one at it or after it. The inputs of `ConfigResolve` set each of the sources
of a setting or leave it out, with two profiles and two contexts, and let the keyring
answer or fail. To `ConfigStore` these are the files, environments and command lines of
a command that is alone; the writers meet a command without either, which keeps the two
products from multiplying. Two writers are the fewest that interleave; a third, by the
theorem `RefHasSecretHolds`, adds nothing to what the file may refer to. `config set`
may set four keys, one of each kind of value, and no job types a `secret_ref` by hand.
`MCBreaks` has a break before the profiles, in the contexts, before the first value, in
and after a reference, and two in which the other text adds to a profile or gives it
another's values, one in the order of the fields and one in that of the names. The two
writers are symmetric: nothing tells them apart but their jobs. In `Console` a window of
one message already blocks a write, and four frames and five keys let either side be
ahead of the other by more than the buffers between them. Numbers of executions are
bounded by the attempts, so no state constraint is needed anywhere.

**Deadlock.** Processes of `pc` end; every run therefore says `CHECK_DEADLOCK FALSE`.

**Fairness.** A client's own step is taken eventually: `http.Client.Timeout` ends
every round trip (`client.go:98`), the back-off and the ticker are timers, and the
limiter refills with time. So `ClientStep`, `CommandStep` of `TagEdit`, `PruneStep`,
and in `Command` the steps `Finishing`, `Polling(p)`, `Expiring(p)` and `Streaming` are
weakly fair, each as one action: the code is owed *some* next step, not an answer.
`Refill` is fair by itself: the bucket refills without the client. `TagStyle` and
`ConfigStore` state no liveness. In `Console` the three goroutines are fair each by
itself, as the Go scheduler is; the end of the terminal's input, the server and the
person are not. The server, the network, the person at the prompt and the task owe
nothing: no answer, no end of a task, no confirmation is fair, nor are the steps of a
command before its call.

## 4. Proofs

TLAPS checks the following for all values of the constants.

`TransportProofs`: types (`TypeCorrect`, where the count of attempts needs the
invariant `AttemptsCounted`); `AtMostOnceHolds`, `OkMeansExecutedHolds`,
`RefusalIsFinalHolds` from one inductive invariant `IInv`: a state-changing call
has one attempt at most (`SingleAttempt`), an unread answer tells the truth about
the execution (`AnswerTrue`), and so does an outcome (`OutcomeTrue`). The lemma
`DecodingIsSound` connects the status and text of an answer to the kind
`DecodeError` gives it. `ImplementsSafePromise` proves the refinement of
`CallPromise` without its liveness part, which includes that exit code 0 means the
call ran. `DoubtIsExitFourHolds` and `TransientFailureIsRetriedHolds` rest on `EInv`,
which says what the loop counter was when an outcome was reached, and the former on `IInv`: a call whose
answer could not be decoded ran, once, and no request of it is left;
`RateBoundHolds` on `RateInv`: attempts made and attempts that hold a token are at
most the first bucket and what was refilled.

`CommandProofs`: `IInv` is `WInv`, about the waits (a status that was seen is the
task's, a command that ended with 0 or 5 had seen it), and `CInv`, about the command
before its call. The latter has two parts. `IsCommand`: a guest that was found fits the
arguments (`Fits`), one that was looked up is the only one of the listing that does, or
has an id of which `--remote` does not tell the remotes apart (`OneFits`), and who was
asked was asked about this guest. `IsTodo`: in the steps that are left a destructive
call comes after a prompt unless the user was asked already, and no guest is resolved
after the prompt (`InOrder`), the calls in `Unasked` excepted. That every one of the
ninety programs starts so is `ProgramsAreInOrder`, proved from a lemma per family of
commands; `RestIsInOrder` says that it stays so as steps are taken. `ResolvedIsTheOnly`
is the reasoning about the resolution of guests, filter by filter. From these:
`NeverPicksAmongHolds`, `SuccessIsRealHolds`, `FailureIsRealHolds`,
`OnlyTheNamedGuestHolds` and `AsksFirstHolds`, for any guests, remotes and arguments.
`LInv` says of the log what `TaskLog`'s own reasoning does: what is printed is 1, 2,
..., `next` - 1; from it `LogNoLossNoDupHolds` and `LogLastPageIsCompleteHolds`,
although the task is now `TaskWait`'s. `CommandTypeOKHolds` takes all three, and that
only calls are ever sent (`SInv`).

`ConfigStoreProofs`: `RefHasSecretHolds`, for any number of processes, jobs, files and
names, killed at any step. The invariant `SInv` says that every file, on disk or in the
memory of a process, is well-shaped and refers only to secrets that the keyring holds
(except the starter's); it survives because a secret, which may be empty, is only ever
replaced by a secret, a login stores it before the reference exists, even in memory, and
a broken write makes of references that are good ones that are good, or astray
(`SeamKeeps`, `BrokenKeeps`). `TInv` is the types, by one lemma for each way a file is
made (`LoginIsTyped`, `SetValueIsTyped`, `StarterIsTyped`, `BrokenIsTyped`).
`CleanEditHolds` rests on `HInv`, which says of every writer that nobody has interfered
with how far it has come (`Clean`): the store still is what it read (`AsRead`), and what
it is about to write is the edit of that, after a login has stored its secret, with that
secret and no other changed (`LoginReady`, `SetReady`). Then `OkIsWritten` gives the
file at the end as the edit of what was read, and `LoginCounts` and `OthersStay` what
`Resolve` makes of it. `StoreOverridesWin` and `StoreOneProfileOnly` carry the theorems
of `ConfigResolveProofs` over to what a command finds on that disk, by `RInv`.

`TagEditProofs`: types; `SuccessIsCompleteHolds`; and `AtomicWithDigests`: if the
server gives out digests, `Spec` implements `AtomicTags`. The invariant `IInv`
says per command where the guests of its loop are (`Busy`), that nothing is
settled or written before its turn (`Untouched`) and that without a failure
everything behind the loop is settled and nothing is in flight (`Complete`); and
per write that it is the only one of its command and guest and that its tags are
the plan applied to the configuration of its digest (`WriteTrue`). The last part is
what makes an accepted write an atomic edit: a digest that still matches names the
configuration the server has. Without digests the theorem is false, and the
mutant `ReadGuest_NoDigest` shows it.

`TagStyleProofs`: `RoundTrip`, the lemma that an option read and written back is the
option (`parseTagStyle(writeTagStyle(ts)) = ts`), on which types and
`SuccessIsEffectiveHolds` rest: from any option, with any commands and other
clients, a command that exits with 0 either had its edit applied by the server or
read an option that already was as it asks. `UnrelatedSurvivesHolds`: a write handled on
the option it was computed from changes the parts its command names and no others; its
lemma `EditAgrees` says so of the edits. `IInv`, on which both rest: the option always is
the string of a style (`OptionTrue`), and every write in flight is its command's edit of
what that command read (`PutTrue`).

`SnapshotPruneProofs`: `SuccessIsDeletedHolds` and `DeletesAreAllowedHolds`, for any
guests, names, ages and number of prunes. The invariant: as long as nothing failed,
what was shown and is neither to be deleted nor being deleted is gone (`PInv`); whatever
is asked of the server has a date and comes from no dry run (`QInv`). Both need that
the snapshots evolve one way (`Evolves`, `Persist`): what is gone does not come back, as a
new snapshot under the name has a later date, and a name that had a date has no
undated snapshot later. `TypeOKHolds` needs that failures are counted at most once for
each deletion (`Counted`: failures, the one in progress and those to come are never more
than what was shown), by cardinalities of finite sets.

`ConfigResolveProofs`: `OverridesWinHolds` and `OneProfileOnlyHolds`, for every set
of files, environments, command lines and keyrings, from the lemmas `FirstOfTwo`,
`FirstOfFour` and `LayerFirst` about `firstNonEmpty`, which the code applies to every setting.

`ConsoleProofs`: `TerminalIsRestoredHolds`, and `StreamsInOrderHolds` for any number of
frames and keys and any window. `OutInv`: what is printed, held by the reader and on its
way is 1, 2, ... up to what the server has sent. `InInv`: what was sent is the beginning
of what was typed, all of what was read unless the writer is sending or could not; its
lemma `PlainIs` says that the keys before the first Ctrl-] of a chunk hold none.
`TerminalIsRestoredHolds` is about a command that ends by itself: a signal is a step of
the model, after which nothing is claimed of the terminal. `TypeOKHolds` rests on
`ChanInv`, over all places where a goroutine reports, a failing write to the terminal
among them: results in the channel and goroutines that have not reported are never more
than two, the channel's room, so that no goroutine waits to report for ever.

Assumptions: those named in the modules, which TLC evaluates on every run (retries are a
natural number, replies are answers, commands are well-formed; guests have positive ids
and are finitely many, on a cluster as in a listing; a login is for a token or for a
user, as `auth login` checks; a break joins two texts as `IsBreak` says; the ages and
dates of a prune are integers; the strings that the code itself writes are among those
of the instance; of `Fold` nothing is assumed), and what the external actions say of the
Proxmox API: a 2xx means the call ran, a 4xx, a lock and a failed parameter check that
it did not, a PUT whose digest does not match is refused, a snapshot is dated when it is
taken.

Only model-checked: liveness (`EveryCallEnds`, `WaitEndsWithTask`,
`BoundedWaitEnds`, `LogFollowEndsWithTask`, `EveryEditEnds`, `ConfirmedPruneEnds`,
`HangUpEnds`, `QuitEndsBridge`, and the fairness of `CallPromise`, which
`ImplementsPromise` adds to `ImplementsSafePromise`): that is out of the prover's reach. Every
invariant and every action property of a passing run is also a theorem.

## 5. Not modelled

TLS pinning, plugins, output, the build-time tools, generated schemas and vendored
code; the reasons are in `PROJECT.json`. PDM as a provider of tag writes (the tag
commands refuse it). Of the network of a node, what is staged there: that is state of
the server. Of an upload, the stream of its body. Of commands that print, what they
print. Strings are abstracted to the sets and records they denote.

## 6. Plan

Done: the request engine and its promise, tickets, the waits, the log, the commands of
one call on both providers, the tag commands, the tag style, the prune of snapshots, the
resolution of settings, the configuration store, the console. To come: the
network of a node with what several people stage on it, the stream of an upload
against a login that expires, and more than one `Command` on one cluster. Then proofs
about what two commands on one cluster may do to each other, and that
`TagStyle` implements an abstract editor of one option.
