# TLA+ models of Nauro

Nauro keeps a project's decisions, open questions and state as Markdown files in
a store under `~/.nauro/projects/`, lets agents and a command line write them,
and syncs the store with a cloud service, either file by file (the *legacy*
sync) or as a *generation replica*: an installed, immutable projection that only
the server writes. The modules here model the parts of that program in which
order, failure and concurrency decide whether data survives.

Paths are relative to `src/packages/nauro/src/nauro/` unless they begin with
`core/`, which stands for `src/packages/nauro-core/src/nauro_core/`.

## How to run

    tlc -workers 4 -config sync.cfg MC_Sync     # any run of PROJECT.json
    tlapm Store_proofs.tla                      # any *_proofs module

`PROJECT.json` lists the runs with their properties, the source lines each
definition stands for, the hazards, one seeded bug per checked property, the
findings and the theorems.

## Inventory

### Components with a module

| Component | State it keeps | Operations | Modules |
|---|---|---|---|
| File sync (`sync/pull.py`, `push.py`, `merge.py`, `state.py`, `etag.py`) | the files, `.sync-state.json` (digest and ETag per path), the `last_full_sync` stamp, `.conflict-backup/` | manifest diff and triage, decision spool, conflict policy, streamed install, push with ambiguous answers and reconciliation | `FileSync` |
| Decision collisions (`sync/collisions.py`, `corpus.py`, `headings.py`, `quarantine.py`) | decision files by number and title, hash index, citations | mint, publish, completion pass, classify, adopt, canonicalize, renumber, quarantine | `DecisionPull` |
| Local decision writing (`core/operations/propose_decision.py`, `repair.py`, `doctor.py`, `cli/commands/repair.py`) | decision files with status and references, hash index | add, supersede, update, note, diagnose, plan and confirm a repair | `Decisions` |
| Questions (`core/questions.py`, `sync/merge.py`) | the lines of `open-questions.md` on each machine and the server | ask, resolve by command and by proposal, migrate ids, union of two copies | `Questions` |
| Write commands and post-commit steps (`mcp/tools.py`, `store/post_commit.py`, `store/journal.py`, `cli/commands/{note,import_cmd,sync}.py`) | the store's parts by version, state history, snapshot, AGENTS.md, journal | every write command as the list of its steps | `Writes` |
| Snapshots (`store/snapshot.py`) | numbered captures and the directory lock | capture, prune by age, choose and load a diff's two captures | `Snapshots` |
| Registry and connections (`store/registry.py`, `resolution.py`, `cli/commands/{init,adopt,attach,link,reconnect,projects}.py`) | registry, repo configs, stores, migration guards | every command that connects or disconnects a repository, both resolvers | `Connections` |
| Agent files (`cli/integrations/`, `setup/`, `templates/agents_md.py`, `cli/commands/{adopt,setup}.py`) | wiring, `.gitignore` block, AGENTS.md, bridge, skill, Codex config, registrations | adopt, attach, setup, sync, adopt --remove, step by step | `Surfaces` |
| Generation installation and refresh (`store/generation_installation.py`, `generation_refresh_*.py`, `sync/generation_refresh*.py`, `generation_attachment*.py`) | immutable roots; marker, pointer, carrier; intent and archive; attempt status | attach, prepare, commit, resume, complete, admit a read, record an attempt | `Refresh` |
| Generation acquisition (`sync/generation_acquisition.py`, `sync/transfer.py`) | the target generation, chunk, links, worker threads, budgets | manifest, reuse, presign pages, fetch, re-mint, stop, drain, recheck, retry | `Acquisition` |
| Presigned transport (`sync/remote.py`, `sync/transfer.py`) | one exchange, the origin circuit | fault and status classification, a PUT phase by phase | `TransferFaults`, `Upload` |
| Store recovery (`store/recovery.py`) | staging directory, ledger, destination, lock | lock, audit, download, record, seed, clear, rename, clean up | `Restore`, `RestoreContract` |
| Guided conversion (`cli/generation_upgrade.py`, `sync/migration_*.py`, `store/migration_admission.py`) | admission record, plans, backups, the moved files, the replica | assess, consent, back up, move, install, reassess, roll forward | `Conversion` |
| Generation credentials (`sync/reference_*.py`, `generation_credentials.py`, `generation_renewal.py`) | the credential file, marker, retry pause | login, renew by worker or command, verify, log out | `Credentials` |
| Account authentication (`auth.py`) | the legacy tokens in `config.json` | single-flight refresh, login, logout | `Auth` |
| Saved write operations (`store/*_records.py`, `sync/*_submission.py`) | one record per operation: prepared, uncertain, resolved | prepare, submit, recover, retry | `Submission` |
| Typed writes (`store/*_contract.py`, `sync/*_transport.py`, `*_writes.py`) | several operations of several families, the server's log | answers, refusals, receipts and what each makes of a record | `Families` |
| Reads, writes and guidance of a replica (`mcp/read_dispatch.py`, `generation_reads.py`, `sync/generation_session.py`, `generation_writes.py`) | the calls under way, installed projections, the server's grants and head | admit, authorize, deliver, flat reads, conditional writes, refresh, guidance | `Access` |
| Judgment repair (`cli/judgment_repair.py`, `store/recovery_actions.py`, `sync/recovery_transport.py`) | saved actions; a judgment's status, fence and lease (external) | inspect, look up, confirm, save, dispatch, resend | `JudgmentRepair` |
| Hosted commit planning (`core/operations/_commit_*.py`) | plans, claims on titles and contents, the committed generation (external) | prepare, observe, finalize; the host's enter, publish, settle, abandon | `CommitPlan`, `DecisionLog` |

### How they interact

* **Migration lock.** Every Nauro writer of a legacy store, and the whole of a
  pull and of a push, runs under one exclusive project lock
  (`store/migration_admission.py:261` `migration_write_guard`, taken by
  `mcp/tools.py` `@migration_guarded`, `cli/generation_writes.py:144`
  `legacy_write_guard`, `sync/pull.py:566`, `sync/push.py:167`). So local writers
  never interleave with a sync of their own machine. Two things still do: the
  other machines, through the object store, and a person's editor or file
  manager, which takes no lock. `FileSync`'s `MayWriteLocally` and
  `DecisionPull`'s `StoreLockFree` are this rule; `Decisions`, `Questions` and `Writes`
  have one command at a time because of it.
* **File sync and collisions.** A pull hands every untracked remote decision to
  the classifier (`needs_decision_gate`). `FileSync` models the transfer of bytes
  step by step and lets each decision path own its number; `DecisionPull` models
  numbers, headings, index and citations step by step and makes a transfer one
  step. The two split the pull at that line.
* **Decisions and collisions.** Both mint `max + 1` over the files on disk.
  `Decisions` follows one machine through the single writes of a supersede;
  `DecisionPull` follows several machines and makes a local write one step.
* **A write and what follows it.** `Writes` has a command's steps in order, each a
  unit whose inside is `Decisions`, `Questions`, `Snapshots`, `Surfaces` (AGENTS.md)
  or `FileSync` (push and pull).
* **A replica.** `Acquisition` fetches a generation's bytes into memory, `Refresh`
  installs them, `Access` reads what is installed; `Conversion` makes a legacy store
  a replica, and a call of `Access` sees that happen under its feet. `Access` lets a
  refresh install in one step and leaves its control files to `Refresh`.
* **Typed writes.** `Access` has a write's revision and its retries, `Submission` one
  operation's record, lock and crashes, `Families` the meeting of several operations
  and what an answer proves, `JudgmentRepair` what is done when a judgment's worker
  is gone, and `CommitPlan` the planning the server does with the same library.

Where two components share state, that state is in one module. Components that
share none are checked in one run: the MC module extends theirs, has a variable `chosen`,
and a behaviour chooses a component while the others keep their first state.

### What is hard here

Lost and late answers of a PUT; a manifest that is older than the body fetched
later; a crash between a file and the state that describes it, between the
rename, the heading and the index of a renumber, between the two control files
of a refresh, between the writes of a supersede; a power loss that undoes a
rename no flush made durable; two machines claiming one number, one path or one
question id; a repair plan confirmed long after it was shown; a resend that races
its own first request; a refresh token that must not be presented twice; a login
that outlives the logout it raced; a conversion that is interrupted while the
hosted project moves on; an answer rendered while somebody else logs in; a commit
plan made from a stale generation; a command that dies between two of its steps.
`PROJECT.json` lists each at its line with the properties that would catch it.

### Components without a module

Sync path admission; the judgment lane's write contracts and transports; hosted
request schemas; the reader of hosted decisions; generation discovery; what a
snapshot holds; typed access to configuration; state and stack edits; read
operations and ranking; decision parsing; argument handling and set-up prompts;
decision reference delivery; graph and presentation; templates, demo, skills and
agents. `PROJECT.json` says for each why: pure functions, data declarations, text
assets, or I/O with no decision in it.

## The modules

### A store and its files

**FileSync.** One action per file-level step of a job (`PullSpool`, `PullFetch`, `PullWrite`,
`PullRecord`, `PushRead`, `PushPutAmbiguous`, `PushCheckpoint` ...), so that a crash,
an edit, another machine or a late PUT can come between any two. `pc[r]` is where
machine r's only job stands: the sync lock admits one. `RouteEntry` is
the triage table (`_route_entry`), `mem` the `SyncState` in memory, saved by a pull
only at its end and by a push after each file. A file's content is the set
of edits its bytes incorporate; the ETag of an object is its content, and
`ComparableEtag` says whether a client may compare it with an MD5 of its own file.
`since` and `seen` are history.
`EtagTruthful`: a recorded ETag is one the server held. `ReceiptsTruthful`: a path is only
called synced at a version this machine received (`TrackedMeansReceived`), and the
stamp's sentence holds of every file but decisions (`StampTruthful`).
`OverwritesOnlyWhatIsKept`: a pull replaces only bytes that are recorded as synced,
published, backed up or contained in the union. `SyncsSettle`: the machines run out of work.

**DecisionPull.** `Name` is number and title; a body carries its heading's number and its
citations. `Verdict` is the classification matrix; `Renumber`, `RewriteHeading` and
`RetargetRenumbered` are the three writes of one step aside, `Canonicalize` and
`FinishCanonicalize` the two of a sibling's rename. The completion pass
(`CompleteHeading`, `RepairDanglingStems`) is what the next pull does about a crash
between them.
`UniqueNumbers`; `DecisionsStand` = `CitationsKeepTheirMeaning` and, until a first mishap,
`DecisionsKept`; `NumbersStand` = `ShiftedOnce` (a file steps aside once per run) and
`PublishedNumbersNeverMove`; `PullHeals` (the crash windows close).

**Decisions.** One writer at a time, write by write: `WriteNew`, `IndexHash`, `Attach`, `Flip`,
`AppendUpdate`; `CutShort` stops a job after any of them. `Show` makes a repair plan
without a lock; `Confirm` makes it again under the lock and writes only if it is the
one shown. `Orphans` and `Contradictions` are doctor's, `Candidates`, `Refusals` and
`PlanOf` the planner's. Because a reference always points to an older number and numbers
have one file, the planner's refusals for cycles and duplicate numbers never apply to a
store these writers made.
`OneFilePerNumber`, `BackrefsAnswered`; `RepairsAreSafe` = `TitleClashesAreLoose`,
`NothingIsUndone` (no step takes back what a file says) and `RepairCloses` (a confirmed
repair leaves no orphan and makes no contradiction).

**Questions.** A file is its sequence of lines: entries by id, continuation lines, prose,
section headers, the divider. Two machines run the commands and pull and push; both
copies changed means a union, line by line as `merge.py` does it. `CutShort` is a
proposal that dies before its stamps.
`QuestionsStand`: until two changed copies are joined a number names one question, nothing
below the divider is open and no entry is resolved by a decision that was not written; a
command keeps every question, number and text; what a command resolves is settled; a union
keeps every line of both copies once.

**Writes.** `Steps` gives each command its list of steps; one is taken at a time, may fail
(`report` then says so) or be the last one (`Kill`). A part of the store is its
version; the snapshot, AGENTS.md and the server hold the versions they were made from.
`WritesSound`: a replaced state body is in the history as planned, the journal tells what
happened, and a command that reports no trouble left snapshot, guidance and server up to
date, as far as its kind of command promises.

**Snapshots.** A capture holds the directory lock from `Scan` to `Prune`; a diff resolves
and loads two files without it. The calendar's days, weeks and months are lengths in
ticks. `CapturesStand`: no capture takes the file of one that can be read; near every
capture of the kept past one survives; a diff's baseline is not newer than its latest.

### A repository and its project

**Connections.** Every command is its steps with its guard: a registry change is one step
under the registry's lock, what was checked before it is not. One repository lies in the
other. A registration refuses an id the registry holds already, and an un-adopt goes on
when its config cannot be removed, not when its wiring cannot. `disturbed` tells what
happened so far: "yes" once a config was edited by hand, a command died or met another
under way; "rebound" if no more than a link re-keyed an entry of several repositories, whose
other configs then name an id nobody holds, or `init --add-repo --force` took a repository
whose config names another project. `RepositoriesAreSafe`: until any of these, a path has
one owner (`OneOwnerUndisturbed`); always, where the strict resolver answers with a store
the lenient one answers with the same (`StrictAgrees`), and a purge takes no other
repository's record (`PurgeSparesOthers`, proved under `Alone`). After a link or a forced add one owner is no
longer certain (`OneOwnerInTurn`, finding 4); a forced plain `init` takes nothing from it,
since its refusal of claimed paths allows no project at all.

**Surfaces.** A run is a list of steps, one per file; text files are sequences of pieces
that are the user's or Nauro's, configs are sets of entries. Two runs, people who edit and
a death in the middle of AGENTS.md interleave. `SurfacesSound`: wiring at rest is ignored by
git or tracked already, people's text and entries stay, a set-up run leaves no repository
that had the hook without one, a removal leaves nothing of Nauro's that works and spares the
home wiring of the projects that remain.

### A replica

**Acquisition.** One attempt with its window of threads over shared links: pages of links for a
chunk, a lookup, a GET, a re-mint only after a denial, stop at the first failure and
drain, then the pointer is looked at again. `AcquisitionSound` (no thread outlives its
attempt, at most twice the budget of GETs, every thread finds a link, nothing fails
without a cause, links are minted again only when refused); it ends.

**TransferFaults, Upload.** The classification tables as definitions, and a PUT that breaks
in each phase. `EvidenceTruthful`: "not written" is said only of bytes the store does not
hold, "written" only of bytes it does; the push of `FileSync` decides by this evidence.

**Refresh.** Each control file has the content processes see and the contents a power loss
may leave (`maybe`): a rename settles when its directory is flushed. A commit archives
the old intent, writes the new one, then replaces carrier and pointer; a later
process resumes or refuses from what it finds.
`ReplicaSound` = `IntentAlwaysStands`, `SelectedRootsAreWhole`, `ServedStaysInstalled`;
`LastSuccessKept`.

**Conversion.** One session, or two that hinder each other: `Open` to `Finish` with a
saved record that says how far it came, files as one body by edit, hosted generations that
move on. `ConversionSound`: the files are in one place, moved files are in a complete
backup of an agreed plan, nothing is converted without consent, a writer that is admitted
finds the legacy files or a whole replica, what is completed is what was agreed to. It ends for one session (`ConversionEnds`).

**Access.** Calls of several processes from `Begin` to their answer, each step asking again
for what it relies on (`Credentials`, `Installed`, `Current`), while conversions, bindings,
logins, grants and the head change. `named[p]` is history: everything the server would
have answered since the call began.
`CallsAreSound` = `AnswersWereAuthorized` (what is rendered was named for the account
since the call began), `FlatAnswersAreWhole`, `WritesReplaceWhatTheyWerePreparedOn`.

**Restore, RestoreContract.** Two processes restore a store into an absent or empty
directory through a staging directory and its ledger. `RestoredSound` = `InstalledWhole`
(one listed record, complete and sound) and `SeededTruthful` (the sync state says of
each file what was downloaded). `RestoresAsPromised` is the refinement: to the user a
whole store appears in one step and nothing else is touched. It settles.

### Accounts and hosted writes

**Credentials, Auth, Logins.** The file of a generation login with its withdrawal of a
refresh token before it is presented, and the legacy tokens with their single-flight
refresh; `Logins` puts the two side by side. `LoginsSound` = `NoReplay`, `UsableIsUnspent`, `LogoutWins`, `UnsentKeepsLogin` of the one,
`OnlyCurrentLogin` and `SingleFlight` of the other.

**Submission.** One saved operation, several processes. `MarkUncertain` is the write-ahead
step; `AcceptSend` and `AcceptLookup` turn an answer into a record. A refusal the server
can only give before it publishes is told apart from one it may give while it
looks for a receipt. The four typed families are one code in four copies; `typed`
tells them from judgments.
`SentIsOnRecord`, `RefusedNeverWrites`, `SettledIsFinal`, `ResendFollowsAbsence`.

**Families.** Operations of five kinds by several accounts on two servers: what each answer
must carry to be taken for the outcome of an operation (`Binds`). `WritesAreSound`: each is
carried out once, where, for whom and over what it was saved, and a recorded outcome is
what happened.

**JudgmentRepair.** Persons inspect, save, confirm and dispatch an action that names state,
fence and lease. `RepairSound`: what is sent is saved, no worker with a lease is
disturbed, one repair per state.

**CommitPlan, DecisionLog.** A plan from a committed generation, the claims it must find, and
an external host that enters the claims, publishes if the base stands, and settles.
`CommitsStand`: claims match decisions, standing titles are unique, no content stands
twice, references answer each other, and the module implements `DecisionLog`, a log whose
only steps are add, update and supersede.

## Runs

| Run (module) | Question | Bounds |
|---|---|---|
| `sync` (`MC_Sync`) | may a pull destroy bytes, may the stamp or a receipt lie, may a command report what is not so? `TypeOK EtagTruthful ReceiptsTruthful WritesSound OverwritesOnlyWhatIsKept` | 2 machines; three paths of which a behaviour edits one: an ordinary file (3 edits with failed downloads and full disks, 2 with kills, interrupts and lost state), a decision (2 edits with late PUTs and races, or with deletions), a union log with opaque ETags (2 edits with every local failure, or with deletions); or two commands with 1 mishap and 1 hand edit |
| `identity` (`MC_Identity`) | are numbers, decisions, citations and owners safe among many hands? `ITypeOK UniqueNumbers DecisionsStand NumbersStand PullHeals RepositoriesAreSafe` | 2 machines, 3 decisions, numbers to 5, citations; or 2 decisions and 2 mishaps (crash, failed write, rename by hand); or, over 2 nested repositories, one process that adopts, adds, links and un-adopts over 3 ids, one that runs every command but attach over 2 ids with a hand edit or a rename, or two processes and 2 ids |
| `local` (`MC_Local`) | local writes, crashes and repairs; captures; questions. `LTypeOK OneFilePerNumber BackrefsAnswered RepairsAreSafe CapturesStand QuestionsStand` | 4 decisions, 2 titles, 2 rationales, 1 update, 2 jobs cut short; 4 versions over 6 ticks, 1 damaged file; 2 machines, 4 starting files, 3 changes |
| `refresh` (`MC_Generations`) | can a death or a power loss strand the replica, can a stale plan publish? `RTypeOK ReplicaSound LastSuccessKept CommitsStand` | 2 processes, 3 generations, 5 identities, 4 attempts, 1 power loss; 2 committers, 3 commits, 2 titles, 1 text |
| `hosted` (`MC_Hosted`) | operations, logins, evidence and conversions. `HTypeOK SentIsOnRecord RefusedNeverWrites LoginsSound EvidenceTruthful ConversionSound SettledIsFinal ResendFollowsAbsence HostedEnds` | 2 processes and 3 requests; 2 processes, 3 tokens, 2 operations, 1 mishap; 3 threads of 2 processes, 3 tokens, 2 epochs; 3 PUTs; a conversion by one session (1 edit, 2 generations, 1 trip) or by two |
| `store` (`MC_Store`) | what fills a store. `GTypeOK RestoredSound AcquisitionSound RestoresAsPromised SurfacesSound StoreSettles` | syncing with 2 edits; 3 artifacts, 2 workers, pages of 2, 2 attempts, 2 tries; 2 restorers, 2 files, 2 faults; 2 repositories, 2 projects, 3 runs, 1 mishap |
| `agents` (`MC_Agents`) | what an agent is told and writes. `GTypeOK CallsAreSound WritesAreSound RepairSound` | 3 generations; 1 call with 3 changes or 2 calls with 1; 1 operation with 2 sends, 2 changes and 2 accounts, or 2 operations with 1 send; 2 persons, 2 actions, 2 steps |
| `sync_union_loses` (`MC_FileSync`) | finding 1 | 3 edits |
| `numbers_same_title` (`MC_DecisionPull`) | finding 2 | 2 decisions |
| `refresh_status` (`MC_Refresh`) | finding 3 | 2 generations, 3 attempts |
| `two_owners` (`MC_Connections`) | finding 4, `OneOwnerInTurn` | 1 process, every command, 3 ids, no edits |
| `guidance_heals` (`MC_Writes`) | finding 5 | 2 commands, 1 mishap |

Why the bounds are enough to be interesting. Paths of `FileSync` share only the
stamp and the order of work within a job, so one edited path and two machines give
every conflict; the third edit is what a version after a merge needs. Two decisions on
two machines collide, and the third collides with a renumbered one. Four decisions hold
a superseded decision, its replacement, an orphan and one more claim on it; two jobs
cut short make two orphans. Three requests are a first send, a resend and one more that
must not happen. Three generations allow a refresh while another is committed; a second
power loss finds the same kinds of state as the first, since every reboot starts from
settled files. Three commits are two that race from one base and one that supersedes.
Three tokens are a login, its renewal and the token of a login that raced it. Two files
of a restore are the required one and one whose ETag says nothing of its content. Three
changes around one call are a conversion, or a login, a loss of rights and a new head.
Three set-up runs adopt two repositories and remove one, with another process halfway.
The state spaces are finite by the named bounds (`MaxEdits`, `MaxLate`, `MaxMints`,
`MaxNumber`, `MaxUpdates`, `MaxFailures`, `MaxSends`, `MaxGen`, `MaxFaults`, ...), each a
guard. Runs have no deadlock check because a store at rest is a legal end.

**Fairness.** Liveness is checked in two runs, of one component each time.
`StoreSettles`: a started job keeps running (weak fairness of `PullStep` and `PushStep`:
straight-line code), and every machine keeps starting pulls and pushes (strong fairness of
`PullBegin` and `PushBegin`: the user, the session hook and the post-write hook start them
again and again; strong because the other job of the same machine takes the lock in
between); edits are bounded, and no failure is enabled there but an editor racing the job.
An acquisition goes on (weak fairness of `Acquiring`: requests have timeouts and threads
run) with no bound on the faults it meets; a person starts a restore again (`Start`), as
the message of a kept staging directory tells, and a started one goes on (`Advance`).
`HostedEnds`: a process at work on a login or a cloud call takes its next step (`Work`,
`Proceed`), since every lock wait and request has a timeout, and nobody is obliged to begin
one; a person goes on with a conversion (`CarryOn`) and refuses but a bounded number of
times (`MaxTrips`). Conversion has no liveness for two sessions: the lock has no timeout to
wait for, and two sessions may turn each other away for ever.

## Proofs

Each theorem holds for every value of the constants under the assumptions named in the
table and in the modules' `ASSUME`s (bounds are naturals, a decision path is not a
set-union path, sentinel values are not data). No proof uses fairness.

| Module | Theorems | Argument |
|---|---|---|
| `Store_proofs` | `TypeCorrect`, `EtagsAreTruthful`, `ReceiptsAreTruthful`, `OverwritesAreKept`; `EvidenceIsTruthful`; under `Setting`, `RestoreIsSound`, `RestoreIsOneStep` (the refinement of `RestoreContract`) | File sync: An ETag reaches the state file through the manifest, a route, the memory state or a PUT under way; `EtagInv` says of each that it was published, and published versions are never unpublished. `ReceiptInv` does the same for what was received: it follows a version through the order of a job (`Ordered`), what it carries (`Carry`), what a pull must spare (`Spares`) and what it knows (`Known`). With it a pull's write is kept elsewhere or raced. A PUT (`PutInv`): until a body is on its way the store has none of it, and the only faults classified as "not written" are those of that time. Restore: `Held`: who is past waiting has the lock. The ledger is true of the staged bytes (`TrueOf`) and a run's own copy fits what is staged (`Fit`), so what the rename installs is one listed record. `Setting`: "project" is a file of the record, versions are counted, no process has the name of nobody. |
| `Identity_proofs` | Decision collisions: `NumbersStayUnique`; under `Setting`, `DecisionsAreSafe` and `NumbersAreFinal`; under `Healing` too, `PullsHeal`. Connections: `RepositoriesHaveOneOwner`, `RegistriesAreTyped`; under `Alone`, `RepositoriesStaySafe` | A pull installs a row's name only where no file has its number, and a minted or shifted number is above every local one (`NamesInv`). `Setting`: titles are not given twice and no file is renamed by hand, crashes and failed writes included. `Stand` is about many machines at once: a title tells a decision from every other, a decision has one name once the server held it and cites the same wherever it is. Its steps are argued on *views*: what a step does to one machine's files. Without a rename by hand a canonicalize never happens. `Healing`: no record cites, or nothing is cut short, since the code repairs no cited heading. After the completion pass only the file in the middle of its move is out of step (`Healed`): the repair finds every stem's file because a title tells one file (`TitleTellsFile`). Connections (`NInv`): a command owns its path from its check to its config (`Owned`), every other listed path is named by its config (`Carried`), and there is one command (`Single`) while nothing interferes; so two entries of one path would have one id. A forced add passes over the one config `Carried` speaks of, so the claim ends there. In any interleaving who changes an entry holds its guard (`Keeps`), and an un-adopt that will purge keeps its entry to itself (`Spared`). `Alone`: no process mints a project by init while another runs attach or reconnect, or an id init waits to register may be attached first. Without it four processes and a hand edit make a purge take the entry that an init has just made: an un-adopt that found no entry drops by id without a guard. |
| `Decisions_proofs` | `NumbersAreUnique`, `RetirementsAreAnswered`, `RepairsStand`; under `Calendar`, `SnapshotsStand`, `SnapshotTypes` | `Answered`: somebody's reference answers each retirement; `JobInv`: what the job under way has written and is about to retire. The delicate step is `Attach`, which overwrites a reference: it was 0, so it answered nobody. For the repairs, `TInv` has what the screening found (`Screened`), that the job's decision is the latest (`Latest`) and what a clash of titles is made of (`ClashesAreLoose`); a confirmed plan closes its orphan because a repair is only offered for the one orphan no other reference claims (`Closing`). Snapshots: the invariant follows one captured state to the version that stands for it: within a day by the first rule of thinning, from there within a week by the second, within a month by the third (`Descends`). |
| `Hosted_proofs` | `RefusalIsFinal`, `WriteAhead`, `OutcomeIsFinal`, `ResendIsAsked`, `LoginsAreSound` | `Exclusive`: whoever is in a call holds the lock and has the record as saved. `Untouched`: an unmarked record has seen no request. `OnlyRequest`: a first send is the only one while its call lasts. `Entitled`: who is about to send an operation that was sent before has "absent" from a lookup of its own. Logins (`CInv`, `AuthInv`): a token leaves the file, and what a power loss may bring back of it, before it is presented (`Fits`), and the token of a login under way is nobody else's (`Own`). A login that a logout overtook knows an older revision than the file and than any record that may still be written back (`Overtaken`), so `StoreLogin` refuses it. While nothing was sent and nothing failed only the steps of `Early` are reached, and they lead back to a usable file (`UnsentInv`). What came of a legacy exchange is of the same login as the token it was got for and was never stored (`Carries`), and the turn keeps a process from replacing a token one of its threads is about to present (`OneTurn`). |
| `Refresh_proofs` | `ReplicaIsSound`, `SuccessIsKept`; under `QSetting`, `AcquisitionsAreSound` | Refresh: the invariant is about what a power loss may leave, not about what is visible: whichever of its contents each file comes back with, the controls stand between the two pairs of whichever intent comes back (`IntentsStand`, `Straddles`). Acquisition: the invariant accounts for each path: what its GETs are charged to, and what a thread about to ask for links has seen of them. |
| `Writing_proofs` | under `Bounds`, `CommitsAreSound` (with the refinement of `DecisionLog`); `WritesStaySound` | Commits: A reservation that was true when entered stays true, since whoever could contradict it must take the same claim; a plan of the committed generation is what its decision makes of it, and a plan of an older one cannot publish. Commands (`WInv`): what is still to be done of a command is a list in which everything derived comes after whatever changes the store (`Ordered`), so what is no longer on the list of an undisturbed command is up to date (`Derived`); the body an update replaces is in nobody's history yet (`Bodies`, `StateUnderWay`); the two files and the plan of the same update agree from the replacement on (`PlanKept`); an event that waits for its line is new to the journal (`EventKept`), so the line it gets is the only one, and closing an open line first spares those before it (`AppendedSays`). |
| `Conversion_proofs` | under `Setting`, `ConversionsAreSound` | The record is all that sessions share, and each carries a copy of it: the invariant says at which phases of the record a session takes each step (`PhaseFits`), what it may rely on without the lock (`Carried`) and knows with it (`Knows`), and that a record of a plan that moved nothing finds the files at home (`AtHome`). A session's step spares what the others rely on (`Spares`, `BystanderKeeps`). |
| `Agents_proofs` | `CallsStand`, `RepairsAreSound`, `WritesStand` | What a call holds from the fetch or the authorization on was named for it, and the server's answer of the moment always is (`Authorized`); no change of head or grant slips past because `Renamed` is part of it. A flat call that found files missing began after they were moved and the store never becomes flat again (`Whole`); the revision of a write stays the one it was prepared on (`Conditional`). A repair keeps what was seen of the lease, and a lease that was renewed has another number, so the end it saw still stands whenever the server accepts it (`SawTheEnd`); what was accepted is of an earlier fence or abandoned the judgment for good (`Past`). Typed writes: what the server logged and every request fit the record they are of (`LogInv`, `RecordFits`); the first request of an operation is its only one while its call lasts, so an early refusal of it is final (`FirstOnly`); a receipt that names an operation is of an entry of its own (`CallFits`). |

Why invariants of their own. None of these properties is inductive: each speaks of
something at rest (a saved ETag, a retired decision, an installed root, an answer), and
what makes it true was checked steps earlier and carried by a job that may be killed.
The inductive invariants therefore say what the job in flight carries.

**Only model-checked.** The type invariants of the composed runs (that of `Connections`
is `RegistriesAreTyped`);
`QuestionsStand` (`Questions` is built on sequence searches whose results need induction),
`SurfacesSound`. Out of the prover's
reach and left to TLC: liveness under fairness and `ENABLED` (`HostedEnds`, `StoreSettles`),
and what a recursive function or a fold computes for every input.

## Findings

1. `sync_union_loses`: a merged log is recorded as synced without being pushed
   (`sync/pull.py:1069`), so its local lines are lost to the next remote version,
   against `sync/merge.py:45` and `:623`.
2. `numbers_same_title`: two machines that mint one number and title share a path;
   one decision ends on no disk, on no server and in no backup, against
   `sync/merge.py:45`.
3. `refresh_status`: a failing refresh can keep the record of an attempt that began
   earlier, against the comment at `sync/generation_refresh_status.py:202`.
4. `two_owners`: adopt never looks at who claims a path. `link` re-keys a project and
   rewrites one config (`cli/commands/link.py:128`), so the project's other repository
   names an id nobody holds; `adopt --remove` there leaves the path in the entry and `adopt`
   then registers a second project for it, and the strict resolver refuses the whole
   registry, against `cli/commands/init.py:108`. An init that died between registry and
   config, or a config removed as `cli/commands/adopt.py:533` advises, does the same.
   So does `init --add-repo --force` without any link: adopt registers a repository that
   lies in another project's, the add then asks for the first claim on the way up only
   (`store/registry.py:498`), which is its own project's, and `--force` passes over the
   config that names the other; both entries list the path. The run has one name, which
   leaves adopt no name for the inner project; with a second one in `Names` TLC finds this
   way first, in twelve states.
5. `guidance_heals`: the post-commit steps of `tool_flag_question` and
   `tool_update_state` leave out AGENTS.md (`mcp/tools.py:644`), so guidance a previous
   command failed to write stays stale after a clean write, against
   `store/post_commit.py:8`.

### Observed while modelling, without a run

File sync and decisions

* `sync/pull.py:693` and `:1069` hash the file again after writing it; an editor
  saving in between is recorded as synced. `sync/etag.py:53` explains why the push
  does not do that. Only an editor can hit it, and an editor is also the one way a pull
  overwrites bytes that are kept nowhere (`raced`).
* A decision deleted while its download runs is skipped for good, and the stamp still
  advances; `StampTruthful` is therefore not about decisions.
* Tracked decisions are written after the decision lock was released
  (`sync/pull.py:688`). Harmless while the migration lock covers the whole pull.
* `sync/lock.py:12` says a writer that takes only the decision lock never blocks on
  a sync. Since the migration lock every writer does.
* A citation made between a crash in a renumber and the next pull, or a second
  decision of the same title, leaves the heading or the index unrepaired
  (`sync/collisions.py:621`, `:324`), so `PullHeals` is checked without them.
* Superseding a decision that is already superseded is accepted and moves its
  `superseded_by` (`core/operations/propose_decision.py:331`). The earlier replacement
  becomes a `forward_back_conflict`.
* A supersede under its target's own title that is cut short before the
  reference is attached leaves two active decisions of one title, which repair
  does not close and which block the retry.
* An orphan whose child is superseded in its turn is refused as competing and
  stays for good.

Questions

* A union of a resolved and an unresolved copy keeps both lines: the question is open
  again, its id is ambiguous and a resolve is refused, though `sync/merge.py:45` says
  "Append-only logs where a set-union merge is safe". Two machines also mint one number.
* An equal continuation line under two questions is kept once; remote-only continuation
  lines are appended after local ones and attach elsewhere; blank lines grow with each
  union.
* In a file without a header a new entry can land between an entry and its text; an
  introduction under the title attaches to the newest question and keeps it from being
  moved; any `## ` header with "resolved" in it, "## Unresolved" too, is the divider.
* The stamp of a half-stated proposal is only repaired by an explicit resolve.

Write commands, snapshots and agent files

* A kill between the two writes of `update_state` loses the replaced body from both files;
  an edit of the state file between a command's read and write is lost.
* An import rewrites `project.md` and `stack.md` with a plain truncating write, so a kill
  leaves them cut, unlike `store/_atomic.py`'s rule, and running it again appends
  everything again.
* `nauro note` neither snapshots nor pushes; a signed-out push hook reports nothing.
* A version number whose highest file cannot be read is given again.
* AGENTS.md is written in place: a death can lose the text under `# Manual` and leave a
  file that counts as not generated and is never replaced. A `project.md` with a
  "## Skills" heading makes AGENTS.md grow at each sync, and a Skills section a user
  placed after Manual is lost.
* A removal that keeps Manual leaves a file a later adopt never regenerates; it deletes the
  user's own blank line before the ignore block, though `setup/git_hygiene.py:132` says
  lines outside the markers are never touched.
* A second refresh of a bundled skill overwrites the only backup of an earlier edit, which
  `cli/integrations/_bundled_files.py:27` calls possibly "the only copy of a local edit".
* Failing to strip the shared settings or the ignore block does not count as a failure, so
  `adopt --remove` deregisters with the hook still there. Un-adopting the last project
  decides to clear the home wiring before its steps, and a project adopted meanwhile can
  lose it.

Repositories, replicas and accounts

* `store/registry.py:650`: a death during `link --cloud` strands the repository between two ids.
* Two processes may present one refresh token at once (`auth.py` takes turns between
  threads only); a timeout of the commit's lock, or a death, between exchange and commit
  loses the rotated token.
* Two conversion sessions can hinder each other for ever, since the lock is not waited for.
  A death that leaves only layout directories, or two staging entries and a hosted move,
  ends in "owner recovery is required", as do edits after the move.
* AGENTS.md is written after the session of a refresh, under no lock: older guidance can
  overwrite newer and be written after a logout. A write without an explicit revision
  replaces what is installed even if the agent was shown an older document (documented).
* A refusal body of a typed write names no operation and is taken to answer the request.

## What the models leave out

* `FileSync`: path admission, sweeping of interrupted writes, presign batches, aborts of an
  origin and the retries inside one transfer. A deletion is never propagated, as in the code.
* `DecisionPull`: files that do not parse, case variants of a name, an unreadable store.
* `Decisions`: stamps on resolved questions (`Questions` has them), the advisory similarity
  search, unparseable files and references written by hand. A repair plan reads the files
  one by one; the model reads them at once, which is sound because the plan made
  under the lock decides.
* `Questions`: the syntax of ids, truncation, topic ids inside a text.
* `Writes`: parsing of imported files, validation texts, unmanaged AGENTS.md files, waiting
  commands that time out.
* `Snapshots`: what a snapshot holds.
* `Connections`: stores outside the projects directory, `--demo`, `reconnect locate`,
  attachment of a generation, symlink and global-config refusals.
* `Surfaces`: Cursor, symlink refusals, the legacy CLAUDE.md block and Codex skill, the prune
  of `~/.claude.json`, opt-in skills and agents. The read and the write of one file are
  one step, except for AGENTS.md.
* `Refresh`: one account, one projection scope; the attachment record and the
  registry entry are taken as durable; a projection's bytes, link checks, staging
  sweeps, `replica_status` and the Windows write-through rename are not modelled.
* `Restore`: path checks of manifest entries.
* `Conversion`: refused files, tampered evidence, changed bindings and owners, contents of plans.
* `Auth`, `Credentials`: the browser exchange is one step; a corrupt `config.json`.
* `Submission`: bytes of payloads and receipts; the server is external.
* `Families`: conflicting digests, misrouted refusals, clocks set back.
* `Access`: the history of a diff, contents, the status line, writes of several documents.
* `JudgmentRepair`: paging of discovery, inspection fields, file permissions; one clock.
* `CommitPlan`: approval modes and provenance, snapshots, similarity, encodings; its host
  is external, taken from what the plan tells it to do.

## Plan

Done: all modules above, composed into seven runs, and the proofs above. What is left, in
order of worth:

1. **Proofs**: `SurfacesSound`, `QuestionsStand`, with lemmas about the sequence operators
   they are built from.
2. **Path admission** (`sync/merge.py`): which manifest names may become files. Reading it
   showed two things a model should state: a file whose name has a backslash shares its
   key with the nested path, and a root file named like a drive ("a:b") is pushed and then
   refused by every pull.
3. **Status and bounded reads** (`cli/commands/status.py`, `core/bounded_read.py`):
   an entry whose indented continuation reads "## Resolved" at the end of the preamble loses
   its pointer.
