# fogit in TLA+

fogit keeps *features* (units of planned work) as YAML files inside a git repository. Each fogit
command is a process of its own: it reads files, decides, writes files one by one, drives git, and
exits. There are no servers and no threads that share memory. What is hard about it is what lies
*between* two effects of a command, and between two commands: a checkout that swaps the files under
an index, a failure between two saves, another command in another terminal, a merge that stops in
the middle and is finished days later, or never.

These modules model that: the control of each command, effect by effect, over data reduced to what
the properties tell apart. TLC checks them on small instances; TLAPS proves the most important
invariants for every value of the constants.

## Inventory of the system

| Part | Source | State it keeps | Operations |
|---|---|---|---|
| Feature storage | `internal/storage` | `.fogit/features/*.yml`, one file a feature; `.fogit/metadata/id_index.json` (git-ignored), a copy of it in memory | Create, Get, List, Update (in place, or by rename), Delete, index load, rebuild and save |
| Relationships | `internal/features/relationships.go`, `create.go`, `delete.go`, `pkg/fogit/cycles.go` | each feature's outgoing relationships, in its file | link (cycle check, automatic inverse), unlink, relationship clear, clean-up on delete, `create --parent` |
| Validator and auto-fix | `internal/features/validator` | none; rewrites feature files | E001 to E006, `validate --fix` for E001, E002, E003 |
| Merge workflow | `internal/features/merge.go`, `merge_state.go` | `.fogit/MERGE_STATE`; feature states; git branches | merge, merge --continue, merge --abort |
| Git adapter | `internal/git/repository.go` | branches, HEAD, work tree, stash, MERGE_HEAD | branch, checkout, commit, merge, squash, abort, delete, read and update on another branch |
| Branches, switching | `internal/features/branch.go`, `workflow.go`, `switch.go`, `git.go` | HEAD, branches | the branch a new feature gets, its automatic commit; switch |
| Lifecycle, versions | `pkg/fogit/feature.go`, `internal/features/commit.go`, `update.go`, `reopen.go` | versions and their timestamps | derive state, transitions, new versions, reopen, commit |
| Type and category configuration | `internal/features/relationship_config.go`, `pkg/fogit/config.go` | `.fogit/config.yml`; relationship types in feature files | define, update, rename, delete (migrate, cascade, force), import |
| Import, export | `internal/exchange` | feature files, an exchange file | export; import, plain, `--merge` or `--overwrite` |
| Cross-branch discovery | `internal/features/finder.go`, `relationships.go` | files on branches not checked out | find and list features on all branches; link between branches |
| Traversal, impacts, tree | `internal/features/traversal.go`, `impacts.go`, `tree.go` | none | reads over the relationships |
| Filters, search, output, prompts, hooks, self-update | several | none | pure functions and I/O |

How they interact:

- Every command goes through `fogit.Repository` (`pkg/fogit/repository.go`), which `internal/storage`
  implements. A command gets *objects*, changes them, and gives them back to `Update`; nothing locks
  the files in between.
- Storage and git share the work tree. git versions the feature files, so each branch has its own.
  It does not version the index (`internal/setup/init.go:58`), so there is one index for all
  branches.
- The relation between features is spread over their files. link, clear, delete and `--fix` touch
  several files, one save after another, without a transaction.
- merge drives storage (it closes features) and git (commit, checkout, merge, delete), and leaves
  `MERGE_STATE` when git stops in conflict. That file is neither git-ignored nor left out of fogit's
  commits.
- link across branches drives both the other way round: what storage cannot save in the work tree,
  git stashes away, checks out, commits and comes back for.
- the configuration names the types that feature files mention; renaming or deleting a type rewrites
  those files first and saves the configuration last.

What makes each part correct:

- storage: a lookup answers with the feature asked for; no write or removal hits another feature's
  file; features do not vanish; seen from outside the store is a map from IDs to features;
- relationships: none comes to lead nowhere when features are deleted; categories that forbid cycles
  have none; both halves of a pair are there, or validate can repair it, and loses the tie only where
  it says that a fix failed;
- merge: no work is lost when a branch is deleted; the branch's work has been delivered by then; the
  base branch itself is never deleted; an abort puts things back;
- lifecycle: the version found by its key is the one begun last, and the only unfinished one; what is
  on record of older versions stays; states follow the documented transitions;
- configuration: what a command saves the next can load; every relationship's type is configured,
  whatever is renamed or deleted; a rename converts both halves of a pair or neither;
- exchange: an import that was stopped and begun again comes to what one run would have come to; it
  leaves no relationship to nothing, and replaces nothing it was not told to;
- cross-branch work: nothing the user has not committed is lost, a commit touches one feature's file
  only, an older copy of a feature never replaces a newer one, and the user comes back;
- traversals: what is reported is what can be reached, each thing once and at its distance.

`PROJECT.json` lists every hazard this survey found at its line, with the property that covers it or
the reason why none does.

## Modules

| Module | Is | Models |
|---|---|---|
| `FeatureMap` | abstract specification | what the interface `Repository` promises: a map, changed one entry at a time |
| `FeatureStore` | component | `internal/storage`, with processes, crashes and branches; refines `FeatureMap` |
| `FeatureStore_proofs` | proofs | types; safety when features share no slug; the refinement of `FeatureMap` by one command at a time |
| `MCFeatureStore` | TLC instances | |
| `Relationships` | component | link, unlink, clear, delete, create, validate --fix |
| `CycleSearch` | algorithms | the two depth-first searches, compared with reachability |
| `Relationships_proofs` | proofs | types; no relationship comes to lead nowhere; acyclicity; complete pairs; fixes keep ties |
| `MCRelationships` | TLC instances | |
| `GitTree` | substrate | the git operations fogit uses, as operators on branches and a work tree |
| `MergeFlow` | component | merge, --continue, --abort over `GitTree`, with the user's steps |
| `MergeFlow_proofs` | proofs | types; the base branch survives; delivery before deletion; no work lost; abort restores |
| `MCMergeFlow` | TLC instances | |
| `Versions` | operators | version keys: their weights, increments, and the orders constraints use |
| `FeatureRounds` | abstract specification | the documented life cycle: rounds from open to closed |
| `Lifecycle` | component | versions and derived states under every command; refines `FeatureRounds` |
| `Lifecycle_proofs` | proofs | types; the newest version is current, older ones stay, bounds are kept, the refinement |
| `MCLifecycle` | TLC instances | |
| `RelConfig` | component | commands on types and categories, with the feature files they rewrite |
| `RelConfig_proofs` | proofs | types; the configuration loads and covers the relationships; pairs are kept |
| `MCRelConfig` | TLC instances | |
| `Exchange` | component | export and import over `FeatureMap`, beside other commands |
| `Exchange_proofs` | proofs | types; no new orphans; import keeps what it is not told to replace; states arrive; a resumed import ends as one would |
| `MCExchange` | TLC instances | |
| `GitFiles` | substrate | git file by file: branches, remotes, work tree, what is tracked, stash |
| `CrossBranch` | component | feature branches, switch, find and link across branches, over `GitFiles` |
| `CrossBranch_proofs` | proofs | types; uncommitted work is safe; both halves saved; no other file touched; ties are kept |
| `MCCrossBranch` | TLC instances | |
| `Traversal` | algorithms | impacts, recursive listings and tree over `Relationships`, compared with reachability |
| `Traversal_proofs` | proofs | the two cycle searches and the three walks end, with what they are to find |

A definition `X_Variant`, commented "Variant: ...", is a faulty form of `X`. No specification uses
it. It is there so that the properties can be seen to fail when the code has such a fault
(`PROJECT.json`, "mutants").

### FeatureStore

`trees[b]` are the feature files of branch `b`; `branch` is the one checked out; `diskIdx` is
`id_index.json`. Each process has a `pc`, the index it loaded (`mem`), the object it holds (`held`),
and the paths its call found and chose (`oldf`, `newf`). A feature is its ID and its name, the two
things that decide where it is stored. A file name is a slug and a suffix; the cascade of
`GenerateFeatureFilename` (slug, slug and prefix, slug and ID) is kept as it is. A name whose slug
is empty takes its ID's prefix for one, which is one more way for slugs to be distinct.

A call that writes is split where its effects become visible: `CreateBegin`, `CreateWrite`,
`CreateIndex`; `UpdateBegin`, then `UpdateInPlace`, or `RenameWrite`, `RenameRemove`, `RenameIndex`;
`DeleteBegin`, `DeleteRemove`, `DeleteIndex`. `WriteFeatureFile` writes a temporary file and renames
it, hence one step. Looking a feature up (`FindResults`) may repair the index and save it, and that
is part of the step that looks it up. `Crash` ends a process anywhere, and its memory with it.
`Checkout` is fogit's own or the user's git: the feature files change, the index does not, and
objects fetched before are not used after.

### Relationships and CycleSearch

`links` is the union of the relationships in all feature files, as triples of source, type and
target; IDs, descriptions and version constraints do not matter here. Saving a feature's file is one
step. A command that saves several files has a `call` record that says what is left to do: the
inverse of a link, the opposites still to be removed by clear, the features delete still has to
clean, the issues fix has found. `Stop` ends a command between two saves, whether it is killed or
returns an error. Two commands go on after a failure: clear, when an opposite cannot be removed
(`ClearOppositeFails`), and `validate --fix`, which puts a fix that failed on the list `failed` and
takes the next issue. `tidy` is a history variable: it turns false when a command
leaves one half of a pair behind by design (unlink, `--parent`, an alias as type) or is cut short.

A bidirectional type, or one without an inverse, has `InverseOf[t] = None`. `Strangers` are strings
that are the ID of no feature of this branch, such as the name given to `--parent`. `Nameable` is what
a user can give there: a stranger, or the ID of a feature that lives or was deleted. Nothing is
checked (`create.go:68`), but an ID is random, so that of a feature still to come cannot be named.
`Reaches` and `Acyclic` are the definitions the searches are compared with.

`validate --fix` has two views that may differ. The issues come from what is on disk, and in
branch-per-feature mode from the features of all branches (`Seen`; the strangers in `Elsewhere` are
features of other branches). The fixer has loaded the features of the current branch once
(`call.memory`): it changes them there and saves a feature as it has it (`Fix`). So a change whose
save failed (`FixFails`) may still reach the disk with a later save of the same feature, and the
inverse of a relationship to a feature of another branch is never added (`FixMissingElsewhere`).

`CycleSearch` has the two searches as the code runs them. A search is the sequence of states of its
loop, a function of the number of steps, so that theorems can be stated over it: `path` is the stack
of calls under way, and `seen` the edges that their loops have looked at, in whatever order
(`Look`). `SearchStep` and `VisitStep` are one turn: a call looks at its next edge, and makes a call
for the node it leads to or not, or returns. `DfsSearchLength` and `DetectCyclesLength` are numbers
of turns; that the search is over by then is part of the properties.

### GitTree and MergeFlow

A tree is what has been done in it: how often each feature changed its state (odd: open; even:
closed), which pieces of user work it holds, and the contents of `MERGE_STATE`, which git carries
about like any file. What is done is only ever added to, so a merge of two trees is their union, and
whether something is *lost* can be asked of any state. Checking out carries uncommitted changes over
where git would and is refused where git would refuse.

`op` is the command under way with its next step. One action is one effect: `CloseFeature` (for each
feature), `CommitClosure`, `CheckoutBase`, `MergeBranch` / `MergeStops` / `MergeFails`,
`SaveMergeState`, `DeleteMerged`; `ContinueBegin`, `DeleteMerged`, `ClearMergeState`; `AbortBegin`,
`ReturnToBranch` / `CannotReturn`, `ReopenFeature`, `Reopened`, `ClearMergeState`. `Stop` cuts a
command of `Faults` short. go-git's commit does not promise to remove `MERGE_HEAD`, so both outcomes
are allowed. Between commands the user creates branches and features, edits, commits, checks out,
resolves conflicts, and aborts by hand. A user who is `Disciplined` finishes one merge before
anything else.

### Versions and Lifecycle

A feature's state is stored nowhere. `DeriveState` reads it off the timestamps of one version, the
one `GetCurrentVersionKey` picks by the weight of its key (`Rank`). So every command that stamps a
version or adds one may change the state. `history[f]` is the set of `f`'s versions: key, time
begun, time last modified, closed or not. Time is the number of timestamps taken; only whether two
are equal, and which is later, matters.

`Create`, `UpdateFields`, `UpdateState`, `Reopen`, `Commit`, `Merge`, `MergeContinue` and
`MergeAbort` are the commands, each in one step. (`MergeFlow` has the steps of a merge. Here they are
together, because what is asked is what the timestamps add up to.) `UpdateState` is the whole of
`update --state`, with the stamp that follows the transition. `Reopen` overwrites a version with the
same key, as the assignment to the Go map does. `Current` leaves a tie open, since Go ranges over a
map in any order. `home` is the branch in the metadata, by which commit and merge find features
(`OnBranch`).

The constant `Careful` says whether the user passes keys that go up: with it, `--version` is given a
key above the current one and no simple key after a semantic one, and `--patch` is not asked of
simple versions. `workflow.version_format` may change at any time. Without `Careful` the properties
fail in the ways listed below. `Small` is the bound on the parts of a key: the weights overflow at a
thousand.

`IsSatisfiedBy` is the test of a version constraint (E006, impacts), which orders keys in a way of
its own.

### RelConfig

`file` is the relationships part of `.fogit/config.yml`; `Valid` is what `Config.Validate` demands of
it. `ties[k]` are the types that the two halves of a link carry in the feature files. A command that
rewrites feature files has a `call` with what each type becomes (`conv`), the features still to do
and the configuration to save at the end: `ConvertFeature` is one save. `RenameSave` validates and
saves, `RenameRejected` is the validation that fails after the rewriting; `MigrateSave` and
`CascadeType` do not validate, as in the code. `--cascade` of a category drops its types one after
the other (`DropNext`) and saves once. `delete` asks first, and while the prompt waits another
terminal may link; the answer is carried out with what was read before. `loose` is a history
variable: the types that a rejected, stopped or forced command left features with.

`Careful` says what a user must mind because no command does: not to delete or move away what the
defaults name. `ConfigLoads` holds for that user only, and not after a category was deleted by
force, which always leaves its types without a category that `Validate` accepts; the run
`ConfigBricked` is one of another user.

### Exchange

`repo` is the map of `FeatureMap` (its actions are `FeatureMap`'s, by `INSTANCE`), `file` the exchange
file and `call` the import under way: its mode, the entry it is at, and the IDs and names it listed
at its start, with which it goes on to compare. Each entry is a step: `SkipEntry`, `StoreEntry`,
`RefuseEntry` (the repository has the ID, or has not), `EntryFails`. `Stop` kills the import between
two entries; other commands run between any two steps. `Written` cuts a timestamp to the second, as
RFC 3339 does. Files are what `Export` wrote at some earlier time, or `Drafts`.

`excused` is a history variable: the IDs whose absence is not to be blamed on an import, because they
were deleted, skipped for their name, failed, not reached, or never in the file. `origin` is what the
first of several runs of one import started from.

### GitFiles and CrossBranch

`MergeFlow` asks whether work is lost in merges, so its trees only grow. Here a tree is a function
from paths to contents, because what matters is which file is overwritten. `GitFiles` has the
operations of git that link and switch use: a checkout that is refused when it would overwrite, a
forced one that is not, stash push (tracked files only) and pop, commits of given paths, a detached
HEAD on a remote branch. What git does on conflicts of a stash pop is left out: a pop is modelled
where the files it brings are committed as they were when it was pushed and unchanged since, which is
where link's own pop finds itself after its return.

`LinkBegin` finds both features as `FindAcrossBranches` does (current branch, trunk, other branches,
remotes) and computes both contents; then each is saved in the work tree (`SaveHere`) or on its
branch, by `StashChanges`, `CheckoutTarget` or `CheckoutRefused`, `CommitFile` or `CommitFails`,
`Return` and `Pop`. `Kill` ends the command before any of these. `CreateFeature` is branch, file and
history in one step. `Switch` goes to any branch: switch prefers a branch recorded in the feature's
metadata or version to the one it found the feature on, and what is recorded may be anything, so it
is not kept. The automatic commit that may follow (`AutoCommitFeature`) is a step of its own,
because it commits *everything* in the work tree. `live` is a history variable: what was written and
is not committed.

### Traversal

`Impacts`, `Listing` and `Printed` are the three walks as the code runs them, with their queue and
visited set, on the `links` of `Relationships`, so that the run `Relationships` compares them with
`Within`, the features at a distance, on every graph a command leaves, cut short or not. They change
no state. Like the searches they are functions of the number of turns: `ImpactStep` and `ListStep` are
one turn of the loop over the queue, and there are as many turns as live features. `TreeShowsAll`
says the same of the levels of the tree. `InOrder` is the arbitrary order in which the code meets the
members of a set.

## Runs

| Run | Instance | Shows |
|---|---|---|
| `StoreSequential` | 3 features, 2 names any of them may take, one shared ID prefix, 1 process, no crash, 1 branch | the store implements `FeatureMap`; one file a feature; nothing lost |
| `StoreDisjoint` | 2 features, 3 names, slugs not shared between features, 2 processes, crashes, 2 branches, at most 2 files | the index is always sound; no lookup, write or removal ever reaches another feature |
| `StoreStaleIndex` | 2 features, 1 slug, 2 branches, 1 process | **violated**: a lookup after a checkout returns another feature |
| `Relationships` | 3 features, 1 stranger (a feature of another branch), 2 pairs and 1 single type, 1 alias, at most 5 relationships, failures anywhere, at most 4 once a save of a fix has failed | pairs, cycles, deletion and fixes; both cycle searches, impacts, listings and tree on every graph a command leaves |
| `RelConfig` | 6 type names, 3 categories, 2 ties between 2 features in opposite directions, 3 commands, cut short anywhere, careful user | the configuration loads, its types cover the relationships, pairs stay pairs |
| `ConfigBricked` | the same, a user who is not careful, no failures | **violated**: a command saves what the next refuses to load |
| `Exchange` | 3 features, 2 names, 4 drafts or any export, 5 commands, kills and failures at every entry | resumed imports end as one would; no orphans; nothing replaced unasked; states arrive |
| `CrossBranch` | 2 features here and 1 on a remote branch, trunk and 2 branches, a file of the user's, 5 commands, kills and failing commits | no uncommitted work lost; both halves saved; nothing else touched; the user comes back |
| `SaveOverwrites` | the same, two features of one slug | **violated**: a link writes one feature over another |
| `MergeFlow` | `main` and one branch, 2 features, merges cut short anywhere, conflicts, squash and plain, disciplined user | no work lost, delivery before deletion, base survives, abort restores |
| `MergeStateReturns` | 1 feature, `--continue` cut short | **violated**: a committed MERGE_STATE returns and work is lost |
| `Lifecycle` | 2 features, 1 branch, both formats, 5 explicit keys, 10 lower bounds, 7 timestamps, careful user | the five properties below, `FeatureRounds` among them |

*Fairness.* Only `CrossBranch` assumes any: weak fairness of the steps of a command that has begun
(`CreateStep \/ LinkStep`). They are straight-line code in one process and wait for nobody, so one of
them is enabled until the command ends; a process that is not killed takes it. `Kill` may still come
at any time, and what `ComesBack` says then is only that the command is over. Nothing is assumed of
the user, who may never give another command. The other runs check safety and action properties: a
command that is killed may never be finished, and nothing in the code runs again by itself. Runs
without deadlock checking are those whose bounds stop every further step, as their cfg says.

*Bounds.* Three features and two names make all three stages of the file name cascade happen: the slug
taken, the prefix taken, the whole ID. `MaxFiles` and `MaxLinks` are state constraints: what they cut
off are further copies that crashed renames leave behind, and graphs of more than five relationships.
`MaxUnsaved` is one too: once a save of a fix has failed, there are at most four relationships in
memory and files together, enough for two broken pairs whose fixes fail in turn. The one stranger is a
feature of another branch, which to all commands but `validate --fix` is the same as a string that
names nothing; the proofs are about strangers of both kinds. Three features and two types of one
category are enough for a cycle that needs transitivity, a cycle across types, one with a side branch,
and a detour next to a direct way, which is what a depth limit could get wrong. `MaxChanges = 4` lets
a feature be created, closed, reopened and closed again in a merge. Two processes reach every pairwise
interleaving of the steps of two calls. Seven timestamps let a feature be created, closed and reopened
three times, from simple to semantic keys, or two features be worked on in turn. `MaxCommands = 3` of
`RelConfig` allows a definition, a rename that is cut short or rejected and a deletion, with links
(not counted) in between. `MaxChanges = 5` of `Exchange` allows to create a feature, export, change or
delete, and import twice; a draft has at most three entries, enough for one that meets another by
name, one by ID, and a relationship between. Its feature has at most one relationship (`MaxLinks = 1`)
and a second has two timestamps (`Fine = 2`), so that two times may or may not fall into one second.
In `CrossBranch` five commands let the user create a feature, edit, link, switch and link again; one
edit of one file tells lost work from kept.

Properties, and the hazard each is aimed at:

- `IndexSound`, `GetReturnsAsked`, `NoForeignWrite`: an index entry whose file exists is trusted
  unread (`storage/repository.go:58`).
- `OneFilePerFeature`, `NoLoss`, `ImplementsMap`: the rename writes, removes and indexes in three
  steps (`:276-290`), and the file name depends on what else is there.
- `NoneOrphaned`: delete cleans the files of others first, and its own file goes last. Only `create
  --parent` makes a relationship that leads nowhere.
- `StrictAcyclic`, `TidyAcyclic`: the check of one relationship must keep a whole category acyclic,
  with the inverses that are added unchecked.
- `PairsComplete`: two saves make one pair.
- `FixKeepsTies`: fixes found in one pass are applied one by one to files that earlier fixes changed,
  and half a pair is on two lists, to be completed and to be removed. Only a tie whose completion is
  listed as failed may go.
- `SearchFindsPaths`, `CheckerFindsCycles`: the searches with their shared visited sets agree with
  the definitions on every graph a command leaves, cyclic ones included.
- `ImpactsByDistance`, `ListsWhatItReaches`, `TreeShowsAll`: breadth-first walks with a depth limit
  and one visited set; a tree that keeps no visited set at all.
- `ConfigLoads`: some commands save without validating, all validate when they load.
- `TypesConfigured`, `PairsKept`: features are rewritten one by one before the configuration is
  validated and saved (`relationship_config.go:152`).
- `ResumeSame`, `ImportKeeps`, `NoNewOrphans`: import compares with what it listed at its start, and
  stops anywhere (`exchange/import.go:80`, `:111`).
- `StatesArrive`: states are derived from the order of timestamps that export cuts to the second.
- `WorkSafe`, `ComesBack`: stash, checkout, commit, forced checkout, pop, with a kill between any two
  (`git/repository.go:953`).
- `OthersKept`: the path a feature is written to on another branch is made of its name alone.
- `HalvesSaved`: one link, two saves of different kinds, with failures that are only warned about.
- `TiesKept`: a feature has a copy on each branch, and a command finds one of them.
- `NoWorkLost`, `DeleteDelivers`, `BaseSurvives`: the branch is deleted without asking git whether it
  was merged (`merge.go:190`, `:401`).
- `CurrentIsNewest`, `SupersededFrozen`: commands find a version by the weight of its key, whichever
  format keys are of, and nothing but the key says which version is current.
- `DemandsKept`: a key chosen by one order is judged by another.
- `ImplementsRounds`: states are computed from timestamps that many commands set.
- `AbortRestores`: abort goes through four effects, each of which may find things changed.

## What the code does that its documentation does not say

Four runs end in a violation; each is a trace of the model that the code follows. They are quoted
with their lines in `PROJECT.json`, "findings".

1. *Stale index* (`StoreStaleIndex`). After a checkout the git-ignored index maps an ID to a file
   that, on this branch, is another feature's; `findFeatureFile` does not look inside.
2. *MERGE_STATE is committed* (`MergeStateReturns`). It can come back with a checkout when the merge
   is long settled; `merge` then demands `--continue`, which deletes the branch.
3. *A configuration nobody can load* (`ConfigBricked`). Deleting a type or category, and renaming a
   category, save without validating: what the defaults name can go. Deleting a category in use with
   `--force` does it every time.
4. *One feature over another* (`SaveOverwrites`). link across branches makes the path of the feature's
   name alone; the suffix that told two features of one slug apart is not in it.

Others have no run of their own here. Those in storage, cycles, fixes, merge and commit follow from
the models with other constants; the rest comes from reading.

- Storage: renaming "Login" to "login" writes `login.yml`, then removes it.
- Relationships: link checks the relationship, not the inverse it adds, which may close a cycle;
  `validate --fix` takes half a pair both for one that lacks its inverse and for a dangling one, and
  turns it round; where completing it fails, it removes the half that was there, so the tie is gone,
  and in branch-per-feature mode completing always fails for a half that leads to a feature of another
  branch; `create --parent` takes a name for an ID, and the ID of a deleted feature for a parent; with
  a type whose cycles are allowed, `tree` never ends; recursive listings leave out incoming
  relationships of features met before.
- Merge: with `base_branch: develop`, a merge on `develop` deletes `develop`; a squashing merge in
  conflict leaves no `MERGE_HEAD`, so `--continue` does not see the conflict.
- Versions: a second commit passes over the features in progress; `update --state open` on a closed
  feature gives one in progress; `--patch` on a simple version overwrites the closed one; a
  `--version` that is lower or does not parse leaves the feature closed; the prompt's `[M]` gives a
  minor version.
- Configuration: a rename that fails validation has rewritten the features already; `--migrate-to` a
  type without an inverse orphans the other halves; `--keep-old-as-alias` forgets earlier aliases;
  `min_similarity` is set between 0 and 1 and read between 0 and 100, and 0 resets the whole section.
- Import: a conflict does not "abort import, no changes made"; the check of relationship targets is
  thrown away; `--overwrite` of a feature met by name fails.
- Branches: the automatic commit takes everything in the work tree; a feature that is on a remote
  branch only is saved to no branch; `switch` refuses changes that its help says it stashes; nothing
  writes the metadata by which commit and merge find a branch's features; find and list disagree on
  which copy counts; a stash that fails exposes the user's changes to `checkout --force`.

The `MergeFlow` run is restricted to what holds. Its user is disciplined, and only merges (not
--continue and --abort) are cut short, because number 2 shows what happens otherwise. The same loss
follows from `git merge --abort` by hand and then `--continue`.

## Proofs

All theorems are about every value of the constants. A regime some of them need is a condition on the
constants, which the instance of the run that checks the same property satisfies:

| Regime | Means | Why it is needed |
|---|---|---|
| `DisjointSlugs` | names of different features share no slug | run `StoreStaleIndex` |
| `SequentialUse`, `DistinctSlugs` | one process, none killed, one branch; distinct names have distinct slugs | the store promises nothing to overlapping commands; a rename that keeps its slug is a finding |
| `StrictTypesPaired` | where cycles are forbidden each type has an inverse of its category, and the validator looks at one of the two | the default configuration is such; of others the inverse that link adds unchecked may close a cycle |
| `OneForward` | and at one at least | `getForwardRelationshipTypes` passes over a type only for the other of its pair, unless it is its own inverse and not called bidirectional |
| `Base \in Trunks` | the base branch is one `IsTrunkBranch` knows | with `base_branch: develop` a merge on it deletes it |
| `Disciplined` | the user finishes one merge before anything else | the user may do by hand what MERGE_STATE does not know of |
| `"continue" \notin Faults` | no `--continue` is cut short | run `MergeStateReturns` |
| `Careful` | in `Lifecycle` and `RelConfig`: the user minds what no command checks | run `ConfigBricked`; the findings on versions |
| `OnePairFiles` | a file given to `relationship import` has one type or one pair | `--overwrite` may pair types anew, and rewrites no feature |
| `TruthfulDrafts` | a file made by hand states what follows from its timestamps | import takes timestamps, not states |
| `OwnPaths` | every feature has a path of its own, the one its name makes | run `SaveOverwrites` |

### Storage

| Theorem | Says | Argument |
|---|---|---|
| `TypeCorrect` | `Spec => []TypeOK` | `TypeOK` is inductive: it includes that a process inside a call holds the object and paths of that call |
| `DisjointSlugsSafe` | with `DisjointSlugs`, `IndexSound`, `GetReturnsAsked` and `NoForeignWrite` always hold | `DisjointInv`: every file on every branch, every index entry and every path of a running call lies under a slug of the feature it belongs to. The properties are not inductive by themselves, as a checkout brings back files of a branch that the index has never seen |
| `IndexSoundAlways`, `GetReturnsAskedAlways` | the same of one property each; `IndexSound` also under `SequentialUse` and `DistinctSlugs` | `DisjointInv`, `SequentialInv` |
| `OneFileAlways`, `NoLossAlways` | with `SequentialUse` and `DistinctSlugs`, one file a feature and nothing lost | `SequentialInv`: a file is under the slug of what it holds; one feature has two files only while its rename is between its write and its removal; the index is exact, but for the entry of the call under way; and what that call found is still so. `FindExact` says what a lookup then returns |
| `MapAlways` | with the same, `Spec => ImplementsMap` | `StoredName(id)` is defined with `CHOOSE` among the files of `id`; that there is at most one, or that both have the new name, makes it a function of the step. Each step is one change of one entry, or a stutter |

### Relationships

| Theorem | Says | Argument |
|---|---|---|
| `TypeCorrect`, `NoneOrphanedAlways` | `Spec => []TypeOK`, `Spec => NoneOrphaned` | `RelInv` adds what a running delete has left to do: whoever still refers to the feature is on its list; and what a link or a fix under way may still add: it ends at a live feature. So the file goes when nothing leads to it, and whatever else a step adds leads to what is there, except under `create --parent` |
| `StrictAcyclicAlways` | `Spec => []StrictAcyclic` | removing edges keeps a graph acyclic; adding one whose target does not reach its source does too (lemma, by a set closed under the edges that holds the new edge's head and not its tail); `create --parent` adds an edge from a node nothing leads to |
| `PairsCompleteAlways` | `Spec => []PairsComplete` | `PairInv`: the relationships that lack their opposite are those that the command under way is about. `PairsComplete` speaks of the time between commands only |
| `TidyAcyclicAlways` | with `StrictTypesPaired`, `Spec => []TidyAcyclic` | `ForwardAcyclic`: the graph is acyclic together with the inverse about to be added. Link looks for a path over both directions of every pair, and where edges go both ways reaching does too (`ReachesBack`): no path there is stronger than none among one direction of each |
| `FixKeepsTiesAlways` | `Spec => FixKeepsTies` | `FixInv`: memory has no more than the files but inverses of what is listed as failed, and lacks nothing of theirs but orphaned relationships, halves whose opposite is kept, and what is listed as failed; whatever fix has not come to is in both. `FixProgress` is what each step does: a relationship is broken up only after all inverses were tried, so its opposite is there or its inverse failed |

### Searches and walks

`Traversal_proofs` is about loops, so it needs induction over the number of turns, and that a loop,
given by a recursive function, has a run. Both are proved in terms of sets, from the pigeonhole
principle: `SetInduction` (a set of numbers with 0 and with the successor of each member has them all;
else the numbers up to one it lacks, it taken away, would fit into themselves with a place to spare)
and `Iteration` (of two partial runs the longer continues the shorter). So no operator has to be
passed to a library theorem.

| Theorem | Says | Argument |
|---|---|---|
| `SearchFindsPathsAlways` | `Spec => []SearchFindsPaths` | `SearchInv`: whatever was visited and is not on the path has had all its edges looked at, and these lead to visited nodes; a search that ends without a find has visited a set closed under the edges. `SearchStep` uses up an edge or a call each turn (`SearchLeft`) |
| `CheckerFindsCyclesAlways` | `Spec => []CheckerFindsCycles` | `CheckInv`: the path follows the edges, so an edge back into it closes a cycle; until one is reported the edges looked at lead to black nodes or inward along the path, and every set of black nodes has one without an edge into the set (`Settled`): a node that turns black leads to black ones only, and none of these leads to it. `CheckLeft` goes down with each turn |
| `ImpactsByDistanceAlways` | `Spec => []ImpactsByDistance` | `BreadthFirst`: features are met once, at their distance; the queue goes by depth, in at most two depths at a time, and what left it is no deeper; all that leads to what left it has been met, no more than a level below. A turn takes one feature from the queue, and each feature met gets into it once, so the turns suffice; what is met forms a chain down to the deepest (`DepthBound`), so without a limit as many levels as features suffice too |
| `ListsWhatItReachesAlways` | `Spec => []ListsWhatItReaches` | `ListInv`: the same search, and what it has listed so far is what `Listed` says of the features done. Outgoing, the relationships of the feature taken are none listed before. Incoming, those left out come from features met before, and of each of these one is listed already, except of the feature asked for, whose own are never left out |
| `TreeShowsAllAlways` | with `StrictTypesPaired` and `OneForward`, `Spec => []TreeShowsAll` | by the acyclicity of the strict types (`StrictAcyclicAlways`, `TidyAcyclicAlways`): of the features not printed one has its parents among those printed (`PrintedAll`), and of those a level may still come to one has no parent left, so each level has fewer below it (`PrintedEnds`) |

The lemmas under the second to fourth are of any depth and any choice of types or categories; the
properties take those that the run can tell apart.

### Merge

| Theorem | Says | Argument |
|---|---|---|
| `TypeCorrect` | `Spec => []TypeOK` | every operation is at one of its own steps, with features of its own left |
| `BaseSurvivesOnTrunk` | with `Base \in Trunks`, `Spec => []BaseSurvives` | `SurvivalInv`: no MERGE_STATE, in the work tree or committed on any branch, names a trunk, and no operation past closing features works on one. It has to speak of committed files, because checkouts bring them back. It needs no discipline and allows any command to be cut short |
| `AbortRestoresAlways` | `Spec => []AbortRestores`, of any user and any fault | `ReopenInv`: from the return on, the branch is checked out, git is not merging, and what is off the list is open |
| `DeleteDeliversAlways` | with `Disciplined` and `Base \in Trunks`, `Spec => DeleteDelivers` | `DeliverInv`: at each step of a merge, where the branch's work has got to; and, while a merge waits for its `--continue`, that base is checked out and the work tree, or base, has all the branch had |
| `NoWorkLostAlways` | with these and no `--continue` cut short, `Spec => []NoWorkLost` | `WorkInv`: no MERGE_STATE that a checkout may bring back names a branch that could be deleted again (`GoneInv`), branch names are not used twice (`UsedInv`), and the work tree holds what the branch checked out does (`HeldInv`). `GoneInv` is what a killed `--continue` breaks |

### Versions and life cycle

| Theorem | Says | Argument |
|---|---|---|
| `TypeCorrect` | `Spec => []TypeOK`, of any user | a feature that has versions keeps some (`KeptLonger`): a reopening may replace one by its key, never the last |
| `NewestAlways` | with careful keys, `Spec => [](TypeOK /\ CurrentIsNewest)` | `LifeInv`: every feature has a version that *leads* the others by weight, by age and in being unfinished. Age alone would not be inductive, as the next command looks at weights. `RankFollowsParts` is the arithmetic: below a thousand, weights order keys as their parts do, unless a simple key follows a semantic one |
| `SupersededFrozenAlways` | `Spec => SupersededFrozen` | a step changes only the leader, and a superseded version is older than some other, so it does not lead |
| `DemandsKeptAlways` | `Spec => DemandsKept` | the leader's key only goes up in the order of the parts (`LeaderAfter`), and lower bounds are monotone in it (`DemandsMonotone`) |
| `RoundsAlways` | `Spec => ImplementsRounds`: `Lifecycle` implements `FeatureRounds` | the number of versions and the leader's state, feature by feature: a step begins, reopens, or restamps the leader along an allowed move |

Each action of `Lifecycle` is first shown to do one of those three things to each feature
(`FeatureStep`); the four theorems about a careful user follow from that alone.

### Configuration of types

| Theorem | Says | Argument |
|---|---|---|
| `TypeCorrect` | `Spec => []TypeOK` | `Asked`: what a deletion waits to delete is there, as only `link` runs meanwhile |
| `ConfigLoadsAlways` | for a careful user, `Spec => []ConfigLoads` | `LoadsInv`: what a command that does not validate is going to save is valid, and what a prompt waits for does not hold what the defaults name; or a category was deleted by force, and then no step is left. `DropLoads` and `RecategorisedLoads` are the reasons: a type goes with its inverse (`PairClosed`), and a category's types with the category |
| `TypesConfiguredAlways` | for a careful user, `Spec => []TypesConfigured` | `HalvesInv`: a rewriting under way sends every name in use to one that is configured now and to one that stays, and what it will not touch any more stays. Without `SafeTarget` the proof fails where a migration names its own pair |
| `PairsKeptAlways` | for a careful user, with `OnePairFiles`, `Spec => PairsKept` | `WholeInv`: what is converted and what will be saved are of one renaming, migration or removal (`Matches`), and each half of a tie that was whole has its old name while its feature is still to do, and afterwards the name the conversion gives it (`Underway`). `RenameTwins` and `MigrateTwins` then say that the two converted names are inverses in the new configuration: a valid one leaves no choice, as an inverse has to point back (`TwinsBothWays`). For a rename this needs the validation, which a migration and a removal do not have |

### Exchange

| Theorem | Says | Argument |
|---|---|---|
| `TypeCorrect` | `Spec => []TypeOK` | what is exported is an entry again (`ExportTyping`), and what is stored is a feature |
| `NoNewOrphansAlways` | `Spec => []NoNewOrphans` | `IInv`: an ID that is present or excused stays so (`AccountedStays`); relationships lead into these or, while an import runs, into its file; every entry before the current one is accounted for. `NoNewOrphans` speaks of the end of an import only, so by itself it says nothing of its steps |
| `ImportKeepsAlways` | `Spec => ImportKeeps` | from the types: a step stores the current entry, and over a feature that is there only with `--overwrite`, whatever the import listed at its start |
| `StatesArriveAlways` | with `TruthfulDrafts`, `Spec => StatesArrive` | cutting seconds is monotone (`WrittenMonotone`), so later stays later or becomes equal: of the comparisons the state is derived from, only that of `created` and `modified` can come out another way |
| `ResumeSameAlways` | `Spec => []ResumeSame` | `ResumeInv`: every feature is what it was when the first of the runs began, or what a single run makes of it; the listing of the run under way has all that was there at first and of the rest only what the file has; what the run has passed is as a single run would have it. `EntryResumes` is the step: where the file is unambiguous an entry fares now as it would have at first |

### Links across branches

| Theorem | Says | Argument |
|---|---|---|
| `TypeCorrect` | `Spec => []TypeOK` | with it, that a link away from its branch has one to return to |
| `WorkSafeAlways` | with `OwnPaths`, `Spec => []WorkSafe` | `CrossInv`: what is not committed is in the work tree or in a stash that was taken from the tree it will be popped on. `RepoInv` is what holds between any two steps of git's (files of a branch that is checked out are tracked and its work tree has no less of a feature's relationships); `LinkInv` what a link under way adds: `AwayInv` for the time it is on another branch with the user's changes in the stash, `SavesInv` for what it has computed and not saved |
| `OthersKeptAlways` | with `OwnPaths`, `Spec => OthersKept` | the path of what is to be saved is the feature's own, by `SavesInv`, and the work tree differs from the branch checked out in that path only, by `AwayInv` |
| `HalvesSavedAlways` | with `OwnPaths`, `Spec => []HalvesSaved` | `HalvesInv`: of a link without a warning each half is in a file, in the stash, or still to be saved |
| `TiesKeptAlways` | with `OwnPaths`, `Spec => TiesKept` | `SavesInv`: what is to be saved has no fewer relationships than the copy it replaces has; trees of branches grow, copy by copy |


Beside the regimes, the assumptions are those the modules name: `ConstantsAssumption` and
`NoneAssumption` (types of the constants, null values distinct), `ConfigAssumption` (what
`Config.Validate` demands of types and inverses), `MergeAssumption`, `LifecycleAssumption`,
`ExchangeAssumption` and those of `CrossBranch`. TLC evaluates them in every run. `TypeOK` of
`FeatureStore`, `MergeFlow` and `Exchange` is proved, and no run repeats it.

Two things the proofs changed. `WorkSafe` used to count any stash with the contents; it now asks that
the stash holds that path, because a stash records the whole tree and brings back only what it
changed. And `StashPop` says over which files git pops without a conflict, which the proof of
`WorkSafe` has to know of the user's own pops.

Only model-checked: `ComesBack`, which is liveness under fairness and out of the prover's reach. Every
other property of a passing run is a theorem; and each run that ends in a violation shows why the
regime of the theorem next to it is needed.

## Not modelled, and the plan

The order follows how much can go wrong and how little a test would see of it.

1. *Done:* storage, relationships with the validator, merge.
2. *Done:* versions, constraints and the life cycle. Left: what becomes of features that are changed
   while a merge waits, which is `Lifecycle` composed with `MergeFlow`.
3. *Done:* configuration of types and categories; export and import.
4. *Done:* feature branches, switch, and link across branches, with a kill between any two of git's
   steps. Left: a stash that cannot be pushed or popped, and a return that fails.
5. *Done:* impacts, recursive listings and tree against reachability.
6. *Done:* proofs about every component that keeps state, with the refinements of `FeatureMap` and
   `FeatureRounds`, and about the searches and walks. Left: `OneFilePerFeature` and `NoLoss` of
   commands that overlap but work on different features of different slugs.

Modelled in part: the readings of other branches (the merged list, partial names and suggestions are
not); the validator (E004 and E006 only report); links (descriptions and constraints are not kept);
the git adapter (logs, authors, tags and the contents of remotes are read only); CSV export, which
cannot be imported.

Not modelled: settings other than relationships (`config set` assigns one value and saves), filters,
sorting and fuzzy search (pure functions of one feature), status, statistics, diff and log (reads
only), initialisation and hooks (fixed files written once), printing, prompts, logging, self-update
and test helpers: pure functions or I/O that unit tests reach. Also outside the models: file system
errors in the middle of `rename(2)`, what other branches' features hold when `validate` sees them,
conflicts that leave no markers (`HasConflicts` asks `git diff --check`), and overlapping commands on
relationships.
