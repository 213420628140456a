# TLA+ models of the pithos metadata store (konsP/synnefo)

This directory holds TLA+ models of the versioned, hierarchical metadata store
in `src/pithos/backends/lib/sqlite/node.py` (class `Node`). It also lists the
rest of the repository: the approval-terms and invite views of astakos and
the chunked upload of the pithos client are modelled too, and the other parts
are listed with why they are not. Every definition
is translated from the source. `PROJECT.json` maps each definition to the lines
it models.

## 1. Inventory

### Components of `node.py` (the core, about 550 lines of logic)

| component | state (tables) | operations that change state | read-only operations |
|---|---|---|---|
| Node Directory | `nodes(node, parent, path)`. Path is unique. Root row `(0, 0, '')` is its own parent. | `node_create`, `node_remove`, and the node deletions inside `node_purge` and `node_purge_children` | `node_lookup`, `node_get_properties`, `node_count_children`, `node_get_versions` |
| Version Ledger | `versions(serial, node, hash, size, source, mtime, muser, cluster)` | `version_create`, `version_recluster`, `version_remove`, `node_purge`, `node_purge_children` | `version_lookup`, `version_get_properties` |
| Statistics Aggregator | `statistics(node, cluster -> population, size, mtime)` | `statistics_update`, `statistics_update_ancestors`, called from every mutation above | `statistics_get`, `statistics_latest` |
| Attribute Store | `attributes(serial, key, value)` | `attribute_set`, `attribute_del`, `attribute_copy` | `attribute_get` |
| Policy Store | `policy(node, key, value)` | `policy_set` | `policy_get` |
| Query Engine | none (pure) | none | `strnextling`, `strprevling`, `_parse_filters`, `_construct_filters`, `_construct_paths`, `latest_attribute_keys`, `latest_version_list` |

How the parts interact:

* Each mutation of a version calls `statistics_update_ancestors(node, ±1, ±size, mtime, cluster)`.
  That call walks parent pointers from the node's parent up to the root. The
  population changes only on the first hop. The size changes on every hop. So
  `statistics(n, c)` is meant to hold two things:
  * the number of cluster-`c` versions at the direct children of `n`;
  * the total size of the cluster-`c` versions strictly below `n`.
* Foreign keys with `ON DELETE CASCADE` tie the tables together. They are on
  because of `pragma foreign_keys = on`. Deleting a node deletes:
  * its children, recursively;
  * their versions, and with the versions their attributes;
  * their statistics and policy rows.

  The cascade never updates any ancestor's statistics.
* Node ids and serials are sqlite rowids (`integer primary key`, no
  AUTOINCREMENT). A new row gets the largest existing id plus one.
* `mtime` comes from `time()`, read in Python before the statement runs.
* The listing (`latest_version_list`) reads the three tables. With a delimiter,
  it re-issues its query once per virtual directory it finds.

What is hard:

* Keeping the rollups exact through every operation. Cascades, purges and the
  root sentinel are the corner cases.
* Concurrency. Many request processes share one sqlite file, so the statements
  of two methods can interleave. A read that runs before a method's first write
  runs outside that method's write lock. This affects the statistics
  read-modify-write, `time()` read before the insert, and the row a method reads
  before it walks the statistics.
* Id reuse, which makes serials and node ids that callers hold go stale.
* The boundaries of the listing: the successor/predecessor string bounds, the
  limit, and the re-scans.

Properties that make each part correct:

* Node Directory:
  * the root always exists;
  * paths are unique;
  * no row points at a missing row.
* Version Ledger:
  * serials are never reused;
  * `version_lookup` gives the newest version as of `before`.
* Statistics:
  * every row equals the size and count of the versions below it (spec section 8).
* Attribute Store:
  * no attribute survives its version;
  * a copy copies the source's current attributes.
* Query Engine:
  * the listing equals a reference listing built from the definition (section 4.5): prefix, start, delimiter, limit and common prefixes.

### The rest of the repository

| part | source | modelled |
|---|---|---|
| Astakos identity views | `astakos/im/views/im.py` | Partly. `Invite` models the `invite` view's check and send across overlapping requests. `ApprovalTerms` models `approval_terms`, `_approval_terms_post`, `get_latest_terms` and `has_signed_terms` (`im/util.py`) across the tabs of one user. `Activation` models `activate`, `send_activation`, `update_token`, `logout` and `prepare_response` (`im/util.py`) across the browsers of one account. The other views are Django form handling over ORM models that are not in this repository. |
| project-approve command | `astakos/im/management/commands/project-approve.py` | No. It makes one call to `approve_application`, which is not in this repository. |
| Pithos HTTP client | `pithos/lib/client.py` | Partly. `ChunkedTransfer` models `_chunked_transfer`'s loop and retry, and its handling of the response. `req` and the methods on it format one request each and handle the response with the same lines. |

## 2. Plan

1. **`VersionTree`** (built): nodes, versions and statistics, with each mutating method of `Node` as one atomic step.
2. **`Attributes`** (built): the attribute and policy tables, their cascades, and the filter.
3. **`Listing`** (built): the string bounds and `latest_version_list`, with writers between its statements.
4. **`StatisticsLatest`** (built).
5. **`ChunkedTransfer`** and **`Invite`** (built).
6. **`VersionTreeTxn`** (built). The methods split into their SQL statements, run by several processes over one sqlite file, with crashes. It INSTANCEs `VersionTree` WITH a mapping from the committed file and checks `VT!Spec` as a PROPERTY.
7. **`ApprovalTerms`** (built), and the response handling of `ChunkedTransfer` (built).
8. **`Activation`** (built): email activation and the token views under `select_for_update`.
9. Next: `node_remove` and the purges as statements in `VersionTreeTxn`; `latest_attribute_keys`.

## 3. What is modelled now

### `VersionTree.tla`: nodes, versions, statistics

State:

| variable | what it models |
|---|---|
| `nodes[n]` | the `nodes` row of id `n`, or `NONE` |
| `versions[s]` | the `versions` row of serial `s`: node, size, mtime, cluster |
| `statistics[<<n, c>>]` | the `statistics` row of `(n, c)`: population, size |
| `now` | the value `time()` returns |

`hash`, `source`, `muser` and the statistics `mtime` column are left out. No
guard or update in the modelled methods reads them.

Actions. Each is the whole method, and its early returns become guards:

| action | method | notes |
|---|---|---|
| `node_create(path)` | `node_create` | The id is `NewRowId`: largest plus one. Fails on a duplicate path or a missing parent. |
| `node_remove(n)` | `node_remove` | Only when the node has no children. For each cluster, walks the negated count and size, then deletes with cascade. |
| `node_purge_children(p, before, c)` | `node_purge_children` | `statistics_update(p)`, then the walk from `p`, then the version deletes, then the deletion of every child of `p` that is left without versions. |
| `node_purge(n, before, c)` | `node_purge` | The walk, the version deletes, then the deletion of `n` if it has no versions left. |
| `version_create(n, size, c)` | `version_create` | The serial is `NewRowId`; the mtime is `now`. |
| `version_recluster(s, c)` | `version_recluster` | Two walks, then the cluster update. |
| `version_remove(s)` | `version_remove` | The walk, then the delete. |
| `Tick` | `time()` | The clock moves on. Several versions can share one mtime. |

Helpers:

* `DeleteNodes` is the schema's `ON DELETE CASCADE`.
* `statistics_update_ancestors` is a RECURSIVE operator that follows the loop.

The callers' choices are constants:

* `ParentPath` gives the parent each path is created under.
* `PurgeNodeAt` and `PurgeChildrenOf` list the paths the purges are called on.

### `Attributes.tla`: attribute and policy tables, the filter

This module EXTENDS `VersionTree` and adds two variables:

* `attributes[s][k]`, one value per `(serial, key)`, as the table's primary key gives;
* `policy[n][k]`.

Every `VersionTree` step is composed with the two cascades:

* `AttrCascade`: the rows of deleted versions go;
* `PolicyCascade`: the rows of deleted nodes go.

The new actions are `attribute_set`, `attribute_del` (no keys means every key),
`attribute_copy` (an `insert or replace ... select`) and `policy_set`. A foreign
key on a missing version or node makes the insert fail, and that is a guard.

The listing's attribute filter is modelled by two operators:

* `parse_filters` turns terms, as `_regexfilter` captures them, into the
  included, excluded and comparison sets.
* `construct_filters` is the SQL condition.

That condition is evaluated on ONE joined attribute row, as the subquery
`a.key in (...) and a.key not in (...) and (...)` is. `SpecFilter` is the
filter as the docstring and spec section 4.5 describe it.

### `Listing.tla`: `strnextling`, `strprevling`, `latest_version_list`

Strings are sequences of character codes `0..MaxChar`. `MaxChar` stands for
`0xffff`. `StrLess` is Python's `unicode` order.

`strnextling` and `strprevling` follow the code. `ERROR` is the `RuntimeError`
that `strnextling` raises on a last character equal to `MaxChar`.

The listing is a small process:

* `Begin` is the first query and the no-delimiter branch.
* The delimiter loop is three actions:
  * `FetchRow` handles one row: a direct match, a match ending in the
    delimiter, or a common prefix followed by the re-query;
  * `Exhaust` is `fetchone()` returning `None`;
  * `BeginError` is the raise.

The versions table is abstracted to `rows`, the set of paths whose latest
version the query selects. Each `execute` reads a snapshot of it: sqlite does
not let a writer commit while a statement is open.

Between two statements, `Write(p)` adds or removes a path: another request's
`version_create` or `version_remove` commits. The ghost variable `stable`
keeps the paths present throughout the call.

### `StatisticsLatest.tla`: `statistics_latest`

This module EXTENDS `VersionTree`.

* `LatestOf` is the per-node `max(serial)` subquery, with `mtime < before`
  and `cluster != except_cluster`.
* `statistics_latest` is the method:
  * the node check;
  * the first-level count;
  * the early return when the count is 0;
  * the `path like 'p%'` size sum;
  * the subtraction of the node's own latest size.

### `ChunkedTransfer.tla`: `Client._chunked_transfer`

The byte stream is abstracted to units: each block's size line and data, and
the terminating `0x0` chunk.

* `ReadBlock` is `f.read`.
* `SendOk`, `SendFailed` and `RetryFailed` are the try, the retry in the
  except clause, and the second failure, which propagates.
* `GetResponse` is `http.getresponse()`: the server answers with a status
  of `Statuses` and a body of `Bodies`. A body is a short sequence of the
  characters `"c"` (any but the newline) and `"\n"`.
* `ReadResponse` is the rest of the method, in order:
  * the `assert` on the last character, which ends the call in `"failed"`;
  * `StripEnter`, which is `data and data[:-1] or data` as Python evaluates it;
  * the `Fault` for a status in `ERROR_CODES` (`"fault"`), or the return (`"done"`).

  Asserts are taken to be on, as they are unless Python runs with `-O`.

A send that raises may first have written part of its data. This is
`Written`, allowed when `PartialSends` holds. `socket.sendall` can do that.

### `Invite.tla`: the `invite` view

Each request loads its own copy of the user (`inviter = request.user`). It then
checks `inviter.invitations > 0` and calls `invite_func`. `invite_func` is not
in this repository. It is modelled from the view's docstring: it sends the
invitation and updates the counts, as one step.

`@transaction.commit_on_success` does not serialise two requests: the check
reads a row that was loaded without a lock.

### `VersionTreeTxn.tla`: the methods as SQL statements, over one sqlite file

The abstract specification is the atomic `VersionTree`. Here
`node_create`, `version_create`, `version_remove` and `version_recluster` are
split into the statements they issue. Each process runs its own call.

State:

| variable | what it models |
|---|---|
| `committed` | the tables as the file holds them: `[nodes, versions, statistics]` |
| `db` | the tables as the connection that holds the write lock sees them |
| `lock` | the process that holds sqlite's RESERVED lock, or `NONE` |
| `pc[p]`, `f[p]` | the statement process `p` runs next, and its call's arguments and locals |
| `clock` | what `time()` returns |
| `lastNow` | history: the `time()` value of the latest `version_create` |

Each process has its own connection (`View`). Its reads see its own writes
while it holds the lock, and the committed file otherwise. A writing statement
waits for the lock (`CanWrite`) and then holds it until the transaction ends.

The steps, with the lines they model:

* `InsertNode` is `node_create`.
* `TimeRead` and `InsertVersion` are `version_create`: `time()` is read before the insert.
* `Props` is `version_get_properties` with the early returns of `version_remove` and `version_recluster`.
* `Hop` is one turn of `statistics_update_ancestors`. It calls `node_get_properties`, then `statistics_update`'s select.
* `StatWrite` is the `insert or replace` of the statistics row.
* `WalkDone` is the loop's break, and `version_recluster`'s second walk.
* `Delete` and `Update` are the final row statements.

The caller is not in this repository. It commits after the method returns
(`Commit`). When the process dies or a statement raises, the caller rolls
back (`Crash`, at any point of the call). Where the transaction begins is the
constant `LockAtBegin`:

* `TRUE`: the caller opens it with the write lock before the call;
* `FALSE`: pysqlite opens it implicitly at the first insert, update or
  delete, so the reads before it run unlocked.

The refinement mapping is `VT == INSTANCE VersionTree WITH nodes <-
committed.nodes, versions <- committed.versions, statistics <-
committed.statistics, now <- lastNow`. `Refines == VT!Spec` says that the
committed file changes only by steps of the atomic specification.

`lastNow` maps `now` to the time the latest committed-or-running
`version_create` read. This is why `txn.cfg` keeps `MaxTime` at 1: with more
clock values, the abstract clock would have to jump by more than one.

### `ApprovalTerms.tla`: the approval-terms pages

This module covers one logged-in user whose browser tabs (`Tabs`) send
requests that run at once.

* `Request` starts a request: a GET of `/approval_terms[/term_id]`, or a POST of
  the form the tab displays. The request loads its own copy of the user (`copy`).
* `ShowTerms` is the GET branch of `approval_terms`. It calls
  `request.user.signed_terms`, taken to be `has_signed_terms(request.user)`.
  That call saves the copy with the flag cleared when the signature predates the
  latest terms (`CheckSave`).
* `SignTerms` and `SignInvalid` are `_approval_terms_post`.
  `SignApprovalTermsForm` is not in this repository. A valid form is taken to
  save the copy with `has_signed_terms` set and the signature dated now.
* `NoTermsRecord` and `TermsFileMissing` are the view's two early returns.
* `AddTerms` is an administrator adding terms. `datetime.now()` has microsecond
  resolution, so new terms are dated after every time read before.

`agreed` is a history variable: the ids of the terms whose form the user posted.

### `Activation.tla`: activation and the token views

This module covers one account and the browsers (`Browsers`) that send it
requests at once, each with its own session and one request at a time.
`activate`, `send_activation` and `update_token` run under
`transaction.commit_on_success` and read the row with `select_for_update()`.
`lock` is that row lock: it is taken by the read and given back when the view
returns (`Done`). `snap[b]` is the row the read returned.

* `Request` starts a request. It fixes `request.user.is_authenticated()`
  (`auth`) and the `auth`/`user_id` argument: this account's (`"good"`),
  none that exists (`"bad"`) or missing (`"none"`). `update_token` passes
  `valid_astakos_user_required` only for a logged-in, active account.
* `ActivateRejected` and `SendRejected` are the early returns before the
  lock. `ActivateLock`, `SendLock` and `UpdateLock` are the locked reads.
* `ActivateAlreadyVerified` is the `ACCOUNT_ALREADY_VERIFIED` return.
  `ActivateVerify` is `user_logic.verify` followed, for an active account, by
  `prepare_response(renew=True)`: a new token is saved and the session logs
  in. `user_logic` is not in this repository; verify is taken to set
  `email_verified` and leave the account active or pending moderation.
  `ActivateVerifyFails` is verify raising, which rolls the transaction back.
* `SendFinish` is the already-verified branch or `send_verification_mail`.
* `UpdateToken` is `renew_token()` and `save()`. `Logout` is `auth_logout`.

`verifies` and `mailedVerified` are history variables: the committed
verify calls, and whether a verification mail went to an account that was
verified after the view read it.

## 4. Runs

| run | module | expect | what it shows |
|---|---|---|---|
| `stats` | `MC_StatisticsLatest` | pass | On account / container / two objects, `node_create`, `version_create`, `version_remove`, `version_recluster` and `node_remove` keep the population and size rollups exact, and orphan no row. The purges are left to `attributes` and `purge_population`. |
| `purge_population` | `MC_VersionTree` | violation | `node_purge_children` also takes the purged count off the grandparent's population (node.py:253). |
| `attributes` | `MC_Attributes` | pass | On the account layout, with objects purged one by one and containers purged of their objects, the size rollups stay exact (`StatisticsSize`). Through id reuse, purges and removals, a reused serial or node id never starts with old attribute or policy rows (`FreshRowsStartEmpty`, an action property). |
| `filter_scenario` | `MC_Attributes` | violation | `color==red,!archived` keeps a version that has `archived`: the terms apply to one attribute row (node.py:647). |
| `listing` | `MC_Listing` | pass | Listings with any prefix, start, delimiter and limit, while writers commit between re-scans. Results are in range, in order and direct (`ListingSound`). |
| `listing_terminates` | `MC_Listing` | pass | Under weak fairness of the listing request, a delimiter listing always ends. |
| `chunked_partial` | `MC_ChunkedTransfer` | violation | A send that raised after writing part of a chunk is resent whole by the except clause, so the server answers a body with that part twice (client.py:65). |
| `activation` | `MC_Activation` | pass | Three browsers send `activate`, `send_activation`, `update_token` and `logout` at once. Every row read holds the lock (`TypeOK`). Two activations verify the account once (`VerifiedOnce`). No verification mail goes to an account verified meanwhile (`MailOnlyUnverified`). Each property fails when one view reads the row without `select_for_update`. |
| `invite_race` | `MC_Invite` | violation | Two overlapping requests with one invitation left both send (im.py:191). |
| `txn` | `MC_VersionTreeTxn` | pass | With the write lock taken at BEGIN, two processes' statements of `node_create`, `version_create`, `version_remove` and `version_recluster` interleave and crash, and the committed file still changes only by `VersionTree`'s atomic steps (`Refines`). |
| `txn_deferred` | `MC_VersionTreeTxn` | violation | With the transaction begun at the first write, `version_remove` reads the root's statistics before its lock. A `version_create` commits meanwhile, and the remove writes back its stale value minus one. The root then counts 0 versions and size 0 while one version is live (node.py:365). |
| `terms_lost_signature` | `MC_ApprovalTerms` | violation | One tab's GET loaded the user before the other tab signed the new terms. Its `has_signed_terms` saves that stale copy with the flag cleared, and the fresh signature is gone (util.py:200). |

### Further configurations

These cfgs are kept beside the runs but are not among them. Each makes TLC
report the violation described, and `PROJECT.json` records them under hazards.
`ListingComplete` and `StatisticsLatestSize` are checked only here. A layout
small enough for a passing run either leaves out the case the code gets wrong
(a path right after a directory's `strnextling`, a sibling container whose
path extends another's, an empty first level), or fails on it as shown below.

| cfg | property | what TLC reports |
|---|---|---|
| `purge_cascade.cfg` | `StatisticsSize` | `node_purge` on a container whose objects have versions but which has none of its own deletes the container. The cascade takes the objects' versions, and the account keeps their size. |
| `purge_root.cfg` | `RootNodePresent` | `node_purge_children(ROOTNODE)` deletes the root row: the root is its own parent. |
| `serial_reuse.cfg` (`MC_SerialReuse`) | `SerialNeverReused` | Removing the newest version hands its serial out again. |
| `lookup_cluster.cfg` | `LookupIsLatestInCluster` | `version_lookup` returns nothing for cluster 0 when the newest version is in cluster 1. |
| `listing_limit.cfg` | `ListingWithinLimit` | A match that ends in the delimiter is counted without the limit check, so limit 1 returns 2 matches (node.py:800). |
| `listing_maxchar.cfg` | `ListingSound` | For prefix `b`, the range from `strprevling` admits `a<0xffff><0xffff>` (node.py:78). |
| `listing_skip.cfg` | `ListingComplete` | After the directory `a/`, the re-scan uses `path > strnextling('a/')`, which skips the path `a0` (node.py:809). |
| `stats_latest_sibling.cfg` | `StatisticsLatestSize` | `path like 'a/c%'` also sums the sibling container `a/cd` (node.py:454). |
| `response_newline.cfg` | `ReturnedBody` | A body of exactly one newline is returned as `"\n"`: `data[:-1]` is empty, so `data and data[:-1] or data` gives `data` (client.py:92). |
| `terms_unseen.cfg` | `SignedTermsSeen` | The form shows terms 1, terms 2 are added, and the posted form dates the signature after terms 2, which then count as signed though no page showed them (im.py:683). |
| `stats_latest_zero.cfg` | `StatisticsLatestSize` | On an account whose container has no latest version, the count is 0 and the size is 0, though an object below has a version (node.py:439). |

`purge_sizes.cfg` (`MC_VersionTree`) also stays beside the runs. It checks
`StatisticsSize` on the account layout with two clusters and two sizes, and
passes in about 100 seconds. The `attributes` run checks the same invariant
with one cluster and one size, because its attribute tables make the larger
bounds too slow.

### Bounds and why they are enough

* `stats`:
  * four levels (root, account, container, objects), so the walk takes up to three hops;
  * node ids up to 4, so a removed id is reused;
  * 3 serials;
  * clusters {0, 1}, so recluster moves rows and `except_cluster` excludes some;
  * sizes {1, 2}, so a count cannot pass for a size;
  * 2 clock values, so `before` separates versions.
* `attributes`:
  * the account layout (account, container, two objects) with both purges, so a purge walks up to three hops;
  * 4 node ids and 2 serials, so ids are reused;
  * one cluster and one size;
  * one key of each kind with one value;
  * 146,480 states.
* `activation`:
  * three browsers, so two activations and a resend can overlap;
  * three token values, so a renewal always changes the token;
  * 31,234 states.
* `listing`:
  * six paths over four characters, with `/` as the delimiter: direct matches, a directory with and without children, `a/` as a path, and paths on both sides of the prefix;
  * four prefixes, including the empty one and `<MaxChar>`, which raises;
  * starts before and inside the prefix;
  * limits 1 and 2, so a limit is reached;
  * any set of rows at the start, and any writes between the statements.
  * 224,816 states.
* `chunked_partial`: files of up to two blocks, and sends that may fail after
  writing part of their data. One failed send of the first chunk is enough.
* `txn`:
  * two processes, the paths `a` and `a/b`, 2 node ids and 2 serials, so the walk takes two hops and a serial is reused;
  * clusters {0, 1}, so `version_recluster` walks twice;
  * a crash may cut any call after any statement;
  * 124,911 states.
* `txn_deferred` uses the same bounds with `MaxTime` 0. This leaves the
  statistics as the only thing the two processes can get wrong.
* `terms_lost_signature`: two tabs, two terms and three clock values, so terms
  can be added after a signature and a tab can hold a copy from before it.

### Fairness

Only the listing request gets fairness: `WF` of `Exhaust \/ FetchRow`
(`FairSpec` of `Listing`, used by `listing_terminates`). The request waits on
no one: each step is a statement it executes next.

The client's loop gets none. `http.getresponse()` has no timeout, and the
server may never answer, so "every transfer ends" is not something the code
guarantees. `Activation`, `VersionTreeTxn` and `ApprovalTerms` are checked for
safety only. In `Activation`, `commit_on_success` ends the transaction on every
return and raise of the three locking views, so no path can keep the row lock.
The writers and the other requests of `VersionTree` and `Attributes` get no
fairness. A client may never make another call.

## 5. Not modelled

* In `VersionTreeTxn`, `node_remove`, `node_purge` and `node_purge_children`
  stay atomic only (`VersionTree`). The SHARED/PENDING lock states of readers
  are not modelled either: readers see the committed file.
* `_construct_paths` and `latest_attribute_keys`. No run asks a question of them.
* Inside the listing query, the choice of latest version per node is
  abstracted to the set of selected paths.
* sqlite `LIKE`'s ASCII case-insensitivity.
* The hexadecimal formatting of chunk sizes.
* In `prepare_response`, token expiry (`auth_token_expires`), `FORCE_PROFILE_UPDATE`
  and the cookie. Every modelled caller passes `renew=True`, and no property reads the cookie.
* The Django views other than `invite`, the approval-terms pages and the activation and token views, and
  `project-approve`. They call forms, activation backends, `approve_application`
  and models that are not in this repository.
