# A verification of libvbucket in TLA+

libvbucket is a small C library that tells a memcached/membase client which
server holds a key. It parses a JSON configuration into a *handle*, answers
routing questions from that handle, repairs the handle's map when a server says
"not my vbucket", and compares two handles so that an application can decide
what to do with a new configuration. This directory holds TLA+ modules of that
code, TLC configurations that check them, and theorems checked by TLAPS.

Line numbers below refer to `src/vbucket.c` unless another file is named.

## 1. The system

| Component | State it keeps | Operations | What makes it hard | What makes it correct |
|---|---|---|---|---|
| Routing tables (716-806) | `vbuckets`, `fvbuckets`: per vbucket a row of a master and replicas | `vbucket_map`, `vbucket_get_vbucket_by_key`, `vbucket_get_master`, `vbucket_get_replica`, `vbucket_found_incorrect_master` | Several requests share one row; a refusal may arrive after another one has already changed the master; the cluster moves vbuckets meanwhile | Corrections converge on the owner; stale refusals do no harm; the refused server is not answered again; layouts are not mixed |
| Ketama lookup (667-715) | locals `lowp`, `highp`, `midp` over `continuum` | the search loop of `vbucket_map` | A `while (1)` with an upper limit one past the end, colliding points, the wrap-around | The answer is the successor of the digest; reads stay inside; the loop ends |
| Ketama continuum (89-125, 425-485) | `servers`, `continuum` | `parse_ketama_config`, `server_cmp`, `update_ketama_continuum`, `continuum_item_cmp` | Servers are re-sorted after they were read; `qsort` is not stable; servers join and leave | A sorted and complete ring; the same ring for the same nodes in any order; consistent hashing |
| Parser and handle lifecycle (127-195, 239-423, 501-665) | the handle, `errmsg`, the static `errstr` | create, parse, parse again, destroy, `vbucket_config_parse_file/_string` | Each stage fills in a part of the handle and may fail; a handle may be parsed into again | Success means usable, nothing the configuration gives is lost, and destroying is safe however the parses ended |
| Comparison (732-754, 808-894) | the `VBUCKET_CONFIG_DIFF` | `vbucket_compare`, `compute_vb_list_diff`, `vbucket_free_diff` | NULL-terminated lists in arrays sized for two handles; masters compared as indices | The lists describe the change; "nothing changed" can be trusted |
| `$HOST`, authority strings (145-313) | `localhost`, blocks of memory | `substitute_localhost_marker`, `get_node_authority`, `lookup_server_struct`, `update_server_info` | Buffers of fixed size, texts cut at a colon, a block without a terminator, several nodes and servers of one host | Every server has what its own nodes say; the port survives a long host; every authority is a string |
| File reading (545-608) | a buffer and an offset | `do_read_file`, `parse_from_file` | Short reads, empty and large files | What is parsed is the whole file, in order and terminated |
| MD5 (`rfc1321/md5c.c`, `ketama.c`) | a context: state, bit count in two words, buffer | `MD5Init`, `MD5Update`, `MD5Final`; `hash_md5`, `hash_md5_update`, `hash_md5_final` | Pieces of any length, a count that wraps, padding over a block boundary, an uninitialised buffer | The digest depends on the text alone, not on how it was cut |
| CRC32, `hash_ketama` | none | `hash_crc32`, `hash_ketama` | arithmetic | taken as arbitrary functions |
| `vbucketkeygen.c` | a table of keys per vbucket | generate, store, count | bounds of nested loops, keys that run out | every vbucket gets the first keys that map to it; the exit status tells the truth |
| `vbuckettool.c` | locals | prints the answers of the routing calls | - | not modelled |
| cJSON | documents | external, not in the repository | - | its answers are chosen arbitrarily |

**Interaction.** The library is passive and single-threaded: it has no threads,
timers or sockets. Concurrency comes from its user. An application has several
requests in flight over one handle; it calls `vbucket_map`, sends, and when a
server refuses it calls `vbucket_found_incorrect_master` with the server it had
used. Between the two calls other requests may have changed the row and the
cluster may have moved the vbucket. Parsing writes the tables which the routing
calls read; `vbucket_compare` reads two handles, never writes them.

The hazards of this code are listed, at their lines, under `hazards` in
`PROJECT.json`, each with the properties that cover it or the reason why none
does.

## 2. The modules

| Module | Models | State and actions |
|---|---|---|
| `VBucketRouting` | the routing calls | variables `vbuckets`, `fvbuckets`; one operator per call; `vbucket_found_incorrect_master` is the disjunction of its three branches (forward row, next server, keep) |
| `VBucketClient` | EXTENDS `VBucketRouting` with an application and a cluster | `Send`, `Answer`, `Report`, `Finish` per request, `MoveOwner` for the cluster. Application and cluster are external: modelled from the contract of the calls |
| `OwnerSearch` | abstract specification | per vbucket a candidate walks round the server list and never leaves the owner; `VBucketClient` implements it (`SearchSpec`) when owners stay put and no forward map exists |
| `KetamaRing` | continuum as data | `Sorted`, and `IsSuccessor`, the definition of the right answer |
| `KetamaLookup` | the search loop | `Call`, then per turn `RollBack`, `Hit` or `Narrow`, in the order of the tests in the code; pointers are offsets |
| `KetamaConfig` | building the continuum | `parse_ketama_config` as one action over the whole of sort, placement, sort; the hash is a function chosen in `Init`. `QsortOrders` gives every order in which `qsort`, which is not stable, may leave entries that compare equal |
| `VBucketConfig` | the handle's life | one action per call of the application and per stage of the parser, with `pc` naming the stage; each action lists every way the stage can end and what it leaves in the handle. A file is read in turns of `do_read_file`, credentials are copied before the locator is looked at. `AllocFails` names the allocations that may fail, among them those the code does not look at: then the process faults (`NoContinuum`, `NoNodesArray`, `ReturnFromCompat`), or goes on without the block (`CopyCredentials`, `Duplicate`, `NoNodesArray`); `lost` records the latter for the properties |
| `ServerLookup` | how nodes find their servers | one action per turn of the loops of `populate_servers` and `update_server_info`; a block is its text and the zero bytes left in it, and reading a text without a terminator has several outcomes |
| `VBucketCompare` | the comparison | `vbucket_compare`, `vbucket_free_diff` over a pair of handles; checked as part of `Reconfigure` |
| `Reconfigure` | EXTENDS `VBucketCompare` with an application that changes handles under its requests | `Receive`, `Compare`, `Decide`, then `Replace` or `Reconnect` or neither; `Send`, `Answer`, `Report`, `Finish` per request in between, with the routing calls on the handle in use; `Rebalance` for the cluster |
| `MD5Stream` | MD5 and the calls of `ketama.c` on it | `hash_md5`, `hash_md5_update`, `hash_md5_final`; the functions of `md5c.c` are operators on a context |
| `KeyGen` | `vbucketkeygen` | `NoMap` or `Load`, one `Generate` per key (the search for a free slot is its guard), `EndGenerate`, `Summarise` |
| `MCVBucketClient`, `MCKetamaConfig`, `MCReconfigure`, `MCKeyGen`, `MCMD5Stream`, `MCServerLookup` | small instances | values of constants, a symmetry set |
| `VBucketClientProofs`, `KetamaLookupProofs`, `KetamaConfigProofs`, `VBucketConfigProofs`, `ServerLookupProofs`, `ReconfigureProofs` (of `VBucketCompare` too), `KeyGenProofs`, `MD5StreamProofs` | theorems | section 6 |

What is abstracted. Names, keys and JSON text are not spelled out: an authority
is a model value or a number whose order stands for `strcmp`; a key is its
digest; a message is the part of the input it complains about. In
`VBucketConfig` a server is empty, named or described, and a map is its number
of rows, the width written and the set of ids in it, because every call on the
handle depends on just that; byte `k` of a file is the number `k`. In
`ServerLookup` texts are short sequences of characters, because the properties
are about where they are cut and where they end; the marker `$HOST` is one
character. The four words of an MD5 state stand for the blocks mixed into them,
so that two digests are equal only if the same blocks were mixed in the same
order; the constant `WordBlocks` is the number of blocks whose bits fill a
`UINT4` (2^32 / (8 * 64)), small in the run and any number in the proofs.
`digest & mask` appears as a remainder in
`VBucketRouting`; that the two agree for every count the parser accepts is the
invariant `MaskIsRemainder` of `VBucketConfig`, which has the operator `&` as a
recursive function over the bits.

Operators named as faulty variants stand beside the definitions they vary. They
are used by no specification: putting one in the place of its original shows
that the property named with it in `PROJECT.json` notices such a bug.

## 3. The runs

| Run | Question | Bounds and why they are enough |
|---|---|---|
| `rotate_fixed` | Do corrections by guessing converge, stale refusals included? | 3 servers (a step can overshoot), 2 vbuckets (rows are independent), 3 requests of which two may hold stale refusals at once. Requests are interchangeable: symmetry, and only safety is checked |
| `routing_moves` | Is a refused server never answered again, are layouts not mixed, and is every request served, while vbuckets move? | every current map and every or no forward map of 2 vbuckets over 3 servers with a replica each; 2 requests, 2 moves: an owner may move behind a candidate that has already passed, twice. With a forward map owners move only to the announced place (`FollowsForward`) |
| `ketama_lookup` | Is the search right on every ring? | every sorted continuum of 5 items with points 0..4, hence all patterns of collisions, and every digest. Five items give turns of both parities; the theorems cover all sizes |
| `ketama_config` | Is the ring right, order-independent, and consistent between configurations? | every hash of 3 authorities to 2 points each in 0..2, every change between lists of 1 or 2 nodes, repeated nodes included. Collisions between and within servers occur; two nodes suffice for a join, a departure and a replacement |
| `handle_life` | What does each outcome of a parse promise? | up to 2 servers, 3 rows, 2 parses into a handle, every locator (`absent` goes the way of `vbucket`), a credential, files of up to 2 bytes in every sequence of short reads, all six kinds of allocation may fail, looked at by the code or not, ids and replica counts one beyond their limits on both sides. Three rows contain a count that is not a power of two; two bytes contain a short read |
| `stale_forward` | (violation) Does a handle hold the result of its last parse? | 2 parses |
| `servers_alloc` | (violation) Does a parse return an error code when memory runs out? | 1 parse, the allocation of line 170 may fail |
| `keygen` | Does the tool list the right keys and tell the truth in its exit status? | every hash of 6 keys to 2 vbuckets; -1 to 3 keys per vbucket and -1 to 6 keys in all, so that keys run out, suffice exactly and are left over |
| `md5_stream` | Does the digest depend on the text alone? | bytes of 4 bits, blocks of 16 bytes, a word of the count wraps after 4 blocks; up to 150 bytes (two wraps) in pieces of 0, 1, and around the padding, a block and the wrap |
| `server_lookup` | Does every server get what its own nodes say, and do ports survive long hosts? | every list of 2 servers and every 2 nodes over hosts that are short, just fit, are too long or are the marker, with and without a REST port, with two direct ports, a local address or none, and API bases with and without the marker. Two entries suffice for repeated servers and for nodes that overwrite one another |
| `server_strings` | (violation) Is every authority a string? | the instance of `server_lookup`; one entry with the marker shows it |
| `reconfigure` | Do the lists of the comparison end and describe the change, can silence be trusted, and can an application rely on both while requests are in flight? | 9 configurations that differ in the order, number and names of servers (one of them listed twice), in the number of vbuckets, none included, in masters, -1 included, and a password; every pair is compared, and pairs in which the handle in use has been corrected since; 2 requests, 1 change of the cluster (and a configuration in use that may already be outdated, which makes two) |

A process that has faulted (`handle_life`, `servers_alloc`) is started again, with no handle.

Deadlock checking is off where the system may really stop: in
`rotate_fixed` and `routing_moves`, where maps may send nobody anywhere (master -1
is "no server is mapped"), in `ketama_lookup`, where the lookup returns, in
`keygen`, where the tool ends, in `server_lookup` and `server_strings`, where the nodes
end, and in `reconfigure`, where requests wait as long as the cluster has no server for
their vbuckets.

## 4. Fairness

* `VBucketClient`: weak fairness of `Answer(r)` and of `Report(r)`, per request.
  The servers answer what they receive, and the application's loop handles each
  answer. There is no fairness on `Send`, `Finish` or `MoveOwner`: nobody has to
  issue requests, and the cluster need not move. `EveryRequestServed` needs that
  the cluster stops moving in the end, which the bound `MaxMoves` gives, and that
  with a forward map it moves only as announced (`FollowsForward`); without that
  the forward branch answers the same server over and over (section 5).
* `KetamaLookup`: weak fairness of `Next`, the calling thread runs on.
* `Reconfigure`: weak fairness of the application's steps on a configuration
  (`Receive`, `Compare`, `Decide`, `Replace`, `Reconnect`) and, per request, of
  `Send`, `Answer` and `Report`. The application is one loop that handles each
  event it has, and the cluster delivers a configuration that differs from the
  one it sent last. Nothing forces `Want`, `Finish` or `Rebalance`.
  `EveryRequestServed` excuses a request whose vbucket the cluster gives no server (`Mapped`).

The other modules have safety properties only.

## 5. Disagreements with the documentation

Runs that show one, listed under `findings`:

* `stale_forward`: line 411, a second parse without `vBucketMapForward` keeps the
  forward map of the first.
* `servers_alloc`: line 172, `populate_servers` destroys the handle when its
  allocation fails; the destructor goes through `num_servers` entries of an array
  that is not there, and the parse faults instead of returning an error. (The
  same happens, further on, with a `couchApiBase` that is not a string, line 279:
  action `CouchBaseNotString`.)
* `server_strings`: line 153, a text in which `$HOST` is replaced gets a block without
  room for its terminator, so the authority is not the string that
  `vbucket.h:251-256` promises of `vbucket_config_get_server`. `lookup_server_struct`
  is modelled with what `strcmp` may read there; the points a ketama server with such an
  authority gets (line 109 prints it) are not, `PointOf` takes authorities to be strings.

Others met while reading, for which a model could only restate a line, are
recorded here and not run:

* With a forward map, line 796 answers the forward master whatever server was
  reported, so the refused server may be answered over and over; `vbucket.h:193`
  promises an attempt at a better answer and `tests/testapp.c:160` expects one.
  `BetterAnswer` has this as its exception.
* Line 511: a `nodeLocator` that is neither of the two known ones
  (`README.markdown:37`) makes the parse return 0 with an empty handle.
  `UsableAfterSuccess` says that the handle can be told by its counts.
* Lines 494 and 498: the duplicates of user and password are not looked at. Without
  memory for one the parse goes on and returns 0 (`vbucket.h:121`, "0 for success") with
  a handle that lacks a credential the configuration gave. `UsableAfterSuccess` holds but
  for these (`lost`); `NothingElseStored` proves that without such a failure
  the handle has exactly what was announced.
* Line 448: `parse_ketama_config` does not look at its allocation. If the first node is
  not an object or has no authority it returns -1 with `num_servers` set and no
  array, and the `vbucket_config_destroy` that has to follow faults.
  `DestroyStaysInside` has this as its exception.
* The message of line 402 says at most 65536 vbuckets; line 401 only tests for a
  power of two. And `hash_crc32` keeps 15 bits (`crc32.c:85`): with 65536
  vbuckets the upper half would get no key.
* `numReplicas` has no lower bound (line 363): -1 with empty rows is accepted,
  and every master is the 0 that `calloc` left.
* `vbucket_get_replica` compares the replica number with the number of servers
  (line 778), not of replicas: with two servers and two replicas the second
  replica of a row is never answered.
* `vbucket_get_error` (`vbucket.h:183`, "the most recent vbucket error") sees only
  failures of `vbucket_config_parse_file/_string`; `vbucket_config_parse` leaves
  its message in the handle.
* `n_vb_changes` (`vbucket.h:84`, "number of vbuckets that changed") counts changed
  masters only (line 871).

## 6. What is proved

For every value of the constants that satisfies the named `ASSUME`s:

| Theorem | Statement | Argument |
|---|---|---|
| `TypeCorrect` (`VBucketClientProofs`) | `Spec => []TypeOK` | one step per action; the row a report writes has entries from rows or `NextServer`, and a request is sent only to a server in the list because `Report` drops it at -1 |
| `CorrectionsApproach` | while no vbucket moves (`MaxMoves = 0`): `Spec => CloserToOwner` | below |
| `ImplementsOwnerSearch` | no moves and no forward map: `Spec => SearchSpec` | the same invariant: a change of a master is an `Advance` of the abstract walk, everything else a stutter |
| `AnswersAreBetter` | at least two servers: `Spec => BetterAnswer`, however the cluster moves, with any forward maps | the branch that moves the master moves it off the reported server (`NextServerDiffers`), the other one is taken only if the master is already another, and a forward map is the exception |
| `LayoutsDoNotMix` | if neither loaded map lists a master among its replicas: `Spec => []MasterNotItsReplica` | invariant `ProperInv` on *both* maps; the copy of line 797 covers the whole of the row that counts (`ForwardRowProper`) |
| `LookupIsNearest` (`KetamaLookupProofs`) | `Spec => []NearestServer` | below |
| `LookupReadsInside` | `Spec => []ReadsInside` | the limits in `LoopInv` |
| `LookupHalves`, `LookupTyped` | `Spec => Halves`, `Spec => []TypeOK` | arithmetic of the middle (`Middle`); the limits in `LoopInv` |
| `ConfigTyped`, `ContinuumIsReady`, `OrderDoesNotMatter`, `DisruptionIsMinimal` (`KetamaConfigProofs`) | `Spec => []TypeOK`, `[]ContinuumReady`, `OrderIndependent`, `MinimalDisruption` | below |
| `QuietComparison` (`ReconfigureProofs`) | `Spec => []QuietMeansSame` | an unchanged sequence makes equal indices equal names; a count of zero is an empty set of changed masters (finite-set lemmas) |
| `ListsTerminated`, `ListsAreTheChange` | `Spec => []ListsEnd`, `[]ListsDescribeChange` | what the loop of `compute_vb_list_diff` has written after `n` turns, by induction (`DiffNames`): never more than `n` names, and exactly the ones that are missing |
| `KeysTyped`, `KeysAreFirst`, `ExitStatusTells` (`KeyGenProofs`) | `Spec => []TypeOK`, `[]CollectsFirst`, `[]ExitStatus` | inductive together with `TypeOK`; one lemma per way a key goes (`StoreKeeps`, `DropKeeps`). A free slot at the end means that too few keys mapped to its vbucket (`FreeHasFewKeys`) |
| `PortsSurvive`, `NodesFound` (`ServerLookupProofs`) | `Spec => []PortSurvives`, `[]NodesFindTheirServers` | below |
| `RequestsKeepMeaning`, `KeptConnectionsFit`, `KeptHandleRoutes` (`ReconfigureProofs`) | `ReconfigureSpec => []InFlightMeansSame`, `[]ConnectionsFit`, `KeptHandleIsCurrent` | below |
| `ContextTyped`, `ContextRepresents`, `DigestDependsOnInput` (`MD5StreamProofs`) | `Spec => []TypeOK`, `[]Represents`, `[]DigestOfInput` | below |
| `HandleTyped`, `SuccessUsable`, `NothingElseStored`, `DestroySafe`, `FilesReadWhole`, `MaskTakesRemainder` (`VBucketConfigProofs`) | `Spec => []TypeOK`, `[]UsableAfterSuccess`, after a first parse that returned 0 nothing is in the handle that was not announced (and all that was, if credentials could be duplicated), `[]DestroyStaysInside`, `[]WholeFile`, `[]MaskIsRemainder` | below |

*Corrections.* `CloserToOwner` is not inductive: a report could push the master
past its owner if it named the owner. The strengthening (`RefusalsTrue`) says
that a refused request names a server that is not the owner of its vbucket,
which stays true only as long as owners stay put. From it a report that acts
names the present master (line 800), hence not the owner, and a step to the next
server shortens the distance round the list.

*The search.* `NearestServer` speaks only of the end of the loop. The loop invariant
(`LoopInv`) says that before every turn `lowp <= highp`, that all points before
`lowp` are smaller than the digest and that the point at `highp`, if there is one,
is not smaller. The middle lies between the limits (`Middle`). With the sorted continuum the
exits are then right: at the end all points are smaller (`RollBackIsRight`), a hit
has the digest between two neighbours (`HitIsRight`), and limits that cross mean
that item 0 is the answer (`CrossingIsRight`), since with a smaller point before
the middle the middle would have been a hit.

*Changing handles.* The properties of `Reconfigure` speak of the moments between
two configurations, but a handle is dropped two steps after the comparison, and
requests are refused and answered in between. The invariant (`RInv`) adds that
handles stay well formed (`Usable`, which guesses preserve: `CorrectedUsable`), that a diff is
that of the two handles as they are now, that handles about to be swapped have the
same servers and number of vbuckets, and that requests in flight fit the handle
in use at *every* stage. Nothing is corrected between `Compare` and `Decide`, since
reports wait for the stage `using`: without that guard the diff would be stale.
Nothing is assumed of the masters or of the number of vbuckets: a request is sent only where its vbucket
has a master (`SentMeans`), and one that is told -1 is no longer in flight (`AgainWaits`).

*MD5.* A context stands for a text (`Stands`) if the blocks mixed in followed by the
used part of the buffer are the text and the count is that of its bits.
`MD5Init` makes a context that stands for the empty text, and `MD5Update` takes one that
stands for a text to one that stands for the text and the piece
(`UpdateStands`: `KeepStands` for a piece that stays in the buffer, `FillStands`
for one that fills it). That the count modulo two words is right rests on
`CountsAdd`, that the place in the buffer is the length modulo a block on
`IndexOfBits`, and both on a few lemmas about `\div` and `%` proved first. `PadLenPads` then
gives that padding and count end on a block, and `FinalDigest` that what is mixed
in is the padded text, whatever the buffer held.

*The handle.* The invariant (`CInv`) says what is known at every stage of the parse: the
array of servers is as long as the counter unless it was lost (`Good`), it is complete once the list was read
(`StageOK`), and on a first parse the handle is unfilled until a locator is
found, and holds what was announced and not lost from then on (`FirstOK`). A second parse keeps
`Good` only, which is why `UsableAfterSuccess` is about first parses. Of a
file being read, the buffer holds the bytes read so far and zeroes
(`FileInv`). There is one lemma per action and one per way of leaving a stage
(`ContinueInv`, `FailInv`, `SucceedInv`, `FaultInv`).

*The mask.* `vbucket_get_vbucket_by_key` takes `digest & mask` for the remainder by
the number of vbuckets. `BitAndIs` derives from the definition of `BitAnd`, a
recursive function, that it satisfies its own equation (functions that satisfy it
up to `n` exist and agree). A count `n` with `n & (n - 1) = 0` is then 1 or the
double of such a count (`CountHalves`), the remainder by a double is twice a
remainder and one bit more (`RemainderHalves`), and induction gives
`BitAnd[<<x, n - 1>>] = x % n` for every count that passes (`MaskWorks`). The
invariant `MInv` ties mask and rows of a handle to one count: `num_vbuckets` is
stored before it is tested, so it fails on a handle whose parse failed.

*The ring.* The invariant (`Built`) is that servers and continuum are among the
arrays the two calls of `qsort` may make of the last list of nodes. `QsortSorts`
shows of every such order, by induction over the entries picked, that it holds each index once and
ascends, `QsortReturns` that there is one. An item of the continuum then comes
from one cell of the placement and each cell has its item (`BuiltContinuum`), which
gives `ContinuumReady` by a bijection between the items of a server and its points.
With `ConfigTyped` that is what `KetamaLookup` starts from: a sorted array of items with
indices of servers.
For the two action properties the continuum is forgotten: if no two nodes share a
point, the node that answers for a digest is the one that drew the next point of
the *set* of all points (`AnswerOwned`), a definition that knows nothing of orders
or indices. That set is the same for the same nodes, and when two sets differ
while the old node stays and the new one was there before, both next points are in
both sets and so are equal (`NextUnique`). That the `servers` arrays are equal as well
is `SortedUnique`: two ascending arrays that hold each value equally often are one.

*The nodes.* `Typed` says what is on the lists, `Stored` that every authority is the one
of its entry, substituted, and that nothing but the loop over the nodes adds to it. A node's text
ends in its port because the host is cut to leave room for it (`PortText`). `Quiet` is the hypothesis of `NodesFindTheirServers`; under
it a node looks for exactly the text it is known by (`LookupIs`), the search stops at the
first entry of that text (`MatchesIs`), and one node more keeps what the servers
have of the nodes before (`HasNext`). The first attempt at this proof failed for a
good reason: the property used to leave `couchApiBase` out of its exception, but
the marker is replaced there too (line 284), so the server holds another text than the node.
`NoMarkerReplaced` covers it now, and the run has bases with the marker.

Assumptions on constants are in `RoutingAssumption`, `ClientAssumption`,
`LookupAssumption` (one of `KetamaLookup`, one of `ServerLookup`), `ConfigAssumption`, `HandlesAssumption`, `ReconfigureAssumption`,
`KeyGenAssumption`, `StreamAssumption`, `HandleAssumption` and `NullAssumption`; the runs evaluate them. Theorems have
further hypotheses only where stated above, and the instances of the runs
satisfy them.

**Model-checked only.** Liveness: `EveryRequestServed` of both clients and `Returns` of
the search. The prover does no liveness under fairness; `LookupHalves` is the variant
from which `Returns` follows. Every safety and action property of the passing runs is a
theorem. Induction over numbers is done with sets: a set of numbers that is
not empty has a least element (`LeastNumber`, from the well-foundedness of `<` in the library).

## 7. What is left

Every part that keeps state is modelled, and every safety property the runs check
is proved. What a proof cannot reach here is the progress of the clients.

Not modelled, and why:

* The polynomial of CRC32, the rounds of MD5 and the bytes of `hash_ketama` are
  arithmetic on which no property above depends: every hash function is allowed
  instead. In `ketama.c` lengths are narrowed from `size_t` to `unsigned int`; pieces
  of 4 GiB are left out.
* `vbuckettool` prints what the parse and the routing calls answer and keeps no state:
  a model could only restate its print statements. Two readings of it: the test
  `vbucket_map(...) < -1` (line 65) is never true, since `vbucket_map` returns 0,
  and the master is used as an index (line 69) without looking for -1.
* cJSON is not part of the repository; `VBucketConfig` lets its answers be any.
* Memory: blocks that are lost when a pointer is overwritten (a second parse, line 460) are
  not counted. `vbucket_compare` asserts some of what it allocates (lines 822, 833) and goes
  through the two lists without looking (lines 834-835); these calls, and `ketama.c:22`, are
  taken to succeed. A size of -1 from `ftell` (line 577) is not looked at by the code and left out.
* One vbucket client with both a forward map and changes of handles: `VBucketClient`
  has the forward maps and `Reconfigure` the changes. A handle just parsed carries its own
  forward map, and the comparison does not look at it.
