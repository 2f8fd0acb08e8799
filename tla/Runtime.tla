------------------------------ MODULE Runtime ------------------------------
(***************************************************************************)
(* init_runtime: which runtime (metadata and types) decodes a block, and   *)
(* the caches it is looked up in: RuntimeCache and the fetcher that shares *)
(* the loading of a version.  A block is decoded with the runtime of its   *)
(* parent's state.  The first load is a task of its own, the startup task, *)
(* that calls for the startup block await.                                 *)
(*                                                                         *)
(* The fetchers of hashes, parents and versions of blocks only save        *)
(* requests here; what cancelling a shared fetch does is CachedFetcher's.  *)
(* Which entry a full LRU cache drops is left open.                        *)
(***************************************************************************)
EXTENDS Naturals, Sequences, FiniteSets

CONSTANTS
  Tasks,     \* tasks that call init_runtime
  Asks,      \* what they may ask for: a hash, a number or the head
  Startup,   \* the startup task
  Blocks,    \* blocks of all forks, by hash
  Parent,    \* each one's parent; the first block is its own
  Number,    \* its number
  Version,   \* spec version of its state
  Initial,   \* startup_block_hash: the head when the interface is initialized
  Known,     \* known_versions, sorted
  Capacity,  \* SUBSTRATE_RUNTIME_CACHE_SIZE
  MayFail    \* requests may fail, and tasks be cancelled

Callers   == Tasks \cup {Startup}
Versions  == {Version[b] : b \in Blocks}
Numbers   == {Number[b] : b \in Blocks}
NoBlock   == 0
NoVersion == 0
NoRuntime == [version |-> NoVersion, of |-> NoBlock]
Runtimes  == [version : Versions, of : Blocks]

\* A block and those before it.
ChainOf[b \in Blocks] == IF Parent[b] = b THEN {b} ELSE {b} \cup ChainOf[Parent[b]]

\* get_block_runtime_version_for
VersionFor(b) == Version[Parent[b]]

\* The search in known_versions, of which the last is left out.
KnownVersion(n) ==
  LET past == {i \in 1 .. Len(Known) - 1 : Known[i].number <= n}
  IN  IF past = {} THEN NoVersion ELSE Known[CHOOSE i \in past : \A j \in past : j <= i].version

ByHead    == [by |-> "head", of |-> NoBlock]
AtStartup == [by |-> "hash", of |-> Initial]
AllAsks   == {ByHead} \cup [by : {"hash"}, of : Blocks] \cup [by : {"number"}, of : Numbers]

ASSUME RuntimeAssumption ==
  /\ Startup \notin Tasks
  /\ Asks \subseteq AllAsks
  /\ Parent \in [Blocks -> Blocks] /\ Initial \in Blocks
  /\ NoBlock \notin Blocks /\ NoVersion \notin Versions
  /\ Capacity \in Nat \ {0}
  /\ MayFail \in BOOLEAN

\* The caller of add_known_versions counts as the code does: a version is for the
\* blocks whose parent's state has it.
ASSUME KnownAssumption == \A b \in Blocks : KnownVersion(Number[b]) \in {NoVersion, VersionFor(b)}

VARIABLES
  head,       \* the node's best block
  hashOf,     \* RuntimeCache.blocks: number to hash, or NoBlock
  numbered,   \* RuntimeCache.blocks_reverse: the hashes whose number is known
  versionOf,  \* RuntimeCache.block_hashes: hash to version
  versions,   \* RuntimeCache.versions: the runtimes it holds
  lastUsed,   \* RuntimeCache.last_used, by version
  fetched,    \* results get_runtime_for_version keeps
  leader,     \* callers that load a version, each that of its target ...
  cut,        \* ... and those whose shared future has been cancelled
  startup,    \* how startup_runtime_task is; forgotten when it was awaited and "ok"
  at,         \* where each caller is
  ask,        \* what it asks for
  target,     \* the block it has found
  got         \* how its last call ended

cacheVars == <<hashOf, numbered, versionOf, versions, lastUsed, fetched>>
vars == <<head, cacheVars, leader, cut, startup, at, ask, target, got>>

Pending == [how |-> "none", runtime |-> NoRuntime]

Init ==
  /\ head = Initial
  /\ hashOf = [n \in Numbers |-> NoBlock] /\ numbered = {}
  /\ versionOf = [b \in Blocks |-> NoVersion]
  /\ versions = {} /\ lastUsed = NoVersion /\ fetched = {}
  /\ leader = {} /\ cut = {}
  /\ startup = "running"
  /\ at = [c \in Callers |-> "idle"]
  /\ ask = [c \in Callers |-> AtStartup]
  /\ target = [c \in Callers |-> NoBlock]
  /\ got = [c \in Callers |-> Pending]

-----------------------------------------------------------------------------
Want(c) == VersionFor(target[c])

Held(cache, v) == {r \in cache : r.version = v}

\* LRUCache.set of versions.
Stored(cache, r) ==
  LET others == {o \in cache : o.version # r.version} IN
    IF Cardinality(others) < Capacity THEN {others \cup {r}}
    ELSE {(others \ {old}) \cup {r} : old \in others}

\* Calls that end; the startup task with its own.
EndAll(callers, how, r) ==
  /\ at' = [c \in Callers |-> IF c \in callers THEN "idle" ELSE at[c]]
  /\ got' = [c \in Callers |-> IF c \in callers THEN [how |-> how[c], runtime |-> r] ELSE got[c]]
  /\ startup' = IF Startup \in callers THEN how[Startup] ELSE startup

End(c, how, r) == EndAll({c}, [d \in Callers |-> how], r)

Waits(c, place) ==
  /\ at' = [at EXCEPT ![c] = place]
  /\ got' = [got EXCEPT ![c] = Pending]
  /\ UNCHANGED startup

\* retrieve found the one runtime, or nothing; on a miss it forgets last_used.
Retrieved(c, v, place) ==
  \/ \E r \in Held(versions, v) : lastUsed' = v /\ End(c, "ok", r)
  \/ Held(versions, v) = {} /\ lastUsed' = NoVersion /\ Waits(c, place)

\* MUTANT: an upgrade counts from the block before on.
KnownOr_Later(b) ==
  IF b \in numbered /\ KnownVersion(Number[b] + 1) # NoVersion THEN KnownVersion(Number[b] + 1) ELSE versionOf[b]

\* The version of a block as far as the cache knows it.
KnownOr(b) ==
  IF b \in numbered /\ KnownVersion(Number[b]) # NoVersion THEN KnownVersion(Number[b]) ELSE versionOf[b]

\* retrieve(block_hash=b)
ByHash(c, b) ==
  /\ versionOf' = [versionOf EXCEPT ![b] = KnownOr(b)]
  /\ target' = [target EXCEPT ![c] = b]
  /\ Retrieved(c, KnownOr(b), "version")
  /\ UNCHANGED <<versions, fetched, leader, cut>>

\* add_item without a runtime
Numbering(b) == hashOf' = [hashOf EXCEPT ![Number[b]] = b] /\ numbered' = numbered \cup {b}

-----------------------------------------------------------------------------
Begin(c, a) ==
  /\ at[c] = "idle"
  /\ IF c = Startup THEN startup = "running" /\ a = AtStartup ELSE a \in Asks
  /\ ask' = [ask EXCEPT ![c] = a]

\* The startup block is asked for before its task has succeeded.
AwaitsStartup(c, a) == c # Startup /\ startup # "ok" /\ a = AtStartup

CallStartup(c, a) ==
  /\ Begin(c, a) /\ AwaitsStartup(c, a)
  /\ Waits(c, "startup")
  /\ UNCHANGED <<head, cacheVars, leader, cut, target>>

CallHash(c, a) ==
  /\ Begin(c, a) /\ ~AwaitsStartup(c, a) /\ a.by = "hash"
  /\ ByHash(c, a.of)
  /\ UNCHANGED <<head, hashOf, numbered>>

\* retrieve(block=n), which does not use what known_versions says of n; then by the
\* number's hash, when that is in the cache.
CallNumber(c, a) ==
  LET b == hashOf[a.of] IN
  /\ Begin(c, a) /\ a.by = "number"
  /\ IF b = NoBlock
     THEN /\ lastUsed' = NoVersion
          /\ Waits(c, "number")
          /\ UNCHANGED <<versionOf, versions, fetched, leader, cut, target>>
     ELSE IF Held(versions, versionOf[b]) = {} THEN ByHash(c, b)
     ELSE /\ target' = [target EXCEPT ![c] = b]
          /\ Retrieved(c, versionOf[b], "number")
          /\ UNCHANGED <<versionOf, versions, fetched, leader, cut>>
  /\ UNCHANGED <<head, hashOf, numbered>>

CallHead(c, a) ==
  /\ Begin(c, a) /\ a.by = "head"
  /\ Waits(c, "head")
  /\ UNCHANGED <<head, cacheVars, leader, cut, target>>

\* The startup task is done.  A failed or cancelled one stays: every later call for
\* the startup block raises the same.
StartupDone(c) ==
  /\ at[c] = "startup"
  /\ \/ startup = "ok" /\ ByHash(c, Initial)
     \/ /\ startup \in {"error", "cancelled"}
        /\ End(c, startup, NoRuntime)
        /\ UNCHANGED <<versionOf, target, versions, lastUsed, fetched, leader, cut>>
  /\ UNCHANGED <<head, hashOf, numbered, ask>>

\* get_block_hash: the node knows the number ...
GotHash(c) ==
  /\ at[c] = "number"
  /\ \E b \in Blocks :
       b \in ChainOf[head] /\ Number[b] = ask[c].of /\ Numbering(b) /\ ByHash(c, b)
  /\ UNCHANGED <<head, ask>>

\* ... or has no such block yet: the call is for the head then.
PastHead(c) ==
  /\ at[c] = "number" /\ ask[c].of > Number[head]
  /\ Waits(c, "head")
  /\ UNCHANGED <<head, cacheVars, leader, cut, ask, target>>

GotHead(c) ==
  /\ at[c] = "head"
  /\ target' = [target EXCEPT ![c] = head]
  /\ Waits(c, "version")
  /\ UNCHANGED <<head, cacheVars, leader, cut, ask>>

\* The version is known, and its runtime is held by one of the caches ...
VersionHeld(c) ==
  LET v == Want(c) IN
  /\ at[c] = "version"
  /\ \/ lastUsed' = v /\ \E r \in Held(versions, v) : End(c, "ok", r)
     \/ Held(versions, v) = {} /\ UNCHANGED lastUsed /\ \E r \in Held(fetched, v) : End(c, "ok", r)
  /\ UNCHANGED <<head, hashOf, numbered, versionOf, versions, fetched, leader, cut, ask, target>>

\* ... or being loaded, or to be loaded.
VersionMissed(c) ==
  LET v == Want(c)
      loading == {d \in leader : Want(d) = v}
  IN
  /\ at[c] = "version"
  /\ Held(versions \cup fetched, v) = {}
  /\ \/ loading = {} /\ leader' = leader \cup {c} /\ Waits(c, "loading")
     \/ loading # {} /\ UNCHANGED leader
        /\ IF loading \subseteq cut THEN End(c, "cancelled", NoRuntime)
           ELSE Waits(c, "following")
  /\ UNCHANGED <<head, cacheVars, cut, ask, target>>

Followers(c) == {d \in Callers : at[d] = "following" /\ Want(d) = Want(c)}

\* MUTANT: the content is that of the block and not of its parent.
Content_Own(b) == b

\* The block whose metadata and runtime info _get_runtime_for_version asks for.
Content(b) == Parent[b]

\* get_block_number, one of the requests of a load.
Numbered(c) ==
  /\ at[c] = "loading" /\ target[c] \notin numbered
  /\ Numbering(target[c])
  /\ UNCHANGED <<head, versionOf, versions, lastUsed, fetched, leader, cut, startup, at, ask, target, got>>

\* The runtime is loaded and put in the caches; who followed gets it too.  If the
\* shared future was cancelled the call raises all the same.
Loaded(c) ==
  LET r == [version |-> Want(c), of |-> Content(target[c])] IN
  /\ at[c] = "loading"
  /\ versions' \in Stored(versions, r)
  /\ fetched' \in Stored(fetched, r)
  /\ lastUsed' = Want(c)
  /\ versionOf' = [versionOf EXCEPT ![target[c]] = Want(c)]
  /\ Numbering(target[c])
  /\ leader' = leader \ {c} /\ cut' = cut \ {c}
  /\ EndAll({c} \cup Followers(c), [d \in Callers |-> IF c \in cut THEN "error" ELSE "ok"],
            IF c \in cut THEN NoRuntime ELSE r)
  /\ UNCHANGED <<head, ask, target>>

\* Whose await ends with a caller that raises: those that share a load with it.
With(c) ==
  IF at[c] = "following" THEN Followers(c) ELSE IF c \in leader THEN {c} \cup Followers(c) ELSE {c}

\* MUTANT: the future of a load that raises is kept.
Drop_Kept(gone) == UNCHANGED leader /\ UNCHANGED cut

\* MUTANT: the future of such a load stays cut.
Drop_Cut(gone) ==
  /\ leader' = leader \ gone
  /\ cut' = cut \cup {d \in leader : \E e \in gone : at[e] = "following" /\ Want(e) = Want(d)}

\* The loads of those callers are over; the future of a load they followed is cut.
Drop(gone) ==
  /\ leader' = leader \ gone
  /\ cut' = {d \in leader \ gone : d \in cut \/ \E e \in gone : at[e] = "following" /\ Want(e) = Want(d)}

Fails(c) ==
  /\ MayFail
  /\ at[c] \in {"number", "head", "version", "loading"}
  /\ Drop(With(c))
  /\ EndAll(With(c), [d \in Callers |-> IF d = c THEN "error" ELSE "cancelled"], NoRuntime)
  /\ UNCHANGED <<head, cacheVars, ask, target>>

\* A task is cancelled, and the startup task with one that awaits it; a fail-over
\* and close cancel the startup task too.
Cancel(c) ==
  LET gone == With(c) \cup IF at[c] = "startup" /\ startup = "running" THEN With(Startup) ELSE {} IN
  /\ MayFail
  /\ at[c] # "idle" \/ (c = Startup /\ startup = "running")
  /\ Drop(gone)
  /\ EndAll(gone, [d \in Callers |-> "cancelled"], NoRuntime)
  /\ UNCHANGED <<head, cacheVars, ask, target>>

\* The best chain grows or is replaced by one as high.
NewHead(b) ==
  /\ b # head /\ Number[b] >= Number[head]
  /\ head' = b
  /\ UNCHANGED <<cacheVars, leader, cut, startup, at, ask, target, got>>

Calls(c) == \E a \in Asks \cup {AtStartup} : CallStartup(c, a) \/ CallHash(c, a) \/ CallNumber(c, a) \/ CallHead(c, a)

Proceeds(c) ==
  \/ StartupDone(c) \/ GotHash(c) \/ PastHead(c) \/ GotHead(c)
  \/ VersionHeld(c) \/ VersionMissed(c) \/ Loaded(c)

Next ==
  \/ \E c \in Callers : Calls(c) \/ Proceeds(c) \/ Numbered(c) \/ Fails(c) \/ Cancel(c)
  \/ \E b \in Blocks : NewHead(b)

Spec == Init /\ [][Next]_vars

-----------------------------------------------------------------------------
TypeOK ==
  /\ head \in Blocks
  /\ hashOf \in [Numbers -> Blocks \cup {NoBlock}] /\ numbered \subseteq Blocks
  /\ versionOf \in [Blocks -> Versions \cup {NoVersion}]
  /\ versions \subseteq Runtimes /\ fetched \subseteq Runtimes
  /\ lastUsed \in Versions \cup {NoVersion}
  /\ leader \subseteq Callers /\ cut \subseteq leader
  /\ startup \in {"running", "ok", "error", "cancelled"}
  /\ at \in [Callers -> {"idle", "startup", "number", "head", "version", "loading", "following"}]
  /\ ask \in [Callers -> Asks \cup {AtStartup}]
  /\ target \in [Callers -> Blocks \cup {NoBlock}]
  /\ got \in [Callers -> [how : {"none", "ok", "error", "cancelled"}, runtime : Runtimes \cup {NoRuntime}]]

\* The caches say the truth of every block, whichever fork it is on and whatever
\* failed: numbers, versions, and of each version the content of a block's state
\* that has it.
CacheTrue ==
  /\ \A n \in Numbers : hashOf[n] # NoBlock => Number[hashOf[n]] = n
  /\ \A b \in Blocks : versionOf[b] \in {NoVersion, VersionFor(b)}
  /\ \A r \in versions \cup fetched : Version[r.of] = r.version

\* A call that returns has the runtime of the state before the block it was for,
\* whether it was known, looked up, shared with another call or loaded.
RuntimeFits ==
  \A c \in Callers : at[c] = "idle" /\ got[c].how = "ok" =>
    /\ got[c].runtime.version = VersionFor(target[c])
    /\ Version[got[c].runtime.of] = VersionFor(target[c])
    /\ ask[c].by = "hash" => target[c] = ask[c].of

\* Nobody waits for a load that no call is going to finish: whoever follows has a
\* leader with a future that is not cancelled, a version has one leader, and the
\* startup task that others await does not await itself, and has begun or will.
Led ==
  /\ leader = {c \in Callers : at[c] = "loading"}
  /\ \A c \in Callers : at[c] = "following" => \E d \in leader \ cut : Want(d) = Want(c)
  /\ \A c, d \in leader : Want(c) = Want(d) => c = d
  /\ at[Startup] # "startup" /\ (startup = "running" /\ at[Startup] = "idle" => got[Startup] = Pending)
=============================================================================
