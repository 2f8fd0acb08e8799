--------------------------- MODULE RuntimeProofs ---------------------------
EXTENDS Runtime, TLAPS
(***************************************************************************)
(* Theorems about Runtime, for every set of tasks, tree of blocks and      *)
(* placement of upgrades in it.                                            *)
(***************************************************************************)
-----------------------------------------------------------------------------
(* The inductive invariant.                                                *)

\* The block a call has found is the one it asks for, and so is where it looks.
CallerOK(c) ==
  /\ at[c] \in {"version", "loading", "following"} =>
       target[c] \in Blocks /\ (ask[c].by = "hash" => target[c] = ask[c].of)
  /\ at[c] = "head" => ask[c].by # "hash"
  /\ at[c] = "number" => ask[c].by = "number"
  /\ at[c] = "startup" => ask[c] = AtStartup
  /\ at[c] = "idle" /\ got[c].how = "ok" =>
       /\ got[c].runtime.version = VersionFor(target[c])
       /\ Version[got[c].runtime.of] = VersionFor(target[c])
       /\ ask[c].by = "hash" => target[c] = ask[c].of

CacheType ==
  /\ head \in Blocks
  /\ hashOf \in [Numbers -> Blocks \cup {NoBlock}] /\ numbered \subseteq Blocks
  /\ versionOf \in [Blocks -> Versions \cup {NoVersion}]
  /\ versions \subseteq Runtimes /\ fetched \subseteq Runtimes
  /\ lastUsed \in Versions \cup {NoVersion}

Hows   == {"ok", "error", "cancelled"}
Places == {"idle", "startup", "number", "head", "version", "loading", "following"}

CallerType ==
  /\ leader \subseteq Callers /\ cut \subseteq leader
  /\ startup \in {"running"} \cup Hows
  /\ at \in [Callers -> Places]
  /\ ask \in [Callers -> Asks \cup {AtStartup}]
  /\ target \in [Callers -> Blocks \cup {NoBlock}]
  /\ got \in [Callers -> [how : {"none"} \cup Hows, runtime : Runtimes \cup {NoRuntime}]]

LEMMA Types == TypeOK <=> CacheType /\ CallerType
BY DEF TypeOK, CacheType, CallerType, Hows, Places

\* Led, in two parts.
LoadsLed ==
  /\ leader = {c \in Callers : at[c] = "loading"}
  /\ \A c \in Callers : at[c] = "following" => \E d \in leader \ cut : Want(d) = Want(c)
  /\ \A c, d \in leader : Want(c) = Want(d) => c = d

StartupLed == at[Startup] # "startup" /\ (startup = "running" /\ at[Startup] = "idle" => got[Startup] = Pending)

CallersOK == CallerType /\ LoadsLed /\ StartupLed /\ \A c \in Callers : CallerOK(c)

CachesOK == CacheType /\ CacheTrue

IInv == CachesOK /\ CallersOK

LEMMA VersionForType ==
  \A b \in Blocks : /\ Parent[b] \in Blocks /\ VersionFor(b) \in Versions
                    /\ KnownOr(b) \in {NoVersion, VersionFor(b), versionOf[b]}
BY RuntimeAssumption, KnownAssumption, Zenon DEF VersionFor, Versions, KnownOr

LEMMA AskType ==
  \A a \in Asks \cup {AtStartup} : /\ a.by = "hash" => a.of \in Blocks
                                   /\ a.by = "number" => a.of \in Numbers
<1>1. \A a \in AllAsks : (a.by = "hash" => a.of \in Blocks) /\ (a.by = "number" => a.of \in Numbers)
  BY DEF AllAsks, ByHead
<1>2. AtStartup \in AllAsks
  BY RuntimeAssumption DEF AtStartup, AllAsks
<1>. QED BY <1>1, <1>2, RuntimeAssumption

\* What is held under a version is of that version; nothing is held under none.
LEMMA HeldTrue ==
  ASSUME CachesOK, NEW v, NEW r \in Held(versions \cup fetched, v)
  PROVE  r \in Runtimes /\ r.version = v /\ v \in Versions /\ v # NoVersion /\ Version[r.of] = v
BY RuntimeAssumption DEF CachesOK, CacheType, CacheTrue, Held, Runtimes

-----------------------------------------------------------------------------
(* The caches.                                                             *)

\* What a step may do to them: a number and a version of a block are noted ...
Noted(b) == (hashOf' = hashOf /\ numbered' = numbered) \/ Numbering(b)
Dated(b) == versionOf' = versionOf \/ \E v \in {NoVersion, VersionFor(b), versionOf[b]} :
                                        versionOf' = [versionOf EXCEPT ![b] = v]

\* ... and a runtime is stored.
Kept(r) == versions' \subseteq versions \cup {r} /\ fetched' \subseteq fetched \cup {r}
Built(b) == [version |-> VersionFor(b), of |-> Parent[b]]

LEMMA CachesKept ==
  ASSUME CachesOK, NEW b \in Blocks, head' \in Blocks, Noted(b), Dated(b), Kept(Built(b)),
         lastUsed' \in Versions \cup {NoVersion}
  PROVE  CachesOK'
<1>. USE DEF CachesOK
<1>1. Number[b] \in Numbers
  BY DEF Numbers
<1>2. hashOf' \in [Numbers -> Blocks \cup {NoBlock}] /\ numbered' \subseteq Blocks
  BY <1>1 DEF CacheType, Noted, Numbering
<1>3. \A n \in Numbers : hashOf'[n] # NoBlock => Number[hashOf'[n]] = n
  BY <1>1 DEF CacheType, CacheTrue, Noted, Numbering
<1>4. versionOf' \in [Blocks -> Versions \cup {NoVersion}]
  BY VersionForType DEF CacheType, Dated
<1>5. \A d \in Blocks : versionOf'[d] \in {NoVersion, VersionFor(d)}
  BY DEF CacheType, CacheTrue, Dated
<1>6. Built(b) \in Runtimes /\ Version[Built(b).of] = Built(b).version
  BY VersionForType DEF Built, Runtimes, VersionFor
<1>7. versions' \subseteq Runtimes /\ fetched' \subseteq Runtimes
  BY <1>6 DEF CacheType, Kept
<1>8. \A r \in versions' \cup fetched' : Version[r.of] = r.version
  BY <1>6 DEF CacheTrue, Kept
<1>. QED BY <1>2, <1>3, <1>4, <1>5, <1>7, <1>8 DEF CacheType, CacheTrue

LEMMA RetrievedUses ==
  ASSUME CachesOK, NEW c, NEW v, NEW place, Retrieved(c, v, place)
  PROVE  lastUsed' \in Versions \cup {NoVersion}
BY HeldTrue DEF Retrieved, Held

LEMMA ByHashCaches ==
  ASSUME CachesOK, NEW c, NEW b \in Blocks, ByHash(c, b), Noted(b), head' = head
  PROVE  CachesOK'
<1>1. Dated(b)
  BY VersionForType DEF ByHash, Dated
<1>2. lastUsed' \in Versions \cup {NoVersion}
  BY RetrievedUses DEF ByHash
<1>3. Kept(Built(b))
  BY DEF ByHash, Kept
<1>. QED BY <1>1, <1>2, <1>3, CachesKept DEF CachesOK, CacheType

LEMMA Unnoted ==
  ASSUME CachesOK, head' \in Blocks, UNCHANGED <<hashOf, numbered, versionOf, versions, fetched>>,
         lastUsed' \in Versions \cup {NoVersion}
  PROVE  CachesOK'
BY CachesKept DEF Noted, Dated, Kept, CachesOK, CacheType

LEMMA StoredKept ==
  ASSUME NEW cache, NEW r, NEW new \in Stored(cache, r)
  PROVE  new \subseteq cache \cup {r}
BY Zenon DEF Stored

LEMMA NextCaches ==
  ASSUME CachesOK, CallersOK, [Next]_vars
  PROVE  CachesOK'
<1>. USE DEF CachesOK, CallersOK
<1>1. ASSUME head' \in Blocks, UNCHANGED cacheVars PROVE CachesOK'
  BY <1>1, Unnoted DEF cacheVars, CacheType
<1>2. ASSUME NEW c \in Callers, NEW a \in Asks \cup {AtStartup}, CallHash(c, a) PROVE CachesOK'
  BY <1>2, AskType, ByHashCaches DEF CallHash, Noted
<1>3. ASSUME NEW c \in Callers, NEW a \in Asks \cup {AtStartup}, CallNumber(c, a) PROVE CachesOK'
  <2>. DEFINE b == hashOf[a.of]
  <2>1. b \in Blocks \cup {NoBlock} /\ UNCHANGED <<head, hashOf, numbered>>
    BY <1>3, AskType DEF CallNumber, CacheType
  <2>2. CASE b = NoBlock
    BY <1>3, <2>1, <2>2, Unnoted DEF CallNumber, CacheType
  <2>3. CASE b # NoBlock /\ Held(versions, versionOf[b]) = {}
    BY <1>3, <2>1, <2>3, ByHashCaches DEF CallNumber, Noted
  <2>4. CASE b # NoBlock /\ Held(versions, versionOf[b]) # {}
    <3>1. Retrieved(c, versionOf[b], "number") /\ UNCHANGED <<versionOf, versions, fetched>>
      BY <1>3, <2>4 DEF CallNumber
    <3>. QED BY <2>1, <3>1, RetrievedUses, Unnoted DEF CacheType
  <2>. QED BY <2>2, <2>3, <2>4
<1>4. ASSUME NEW c \in Callers, StartupDone(c) PROVE CachesOK'
  BY <1>4, ByHashCaches, Unnoted, RuntimeAssumption DEF StartupDone, Noted, CacheType
<1>5. ASSUME NEW c \in Callers, GotHash(c) PROVE CachesOK'
  BY <1>5, ByHashCaches DEF GotHash, Noted
<1>6. ASSUME NEW c \in Callers, VersionHeld(c) PROVE CachesOK'
  <2>1. lastUsed' \in Versions \cup {NoVersion}
    BY <1>6, HeldTrue DEF VersionHeld, Held, CacheType
  <2>. QED BY <1>6, <2>1, Unnoted DEF VersionHeld, CacheType
<1>7. ASSUME NEW c \in Callers, Numbered(c) PROVE CachesOK'
  <2>1. target[c] \in Blocks
    BY <1>7 DEF Numbered, CallerOK
  <2>. QED BY <1>7, <2>1, CachesKept DEF Numbered, Noted, Dated, Kept, CacheType
<1>8. ASSUME NEW c \in Callers, Loaded(c) PROVE CachesOK'
  <2>. DEFINE b == target[c]
  <2>1. b \in Blocks
    BY <1>8 DEF Loaded, CallerOK
  <2>2. [version |-> Want(c), of |-> Content(b)] = Built(b) /\ Want(c) = VersionFor(b)
    BY DEF Built, Content, Want
  <2>3. Kept(Built(b))
    BY <1>8, <2>2, StoredKept DEF Loaded, Kept
  <2>4. Dated(b) /\ Noted(b) /\ lastUsed' = VersionFor(b) /\ head' = head
    BY <1>8, <2>2 DEF Loaded, Dated, Noted
  <2>. HIDE DEF b
  <2>. QED BY <2>1, <2>3, <2>4, VersionForType, CachesKept DEF CacheType
<1>9. \/ head' \in Blocks /\ UNCHANGED cacheVars
      \/ \E c \in Callers : \/ \E a \in Asks \cup {AtStartup} : CallHash(c, a) \/ CallNumber(c, a)
                            \/ StartupDone(c) \/ GotHash(c) \/ VersionHeld(c) \/ Numbered(c) \/ Loaded(c)
  <2>1. head \in Blocks
    BY DEF CacheType
  <2>. QED BY <2>1 DEF Next, vars, Calls, Proceeds, CallStartup, CallHead, PastHead, GotHead, VersionMissed,
                      Fails, Cancel, NewHead
<1>. QED BY <1>1, <1>2, <1>3, <1>4, <1>5, <1>6, <1>7, <1>8, <1>9

-----------------------------------------------------------------------------
(* One caller moves.                                                       *)

\* The state of a caller; a step of one that neither loads nor follows leaves the
\* others and the loads alone.
CallerRecord(c) == <<at[c], ask[c], target[c], got[c]>>

Moves(c) ==
  /\ at[c] \notin {"loading", "following"} /\ at'[c] \notin {"loading", "following"}
  /\ \A d \in Callers \ {c} : CallerRecord(d)' = CallerRecord(d)
  /\ UNCHANGED <<leader, cut>>

LEMMA MoveKeeps ==
  ASSUME CallersOK, NEW c \in Callers, Moves(c), CallerType', CallerOK(c)',
         c # Startup => startup' = startup,
         c = Startup => startup' # "running" \/ at'[c] # "idle",
         c = Startup => at'[c] # "startup"
  PROVE  CallersOK'
<1>1. \A d \in Callers \ {c} : at'[d] = at[d] /\ ask'[d] = ask[d] /\ target'[d] = target[d] /\ got'[d] = got[d]
  BY DEF Moves, CallerRecord
<1>2. \A d \in Callers : CallerOK(d)'
  BY <1>1 DEF CallersOK, CallerOK
<1>3. \A d \in Callers : at[d] \in {"loading", "following"} => Want(d)' = Want(d) /\ d # c
  BY <1>1 DEF Want, Moves
<1>4. LoadsLed'
  <2>1. leader' = {d \in Callers : at'[d] = "loading"}
    BY <1>1 DEF CallersOK, LoadsLed, Moves
  <2>2. \A d \in leader : Want(d)' = Want(d) /\ d \in Callers
    BY <1>3 DEF CallersOK, LoadsLed
  <2>3. \A d \in Callers : at'[d] = "following" => at[d] = "following" /\ Want(d)' = Want(d)
    BY <1>1, <1>3 DEF Moves
  <2>4. \A d \in Callers : at'[d] = "following" => \E e \in leader' \ cut' : Want(e)' = Want(d)'
    BY <2>2, <2>3 DEF CallersOK, LoadsLed, Moves
  <2>5. \A d, e \in leader' : Want(d)' = Want(e)' => d = e
    BY <2>2 DEF CallersOK, LoadsLed, Moves
  <2>. QED BY <2>1, <2>4, <2>5 DEF LoadsLed
<1>5. StartupLed'
  BY <1>1 DEF CallersOK, StartupLed, Callers
<1>. QED BY <1>2, <1>4, <1>5 DEF CallersOK

\* What ends a call and what makes it wait, in one form.
Goes(c, place, how, r, s) ==
  /\ at' = [at EXCEPT ![c] = place]
  /\ got' = [got EXCEPT ![c] = [how |-> how, runtime |-> r]]
  /\ startup' = s

LEMMA EndGoes ==
  ASSUME CallersOK, NEW c \in Callers, NEW how, NEW r, End(c, how, r)
  PROVE  Goes(c, "idle", how, r, IF c = Startup THEN how ELSE startup)
<1>1. at \in [Callers -> Places] /\ got \in [Callers -> [how : {"none"} \cup Hows, runtime : Runtimes \cup {NoRuntime}]]
  BY DEF CallersOK, CallerType
<1>2. at' = [d \in Callers |-> IF d \in {c} THEN "idle" ELSE at[d]]
  BY DEF End, EndAll
<1>3. got' = [d \in Callers |-> IF d \in {c} THEN [how |-> [e \in Callers |-> how][d], runtime |-> r] ELSE got[d]]
  BY DEF End, EndAll
<1>4. got' = [d \in Callers |-> IF d = c THEN [how |-> how, runtime |-> r] ELSE got[d]]
  BY <1>3
<1>5. startup' = IF c = Startup THEN how ELSE startup
  BY DEF End, EndAll
<1>. QED BY <1>1, <1>2, <1>4, <1>5 DEF Goes

LEMMA WaitsGoes ==
  ASSUME NEW c \in Callers, NEW place, Waits(c, place)
  PROVE  Goes(c, place, "none", NoRuntime, startup)
BY DEF Waits, Goes, Pending

\* It asks for a, and has found b.
Finds(c, a, b) ==
  /\ ask' = [ask EXCEPT ![c] = a] /\ target' = [target EXCEPT ![c] = b]
  /\ UNCHANGED <<leader, cut>>

Went(c, place, how, r, s, a, b) == Goes(c, place, how, r, s) /\ Finds(c, a, b)

LEMMA GoesKeeps ==
  ASSUME CallersOK, NEW c \in Callers, at[c] \notin {"loading", "following"},
         NEW place \in Places \ {"loading", "following"}, NEW how \in {"none"} \cup Hows,
         NEW r \in Runtimes \cup {NoRuntime},
         NEW s, s = IF c = Startup /\ place = "idle" THEN how ELSE startup,
         place = "idle" <=> how # "none",
         c = Startup => place # "startup",
         NEW a \in Asks \cup {AtStartup}, NEW b \in Blocks \cup {NoBlock},
         Went(c, place, how, r, s, a, b),
         place = "version" \/ how = "ok" => b \in Blocks /\ (a.by = "hash" => b = a.of),
         place = "head" => a.by # "hash",
         place = "number" => a.by = "number",
         place = "startup" => a = AtStartup,
         how = "ok" => r.version = VersionFor(b) /\ Version[r.of] = VersionFor(b)
  PROVE  CallersOK'
<1>1. /\ at \in [Callers -> Places] /\ ask \in [Callers -> Asks \cup {AtStartup}]
      /\ target \in [Callers -> Blocks \cup {NoBlock}]
      /\ got \in [Callers -> [how : {"none"} \cup Hows, runtime : Runtimes \cup {NoRuntime}]]
      /\ leader \subseteq Callers /\ cut \subseteq leader /\ startup \in {"running"} \cup Hows
  BY DEF CallersOK, CallerType
<1>2. at'[c] = place /\ ask'[c] = a /\ target'[c] = b /\ got'[c] = [how |-> how, runtime |-> r]
  BY <1>1 DEF Went, Goes, Finds
<1>3. \A d \in Callers \ {c} : at'[d] = at[d] /\ ask'[d] = ask[d] /\ target'[d] = target[d] /\ got'[d] = got[d]
  BY <1>1 DEF Went, Goes, Finds
<1>4. startup' = IF c = Startup /\ place = "idle" THEN how ELSE startup
  BY DEF Went, Goes, Finds
<1>5. CallerType'
  <2>1. at' \in [Callers -> Places] /\ ask' \in [Callers -> Asks \cup {AtStartup}]
        /\ target' \in [Callers -> Blocks \cup {NoBlock}]
    BY <1>1 DEF Went, Goes, Finds
  <2>2. [how |-> how, runtime |-> r] \in [how : {"none"} \cup Hows, runtime : Runtimes \cup {NoRuntime}]
    OBVIOUS
  <2>3. got' \in [Callers -> [how : {"none"} \cup Hows, runtime : Runtimes \cup {NoRuntime}]]
    BY <1>1, <2>2 DEF Went, Goes, Finds
  <2>4. startup' \in {"running"} \cup Hows
    BY <1>1, <1>4
  <2>. QED BY <1>1, <2>1, <2>3, <2>4 DEF CallerType, Went, Finds
<1>6. CallerOK(c)'
  BY <1>2 DEF CallerOK
<1>7. Moves(c)
  BY <1>2, <1>3 DEF Went, Finds, Moves, CallerRecord
<1>8. c = Startup => startup' # "running" \/ at'[c] # "idle"
  BY <1>2, <1>4 DEF Hows
<1>. QED BY <1>2, <1>4, <1>5, <1>6, <1>7, <1>8, MoveKeeps

LEMMA AskKept ==
  ASSUME CallersOK, NEW c \in Callers
  PROVE  /\ ask' = ask => ask' = [ask EXCEPT ![c] = ask[c]] 
         /\ target' = target => target' = [target EXCEPT ![c] = target[c]]
         /\ ask[c] \in Asks \cup {AtStartup} /\ target[c] \in Blocks \cup {NoBlock}
BY DEF CallersOK, CallerType

\* retrieve: what it returns fits the block.
LEMMA ByHashKeeps ==
  ASSUME CachesOK, CallersOK, NEW c \in Callers, at[c] \notin {"loading", "following"}, NEW b \in Blocks,
         ByHash(c, b),
         NEW a \in Asks \cup {AtStartup}, ask' = [ask EXCEPT ![c] = a], a.by = "hash" => b = a.of
  PROVE  CallersOK'
<1>1. target' = [target EXCEPT ![c] = b] /\ UNCHANGED <<leader, cut>>
  BY DEF ByHash
<1>2. CASE Waits(c, "version")
  <2>1. Goes(c, "version", "none", NoRuntime, startup)
    BY <1>2, WaitsGoes
  <2>2. Went(c, "version", "none", NoRuntime, startup, a, b)
    BY <1>1, <2>1 DEF Went, Finds
  <2>. QED BY <2>2, GoesKeeps DEF Places
<1>3. ASSUME NEW r \in Held(versions, KnownOr(b)), End(c, "ok", r) PROVE CallersOK'
  <2>1. r \in Runtimes /\ r.version = VersionFor(b) /\ Version[r.of] = VersionFor(b)
    <3>1. r \in Held(versions \cup fetched, KnownOr(b))
      BY DEF Held
    <3>2. KnownOr(b) \in {NoVersion, VersionFor(b)}
      BY VersionForType DEF CachesOK, CacheTrue
    <3>. QED BY <3>1, <3>2, HeldTrue
  <2>2. Goes(c, "idle", "ok", r, IF c = Startup THEN "ok" ELSE startup)
    BY <1>3, EndGoes
  <2>3. Went(c, "idle", "ok", r, IF c = Startup THEN "ok" ELSE startup, a, b)
    BY <1>1, <2>2 DEF Went, Finds
  <2>. QED BY <2>1, <2>3, GoesKeeps DEF Places, Hows
<1>. QED BY <1>2, <1>3 DEF ByHash, Retrieved

LEMMA CallKeeps ==
  ASSUME CachesOK, CallersOK, NEW c \in Callers, NEW a \in Asks \cup {AtStartup},
         CallStartup(c, a) \/ CallHash(c, a) \/ CallNumber(c, a) \/ CallHead(c, a)
  PROVE  CallersOK'
<1>1. at[c] = "idle" /\ ask' = [ask EXCEPT ![c] = a]
  BY DEF CallStartup, CallHash, CallNumber, CallHead, Begin
<1>2. ASSUME NEW place \in {"startup", "number", "head"}, Waits(c, place), UNCHANGED <<target, leader, cut>>,
             place = "startup" => c # Startup /\ a = AtStartup,
             place = "number" => a.by = "number", place = "head" => a.by # "hash"
      PROVE  CallersOK'
  <2>1. Went(c, place, "none", NoRuntime, startup, a, target[c])
    BY <1>1, <1>2, WaitsGoes, AskKept DEF Went, Finds
  <2>2. target[c] \in Blocks \cup {NoBlock}
    BY AskKept
  <2>. QED BY <1>1, <1>2, <2>1, <2>2, GoesKeeps DEF Places
<1>3. CASE CallStartup(c, a)
  BY <1>2, <1>3 DEF CallStartup, AwaitsStartup
<1>4. CASE CallHead(c, a)
  BY <1>2, <1>4 DEF CallHead
<1>5. CASE CallHash(c, a)
  BY <1>1, <1>5, AskType, ByHashKeeps DEF CallHash
<1>6. CASE CallNumber(c, a)
  <2>. DEFINE b == hashOf[a.of]
  <2>1. a.by = "number" /\ b \in Blocks \cup {NoBlock}
    BY <1>6, AskType DEF CallNumber, CachesOK, CacheType
  <2>2. CASE b = NoBlock
    BY <1>2, <1>6, <2>1, <2>2 DEF CallNumber
  <2>3. CASE b # NoBlock /\ Held(versions, versionOf[b]) = {}
    <3>1. ByHash(c, b)
      BY <1>6, <2>3 DEF CallNumber
    <3>. QED BY <1>1, <2>1, <2>3, <3>1, ByHashKeeps
  <2>4. CASE b # NoBlock /\ Held(versions, versionOf[b]) # {}
    <3>1. target' = [target EXCEPT ![c] = b] /\ UNCHANGED <<leader, cut>> /\ Retrieved(c, versionOf[b], "number")
      BY <1>6, <2>4 DEF CallNumber
    <3>2. PICK r \in Held(versions, versionOf[b]) : End(c, "ok", r)
      BY <2>4, <3>1 DEF Retrieved
    <3>3. r \in Runtimes /\ r.version = VersionFor(b) /\ Version[r.of] = VersionFor(b)
      <4>1. r \in Held(versions \cup fetched, versionOf[b])
        BY DEF Held
      <4>2. versionOf[b] \in {NoVersion, VersionFor(b)}
        BY <2>1, <2>4 DEF CachesOK, CacheTrue
      <4>. HIDE DEF b
      <4>. QED BY <4>1, <4>2, HeldTrue
    <3>4. Went(c, "idle", "ok", r, IF c = Startup THEN "ok" ELSE startup, a, b)
      BY <1>1, <3>1, <3>2, EndGoes DEF Went, Finds
    <3>. HIDE DEF b
    <3>. QED BY <1>1, <2>1, <2>4, <3>3, <3>4, GoesKeeps DEF Places, Hows
  <2>. QED BY <2>2, <2>3, <2>4
<1>. QED BY <1>3, <1>4, <1>5, <1>6

LEMMA ProceedKeeps ==
  ASSUME CachesOK, CallersOK, NEW c \in Callers,
         StartupDone(c) \/ GotHash(c) \/ PastHead(c) \/ GotHead(c) \/ VersionHeld(c)
  PROVE  CallersOK'
<1>. DEFINE a == ask[c]
<1>1. at[c] \notin {"loading", "following"} /\ a \in Asks \cup {AtStartup} /\ ask' = [ask EXCEPT ![c] = a]
  BY AskKept DEF StartupDone, GotHash, PastHead, GotHead, VersionHeld
<1>2. CallerOK(c)
  BY DEF CallersOK
<1>3. CASE StartupDone(c)
  <2>1. at[c] = "startup" /\ a = AtStartup /\ c # Startup
    BY <1>2, <1>3 DEF StartupDone, CallerOK, CallersOK, StartupLed
  <2>2. CASE ByHash(c, Initial)
    BY <1>1, <2>1, <2>2, ByHashKeeps, RuntimeAssumption DEF AtStartup
  <2>3. CASE startup \in {"error", "cancelled"} /\ End(c, startup, NoRuntime) /\ UNCHANGED <<target, leader, cut>>
    <3>1. Went(c, "idle", startup, NoRuntime, startup, a, target[c])
      BY <1>1, <2>1, <2>3, EndGoes, AskKept DEF Went, Finds
    <3>2. target[c] \in Blocks \cup {NoBlock}
      BY AskKept
    <3>. QED BY <1>1, <2>1, <2>3, <3>1, <3>2, GoesKeeps DEF Places, Hows
  <2>. QED BY <1>3, <2>2, <2>3 DEF StartupDone
<1>4. CASE GotHash(c)
  <2>1. a.by = "number"
    BY <1>2, <1>4 DEF GotHash, CallerOK
  <2>2. PICK b \in Blocks : ByHash(c, b)
    BY <1>4 DEF GotHash
  <2>. QED BY <1>1, <2>1, <2>2, ByHashKeeps
<1>5. CASE PastHead(c)
  <2>1. a.by = "number" /\ Waits(c, "head") /\ UNCHANGED <<target, leader, cut>>
    BY <1>2, <1>5 DEF PastHead, CallerOK
  <2>2. Went(c, "head", "none", NoRuntime, startup, a, target[c]) /\ target[c] \in Blocks \cup {NoBlock}
    BY <1>1, <2>1, WaitsGoes, AskKept DEF Went, Finds
  <2>3. "head" \in Places \ {"loading", "following"} /\ a.by # "hash" /\ a \in Asks \cup {AtStartup}
    BY <1>1, <2>1 DEF Places
  <2>4. at[c] \notin {"loading", "following"}
    BY <1>1
  <2>. HIDE DEF a
  <2>. QED BY <2>2, <2>3, <2>4, GoesKeeps
<1>6. CASE GotHead(c)
  <2>1. a.by # "hash" /\ Waits(c, "version") /\ UNCHANGED <<leader, cut>> /\ target' = [target EXCEPT ![c] = head]
    BY <1>2, <1>6 DEF GotHead, CallerOK
  <2>2. Went(c, "version", "none", NoRuntime, startup, a, head) /\ head \in Blocks
    BY <1>1, <2>1, WaitsGoes DEF Went, Finds, CachesOK, CacheType
  <2>. QED BY <1>1, <2>1, <2>2, GoesKeeps DEF Places
<1>7. CASE VersionHeld(c)
  <2>. DEFINE b == target[c]
  <2>1. b \in Blocks /\ (a.by = "hash" => b = a.of) /\ UNCHANGED <<target, leader, cut>>
    BY <1>2, <1>7 DEF VersionHeld, CallerOK
  <2>2. PICK r \in Held(versions \cup fetched, Want(c)) : End(c, "ok", r)
    BY <1>7 DEF VersionHeld, Held
  <2>3. r \in Runtimes /\ r.version = VersionFor(b) /\ Version[r.of] = VersionFor(b)
    BY HeldTrue DEF Want
  <2>4. Went(c, "idle", "ok", r, IF c = Startup THEN "ok" ELSE startup, a, b)
    BY <1>1, <2>1, <2>2, EndGoes, AskKept DEF Went, Finds
  <2>. HIDE DEF b
  <2>. QED BY <1>1, <2>1, <2>3, <2>4, GoesKeeps DEF Places, Hows
<1>. QED BY <1>3, <1>4, <1>5, <1>6, <1>7

-----------------------------------------------------------------------------
(* Loads, and callers that end together.                                   *)

LEMMA MissedKeeps ==
  ASSUME CallersOK, NEW c \in Callers, VersionMissed(c)
  PROVE  CallersOK'
<1>. DEFINE v == Want(c)
            loading == {d \in leader : Want(d) = v}
<1>1. at[c] = "version" /\ UNCHANGED <<ask, target, cut>> /\ CallerOK(c)
  BY DEF VersionMissed, CallersOK
<1>2. CASE loading # {} /\ loading \subseteq cut
  <2>1. End(c, "cancelled", NoRuntime) /\ leader' = leader
    BY <1>2 DEF VersionMissed
  <2>2. Went(c, "idle", "cancelled", NoRuntime, IF c = Startup THEN "cancelled" ELSE startup, ask[c], target[c])
    BY <1>1, <2>1, EndGoes, AskKept DEF Went, Finds
  <2>3. ask[c] \in Asks \cup {AtStartup} /\ target[c] \in Blocks \cup {NoBlock}
    BY AskKept
  <2>. QED BY <1>1, <2>2, <2>3, GoesKeeps DEF Places, Hows
<1>3. ASSUME NEW place \in {"loading", "following"}, Waits(c, place),
             leader' = IF place = "loading" THEN leader \cup {c} ELSE leader,
             place = "loading" => loading = {},
             place = "following" => ~(loading \subseteq cut)
      PROVE  CallersOK'
  <2>1. /\ at \in [Callers -> Places]
        /\ got \in [Callers -> [how : {"none"} \cup Hows, runtime : Runtimes \cup {NoRuntime}]]
        /\ startup \in {"running"} \cup Hows /\ leader \subseteq Callers /\ cut \subseteq leader
        /\ ask \in [Callers -> Asks \cup {AtStartup}] /\ target \in [Callers -> Blocks \cup {NoBlock}]
    BY DEF CallersOK, CallerType
  <2>2. at' = [at EXCEPT ![c] = place] /\ got' = [got EXCEPT ![c] = Pending] /\ startup' = startup
    BY <1>3 DEF Waits
  <2>3. Pending \in [how : {"none"} \cup Hows, runtime : Runtimes \cup {NoRuntime}]
    BY DEF Pending
  <2>4. at' \in [Callers -> Places]
    BY <2>1, <2>2 DEF Places
  <2>5. got' \in [Callers -> [how : {"none"} \cup Hows, runtime : Runtimes \cup {NoRuntime}]]
    BY <2>1, <2>2, <2>3
  <2>6. CallerType'
    BY <1>1, <1>3, <2>1, <2>2, <2>4, <2>5 DEF CallerType
  <2>7. \A d \in Callers : CallerOK(d)'
    BY <1>1, <2>1, <2>2 DEF CallersOK, CallerOK
  <2>8. \A d \in Callers : Want(d)' = Want(d)
    BY <1>1 DEF Want
  <2>9. c \notin leader
    BY <1>1 DEF CallersOK, LoadsLed
  <2>10. LoadsLed'
    <3>1. leader' = {d \in Callers : at'[d] = "loading"}
      BY <1>1, <1>3, <2>1, <2>2 DEF CallersOK, LoadsLed
    <3>2. \A d \in Callers : at'[d] = "following" => \E e \in leader' \ cut' : Want(e)' = Want(d)'
      <4>1. ASSUME NEW d \in Callers, at'[d] = "following" PROVE \E e \in leader \ cut : Want(e) = Want(d)
        BY <1>3, <2>1, <2>2, <4>1 DEF CallersOK, LoadsLed
      <4>2. \A d \in leader : d # c \/ leader' = leader
        BY <2>9
      <4>. QED BY <1>1, <1>3, <2>1, <2>8, <2>9, <4>1
    <3>3. \A d, e \in leader' : Want(d)' = Want(e)' => d = e
      BY <1>3, <2>1, <2>8 DEF CallersOK, LoadsLed
    <3>. QED BY <3>1, <3>2, <3>3 DEF LoadsLed
  <2>11. StartupLed'
    BY <1>1, <2>1, <2>2 DEF CallersOK, StartupLed
  <2>. QED BY <2>6, <2>7, <2>10, <2>11 DEF CallersOK
<1>4. CASE loading = {}
  BY <1>3, <1>4 DEF VersionMissed
<1>5. CASE loading # {} /\ ~(loading \subseteq cut)
  BY <1>3, <1>5 DEF VersionMissed
<1>. QED BY <1>2, <1>4, <1>5

LEMMA GroupKeeps ==
  ASSUME CallersOK, NEW gone \in SUBSET Callers, NEW how \in [Callers -> Hows],
         NEW r \in Runtimes \cup {NoRuntime}, EndAll(gone, how, r), UNCHANGED <<ask, target>>,
         leader' = leader \ gone, cut' \subseteq leader',
         \A f \in Callers \ gone : at[f] = "following" => \E e \in leader' \ cut' : Want(e) = Want(f),
         \A d \in gone : how[d] = "ok" => /\ at[d] \in {"loading", "following"}
                                          /\ r.version = Want(d) /\ Version[r.of] = Want(d)
  PROVE  CallersOK'
<1>1. /\ at \in [Callers -> Places]
      /\ got \in [Callers -> [how : {"none"} \cup Hows, runtime : Runtimes \cup {NoRuntime}]]
      /\ startup \in {"running"} \cup Hows /\ leader \subseteq Callers
      /\ ask \in [Callers -> Asks \cup {AtStartup}] /\ target \in [Callers -> Blocks \cup {NoBlock}]
  BY DEF CallersOK, CallerType
<1>2. /\ at' = [c \in Callers |-> IF c \in gone THEN "idle" ELSE at[c]]
      /\ got' = [c \in Callers |-> IF c \in gone THEN [how |-> how[c], runtime |-> r] ELSE got[c]]
      /\ startup' = IF Startup \in gone THEN how[Startup] ELSE startup
  BY DEF EndAll
<1>3. Startup \in Callers
  BY DEF Callers
<1>4. CallerType'
  <2>1. \A c \in Callers : [how |-> how[c], runtime |-> r] \in [how : {"none"} \cup Hows, runtime : Runtimes \cup {NoRuntime}]
    OBVIOUS
  <2>2. got' \in [Callers -> [how : {"none"} \cup Hows, runtime : Runtimes \cup {NoRuntime}]]
    BY <1>1, <1>2, <2>1
  <2>3. at' \in [Callers -> Places] /\ startup' \in {"running"} \cup Hows
    BY <1>1, <1>2, <1>3 DEF Places
  <2>. QED BY <1>1, <2>2, <2>3 DEF CallerType
<1>5. \A d \in Callers : CallerOK(d)'
  <2>1. ASSUME NEW d \in gone PROVE CallerOK(d)'
    <3>1. at'[d] = "idle" /\ got'[d] = [how |-> how[d], runtime |-> r] /\ ask'[d] = ask[d] /\ target'[d] = target[d]
      BY <1>2
    <3>2. CallerOK(d)
      BY DEF CallersOK
    <3>. QED BY <3>1, <3>2 DEF CallerOK, Want
  <2>2. ASSUME NEW d \in Callers \ gone PROVE CallerOK(d)'
    <3>1. at'[d] = at[d] /\ got'[d] = got[d] /\ ask'[d] = ask[d] /\ target'[d] = target[d]
      BY <1>2
    <3>. QED BY <3>1 DEF CallersOK, CallerOK
  <2>. QED BY <2>1, <2>2
<1>6. \A d \in Callers : Want(d)' = Want(d)
  BY DEF Want
<1>7. LoadsLed'
  <2>1. leader' = {d \in Callers : at'[d] = "loading"}
    BY <1>2 DEF CallersOK, LoadsLed
  <2>2. \A d \in Callers : at'[d] = "following" => \E e \in leader' \ cut' : Want(e)' = Want(d)'
    BY <1>1, <1>2, <1>6
  <2>3. \A d, e \in leader' : Want(d)' = Want(e)' => d = e
    BY <1>1, <1>6 DEF CallersOK, LoadsLed
  <2>. QED BY <2>1, <2>2, <2>3 DEF LoadsLed
<1>8. StartupLed'
  BY <1>2, <1>3 DEF CallersOK, StartupLed, Hows
<1>. QED BY <1>4, <1>5, <1>7, <1>8 DEF CallersOK

\* Whoever shares a load with a caller that goes, goes too.
Closed(gone) == \A g \in gone : at[g] \in {"loading", "following"} => Followers(g) \subseteq gone

LEMMA WithClosed ==
  ASSUME CallersOK, NEW c \in Callers
  PROVE  With(c) \subseteq Callers /\ Closed(With(c))
BY DEF With, Closed, Followers, CallersOK, LoadsLed

LEMMA DropKeeps ==
  ASSUME CallersOK, NEW gone \in SUBSET Callers, Closed(gone), Drop(gone),
         NEW how \in [Callers -> {"error", "cancelled"}], EndAll(gone, how, NoRuntime), UNCHANGED <<ask, target>>
  PROVE  CallersOK'
<1>1. leader' = leader \ gone /\ cut' \subseteq leader'
  BY DEF Drop
<1>2. ASSUME NEW f \in Callers \ gone, at[f] = "following" PROVE \E e \in leader' \ cut' : Want(e) = Want(f)
  <2>1. PICK e \in leader \ cut : Want(e) = Want(f)
    BY <1>2 DEF CallersOK, LoadsLed
  <2>2. at[e] = "loading" /\ f \in Followers(e)
    BY <1>2, <2>1 DEF CallersOK, LoadsLed, Followers
  <2>3. e \notin gone
    BY <2>2 DEF Closed
  <2>4. \A g \in gone : at[g] = "following" => Want(g) # Want(e)
    BY <1>2, <2>1 DEF Closed, Followers
  <2>. QED BY <1>1, <2>1, <2>3, <2>4 DEF Drop
<1>3. how \in [Callers -> Hows] /\ \A d \in gone : how[d] # "ok"
  BY DEF Hows
<1>. QED BY <1>1, <1>2, <1>3, GroupKeeps

LEMMA FailsKeeps ==
  ASSUME CallersOK, NEW c \in Callers, Fails(c) \/ Cancel(c)
  PROVE  CallersOK'
<1>1. CASE Fails(c)
  <2>. DEFINE how == [d \in Callers |-> IF d = c THEN "error" ELSE "cancelled"]
  <2>1. how \in [Callers -> {"error", "cancelled"}]
    OBVIOUS
  <2>2. Drop(With(c)) /\ EndAll(With(c), how, NoRuntime) /\ UNCHANGED <<ask, target>>
    BY <1>1 DEF Fails
  <2>. HIDE DEF how
  <2>. QED BY <2>1, <2>2, WithClosed, DropKeeps
<1>2. CASE Cancel(c)
  <2>. DEFINE how == [d \in Callers |-> "cancelled"]
              gone == With(c) \cup IF at[c] = "startup" /\ startup = "running" THEN With(Startup) ELSE {}
  <2>1. how \in [Callers -> {"error", "cancelled"}]
    OBVIOUS
  <2>2. Drop(gone) /\ EndAll(gone, how, NoRuntime) /\ UNCHANGED <<ask, target>>
    BY <1>2 DEF Cancel
  <2>3. Startup \in Callers
    BY DEF Callers
  <2>4. gone \in SUBSET Callers /\ Closed(gone)
    <3>1. /\ With(c) \subseteq Callers /\ Closed(With(c))
          /\ With(Startup) \subseteq Callers /\ Closed(With(Startup))
      BY <2>3, WithClosed
    <3>. QED BY <3>1 DEF Closed
  <2>. HIDE DEF how, gone
  <2>. QED BY <2>1, <2>2, <2>4, DropKeeps
<1>. QED BY <1>1, <1>2

LEMMA LoadedKeeps ==
  ASSUME CallersOK, NEW c \in Callers, Loaded(c)
  PROVE  CallersOK'
<1>. DEFINE gone == {c} \cup Followers(c)
            how == [d \in Callers |-> IF c \in cut THEN "error" ELSE "ok"]
            built == [version |-> Want(c), of |-> Content(target[c])]
            r == IF c \in cut THEN NoRuntime ELSE built
<1>1. EndAll(gone, how, r) /\ UNCHANGED <<ask, target>> /\ leader' = leader \ {c} /\ cut' = cut \ {c}
  BY DEF Loaded
<1>2. at[c] = "loading" /\ c \in leader
  BY DEF Loaded, CallersOK, LoadsLed
<1>3. target[c] \in Blocks
  BY <1>2 DEF CallersOK, CallerOK
<1>4. built \in Runtimes /\ built.version = Want(c) /\ Version[built.of] = Want(c)
  BY <1>3, VersionForType DEF Runtimes, Want, Content, VersionFor
<1>5. gone \in SUBSET Callers /\ how \in [Callers -> Hows] /\ r \in Runtimes \cup {NoRuntime}
  BY <1>4 DEF Followers, Hows
<1>6. leader' = leader \ gone /\ cut' \subseteq leader'
  BY <1>1 DEF CallersOK, CallerType, LoadsLed, Followers
<1>7. \A f \in Callers \ gone : at[f] = "following" => \E e \in leader' \ cut' : Want(e) = Want(f)
  BY <1>1 DEF CallersOK, LoadsLed, Followers
<1>8. \A d \in gone : how[d] = "ok" => /\ at[d] \in {"loading", "following"}
                                       /\ r.version = Want(d) /\ Version[r.of] = Want(d)
  <2>1. \A d \in gone : at[d] \in {"loading", "following"} /\ Want(d) = Want(c) /\ d \in Callers
    BY <1>2 DEF Followers
  <2>2. \A d \in gone : how[d] = "ok" => r = built
    BY <2>1
  <2>. HIDE DEF built, gone, how, r
  <2>. QED BY <1>4, <2>1, <2>2
<1>. HIDE DEF gone, how, r
<1>. QED BY <1>1, <1>5, <1>6, <1>7, <1>8, GroupKeeps

LEMMA NextCallers ==
  ASSUME CachesOK, CallersOK, [Next]_vars
  PROVE  CallersOK'
<1>1. ASSUME UNCHANGED <<leader, cut, startup, at, ask, target, got>> PROVE CallersOK'
  BY <1>1 DEF CallersOK, CallerType, LoadsLed, StartupLed, CallerOK, Want
<1>2. ASSUME NEW c \in Callers, Calls(c) PROVE CallersOK'
  BY <1>2, CallKeeps DEF Calls
<1>3. ASSUME NEW c \in Callers, Proceeds(c) PROVE CallersOK'
  BY <1>3, ProceedKeeps, MissedKeeps, LoadedKeeps DEF Proceeds
<1>4. ASSUME NEW c \in Callers, Fails(c) \/ Cancel(c) PROVE CallersOK'
  BY <1>4, FailsKeeps
<1>5. \A c \in Callers : Numbered(c) => UNCHANGED <<leader, cut, startup, at, ask, target, got>>
  BY DEF Numbered
<1>6. \A b \in Blocks : NewHead(b) => UNCHANGED <<leader, cut, startup, at, ask, target, got>>
  BY DEF NewHead
<1>7. UNCHANGED vars => UNCHANGED <<leader, cut, startup, at, ask, target, got>>
  BY DEF vars
<1>. QED BY <1>1, <1>2, <1>3, <1>4, <1>5, <1>6, <1>7 DEF Next

-----------------------------------------------------------------------------
LEMMA InitInvariant == Init => IInv
<1>. SUFFICES ASSUME Init PROVE IInv
  OBVIOUS
<1>1. CachesOK
  BY RuntimeAssumption, VersionForType DEF Init, CachesOK, CacheType, CacheTrue
<1>2. CallerType
  BY DEF Init, CallerType, Pending, Places, Hows
<1>3. LoadsLed /\ StartupLed /\ \A c \in Callers : CallerOK(c)
  BY DEF Init, LoadsLed, StartupLed, CallerOK, Pending, Callers
<1>. QED BY <1>1, <1>2, <1>3 DEF IInv, CallersOK

LEMMA Inductive == IInv /\ [Next]_vars => IInv'
BY NextCaches, NextCallers DEF IInv

LEMMA Invariant == Spec => []IInv
BY InitInvariant, Inductive, PTL DEF Spec

\* The caches and the callers of init_runtime are always well formed, and only a
\* load under way can have a cancelled future.
THEOREM TypeCorrect == Spec => []TypeOK
<1>1. IInv => TypeOK
  BY Types DEF IInv, CachesOK, CallersOK
<1>. QED BY <1>1, Invariant, PTL

\* Whatever forks the node shows and whatever fails, RuntimeCache never says of a
\* block a number or a version that is not its own, and never holds a runtime under
\* a version its content does not have.
THEOREM CachesCorrect == Spec => []CacheTrue
<1>1. IInv => CacheTrue
  BY DEF IInv, CachesOK
<1>. QED BY <1>1, Invariant, PTL

\* init_runtime returns the runtime its block is decoded with, on every path: by
\* the cache, the table of known versions, a shared load or one of its own.
THEOREM RuntimeCorrect == Spec => []RuntimeFits
<1>1. IInv => RuntimeFits
  BY DEF IInv, CallersOK, CallerOK, RuntimeFits
<1>. QED BY <1>1, Invariant, PTL

\* A call that waits for another's load waits for one that is under way and whose
\* future is not cancelled; so cancellations never leave a follower behind.
THEOREM NobodyStranded == Spec => []Led
<1>1. IInv => Led
  BY DEF IInv, CallersOK, LoadsLed, StartupLed, Led
<1>. QED BY <1>1, Invariant, PTL
=============================================================================
