----------------------------- MODULE QueryMap -----------------------------
(***************************************************************************)
(* query_map and AsyncQueryMapResult: the entries of a storage map, page   *)
(* by page as they are iterated over, or all at once in batches of one     *)
(* frame (RequestManager).  Keys and values are separate requests, and the *)
(* map may change between any two of them; a query with a block hash reads *)
(* the state of that block all along.                                      *)
(*                                                                         *)
(* Keys are numbered in the node's order, that of the hashed storage keys. *)
(* Decoding is left out, but for a value that is no longer there.          *)
(***************************************************************************)
EXTENDS Naturals, Sequences, FiniteSets

CONSTANTS
  Keys,        \* keys the map may have
  Queries,     \* arguments of query_map and whether the node serves state_getPairs
  MaxChanges   \* bound: changes of the map

Unlimited == Cardinality(Keys) + 1  \* max_results=None
Prefix == 0                         \* start_key of the first page, before every key

ASSUME QueryMapAssumption ==
  /\ IsFiniteSet(Keys) /\ Keys \subseteq Nat \ {0}
  /\ Queries \subseteq [page : Nat \ {0}, max : 1 .. Unlimited, pinned : BOOLEAN,
                        exhaust : BOOLEAN, pairs : BOOLEAN]
  /\ MaxChanges \in Nat

VARIABLES
  map,       \* keys of the map at the head of the chain
  base,      \* and at the block of a pinned query
  kept,      \* keys that have been there since the query began
  changes,   \* how often the map has changed
  query,     \* the arguments
  at,        \* where the caller is
  opened,    \* it has an AsyncQueryMapResult
  asked,     \* result_keys of the request for values
  answered,  \* batches that have a response
  joined,    \* their entries, in the order in which the responses came
  records, buffer, last, complete,  \* records, _buffer, last_key, loading_complete
  taken      \* the entries it has been given, _records_returned of them

resultVars == <<opened, records, buffer, last, complete, taken>>
requestVars == <<asked, answered, joined>>
mapVars == <<map, base, kept, changes>>
vars == <<mapVars, query, at, requestVars, resultVars>>

Init ==
  /\ map \in SUBSET Keys /\ base = map /\ kept = map
  /\ changes = 0
  /\ query \in Queries
  /\ at = "start"
  /\ opened = FALSE
  /\ asked = <<>> /\ answered = {} /\ joined = <<>>
  /\ records = <<>> /\ buffer = <<>> /\ last = Prefix /\ complete = FALSE
  /\ taken = <<>>

-----------------------------------------------------------------------------
Smaller(m, n) == IF m < n THEN m ELSE n
Sorted(S) == [i \in 1 .. Cardinality(S) |-> CHOOSE k \in S : Cardinality({j \in S : j < k}) = i - 1]
AtMost(s, n) == SubSeq(s, 1, Smaller(n, Len(s)))

PageSize == Smaller(query.page, query.max)
Exhausts == query.exhaust /\ ~opened

\* The state a request reads.
Seen == IF query.pinned THEN base ELSE map

\* MUTANT: values are asked for without the block hash.
Entry_AtHead(k) == [key |-> k, there |-> k \in map]

\* An entry as state_queryStorageAt tells it: with no value when the key is gone.
Entry(k) == [key |-> k, there |-> k \in Seen]
Entries(keys) == [i \in DOMAIN keys |-> Entry(keys[i])]

\* process_batch: the values of each PageSize keys.
Batches == (Len(asked) + PageSize - 1) \div PageSize
Batch(n) == SubSeq(asked, (n - 1) * PageSize + 1, Smaller(n * PageSize, Len(asked)))

\* MUTANT: the result keeps the key it was opened with.
LastKey_Kept(keys) == IF opened THEN last ELSE IF keys = <<>> THEN Prefix ELSE keys[Len(keys)]

\* The key the next page starts after.
LastKey(keys) == IF keys = <<>> THEN Prefix ELSE keys[Len(keys)]

\* MUTANT: a full page is the last one as well.
EndsLoading_Full(entries) == Len(entries) <= PageSize

\* A page that is not full is the last one.
EndsLoading(entries) == Len(entries) < PageSize

\* query_map returns: the result of the first call; of a later one (retrieve_next_page)
\* __anext__ takes the first entry, or stops.
Page(entries, keys) ==
  /\ opened' = TRUE
  /\ last' = LastKey(keys)
  /\ records' = records \o entries
  /\ complete' = (opened /\ EndsLoading(entries))
  /\ IF opened /\ entries # <<>>
     THEN taken' = Append(taken, Head(entries)) /\ buffer' = Tail(entries)
     ELSE UNCHANGED taken /\ buffer' = entries
  /\ at' = IF opened /\ entries = <<>> THEN "stopped" ELSE "open"
  /\ asked' = <<>> /\ answered' = {} /\ joined' = <<>>

-----------------------------------------------------------------------------
\* Everything up to the first request, the one for the runtime included.
Start ==
  /\ at = "start"
  /\ at' = IF query.exhaust /\ query.max = Unlimited THEN "pairs" ELSE "keys"
  /\ kept' = Seen
  /\ UNCHANGED <<map, base, changes, query, requestVars, resultVars>>

\* state_getPairs, the whole map in one response, where the node serves it.
GotPairs ==
  /\ at = "pairs" /\ query.pairs
  /\ Page(Entries(Sorted(Seen)), Sorted(Seen))
  /\ UNCHANGED <<mapVars, query>>

NoPairs ==
  /\ at = "pairs" /\ ~query.pairs
  /\ at' = "keys"
  /\ UNCHANGED <<mapVars, query, requestVars, resultVars>>

\* state_getKeys, or state_getKeysPaged: PageSize keys after the last one.
KeysFound ==
  LET all == Sorted({k \in Seen : Exhausts \/ k > last})
  IN  AtMost(IF Exhausts THEN all ELSE AtMost(all, PageSize), query.max)

GotKeys ==
  /\ at = "keys"
  /\ IF KeysFound = <<>> THEN Page(<<>>, <<>>)
     ELSE /\ asked' = KeysFound
          /\ at' = IF Exhausts THEN "batches" ELSE "values"
          /\ UNCHANGED <<answered, joined, resultVars>>
  /\ UNCHANGED <<mapVars, query>>

GotValues ==
  /\ at = "values"
  /\ Page(Entries(asked), asked)
  /\ UNCHANGED <<mapVars, query>>

\* add_response for one of the batches; get_results when all have one.
GotBatch(n) ==
  LET now == joined \o Entries(Batch(n)) IN
  /\ at = "batches" /\ n \notin answered
  /\ IF answered \cup {n} = 1 .. Batches
     THEN Page(now, asked)
     ELSE /\ answered' = answered \cup {n}
          /\ joined' = now
          /\ UNCHANGED <<at, asked, resultVars>>
  /\ UNCHANGED <<mapVars, query>>

\* A request of the query fails.  What has been opened can be iterated over again.
Fails ==
  /\ at \in {"pairs", "keys", "values", "batches"}
  /\ at' = IF opened THEN "open" ELSE "start"
  /\ asked' = <<>> /\ answered' = {} /\ joined' = <<>>
  /\ UNCHANGED <<mapVars, query, resultVars>>

\* MUTANT: one entry more is given.
Enough_Over == Len(taken) > query.max

\* get_next_record: max_results entries have been given.
Enough == Len(taken) >= query.max

\* __anext__ with an entry left, with none left and nothing more to load, and with
\* another page to ask for.
TakeNext ==
  /\ at = "open" /\ ~Enough /\ buffer # <<>>
  /\ taken' = Append(taken, Head(buffer))
  /\ buffer' = Tail(buffer)
  /\ UNCHANGED <<mapVars, query, at, requestVars, opened, records, last, complete>>

Stop ==
  /\ at = "open"
  /\ Enough \/ (buffer = <<>> /\ complete)
  /\ complete' = TRUE
  /\ at' = "stopped"
  /\ UNCHANGED <<mapVars, query, requestVars, opened, records, buffer, last, taken>>

NextPage ==
  /\ at = "open" /\ ~Enough /\ buffer = <<>> /\ ~complete
  /\ at' = "keys"
  /\ UNCHANGED <<mapVars, query, requestVars, resultVars>>

\* An entry is inserted or removed.
Change(k) ==
  /\ changes < MaxChanges /\ at # "stopped"
  /\ changes' = changes + 1
  /\ map' = (map \cup {k}) \ (map \cap {k})
  /\ kept' = IF query.pinned THEN kept ELSE kept \ {k}
  /\ UNCHANGED <<base, query, at, requestVars, resultVars>>

Next ==
  \/ Start \/ GotPairs \/ NoPairs \/ GotKeys \/ GotValues
  \/ \E n \in 1 .. Batches : GotBatch(n)
  \/ Fails \/ TakeNext \/ Stop \/ NextPage
  \/ \E k \in Keys : Change(k)

Spec == Init /\ [][Next]_vars

-----------------------------------------------------------------------------
AnEntry == [key : Keys, there : BOOLEAN]

TypeOK ==
  /\ map \subseteq Keys /\ base \subseteq Keys /\ kept \subseteq Keys
  /\ changes \in 0 .. MaxChanges
  /\ query \in Queries
  /\ at \in {"start", "pairs", "keys", "values", "batches", "open", "stopped"}
  /\ opened \in BOOLEAN /\ complete \in BOOLEAN
  /\ asked \in Seq(Keys)
  /\ answered \subseteq 1 .. Batches /\ joined \in Seq(AnEntry)
  /\ records \in Seq(AnEntry) /\ buffer \in Seq(AnEntry)
  /\ last \in Keys \cup {Prefix}
  /\ taken \in Seq(AnEntry) /\ Len(taken) <= query.max

KeysOf(entries) == {entries[i].key : i \in DOMAIN entries}

\* Nothing is given twice, however pages and batches arrive, whatever changes
\* between them and however often a request fails and the iteration goes on.
Once == \A i, j \in DOMAIN taken : taken[i].key = taken[j].key => i = j

\* An iteration that stops has given every entry that was in the map all the time,
\* unless it was given max_results others.
Whole == at = "stopped" => kept \subseteq KeysOf(taken) \/ Len(taken) = query.max

\* With a block hash what is given are entries of that block, with their values.
OfTheBlock ==
  query.pinned => \A i \in DOMAIN taken : taken[i].there /\ taken[i].key \in base
=============================================================================
