----------------------------- MODULE IndexCache ------------------------------
(***************************************************************************)
(* The cache of autocomplete indexes (pkg/weave/ontology/autocomplete/      *)
(* cache.go).  A request resolves its project to a set of ontology versions, *)
(* the key; a missing index is built by one request per key, others join it. *)
(* The builder reads classes, properties and relations in three queries     *)
(* while imports commit.  An import commits, then publishes an event        *)
(* (ontology/service.go, eventbus_simple.go) that drops the indexes of its   *)
(* version and moves the epoch on; a build that began under another epoch   *)
(* is not cached.                                                          *)
(*                                                                         *)
(* Left out: entries of releases, which nothing makes yet; requests that    *)
(* name a version; the defaults ontology, one more version of every key.    *)
(***************************************************************************)
EXTENDS Naturals, FiniteSets, Sequences

CONSTANTS
    Versions,
    Projects,
    Links,          \* the sets of versions a project may link
    Askers,         \* requests under way
    SoftCap,
    MaxAsks, MaxChanges,    \* bounds: requests; imports, links, drops, failures and timeouts
    None

IndexCacheAssumption == Links \subseteq SUBSET Versions /\ SoftCap \in Nat

VARIABLES
    content,        \* imports committed, per version
    heard,          \* the latest of them that the cache was told of
    links,          \* the versions of each project
    bus,            \* events whose change is committed and that are yet to be published
    entries,        \* the cache: per key an index, who resolved to it, is it past its time?
    older,          \* per cached key, the cached keys last used before it
    epoch,
    leader,         \* singleflight: who builds a key
    ask,
    asked, changes

vars == <<content, heard, links, bus, entries, older, epoch, leader, ask, asked, changes>>
cache == <<entries, older, epoch, leader>>
database == <<content, heard, links, bus>>
bounds == <<asked, changes>>

Keys == Links
NoEntry == [index |-> <<>>, by |-> {}, old |-> FALSE]
Idle == [pc |-> "idle", project |-> None, key |-> {}, epoch |-> 0, began |-> [v \in Versions |-> 0],
         index |-> <<>>, joined |-> FALSE]

Init ==
    /\ content = [v \in Versions |-> 0] /\ heard = content
    /\ links \in [Projects -> Links]
    /\ bus = {}
    /\ entries = [k \in Keys |-> NoEntry]
    /\ older = [k \in Keys |-> {}]
    /\ epoch = 0
    /\ leader = [k \in Keys |-> None]
    /\ ask = [a \in Askers |-> Idle]
    /\ asked = 0 /\ changes = 0

Cached(k) == entries[k].index # <<>>
CachedKeys == {k \in Keys : Cached(k)}
Forget(ks) ==
    /\ entries' = [k \in Keys |-> IF k \in ks THEN NoEntry ELSE entries[k]]
    /\ older' = [k \in Keys |-> IF k \in ks THEN {} ELSE older[k] \ ks]

\* lastAccess of k is now.
Touched(k) == [x \in Keys |-> IF x = k THEN CachedKeys \ {k} ELSE older[x] \ {k}]

-----------------------------------------------------------------------------
(* A request.                                                              *)

\* resolve
Ask(a, p) ==
    /\ ask[a].pc = "idle"
    /\ asked < MaxAsks
    /\ asked' = asked + 1
    /\ ask' = [ask EXCEPT ![a] = [Idle EXCEPT !.pc = "warm", !.project = p, !.key = links[p], !.began = heard]]
    /\ UNCHANGED <<database, cache, changes>>

\* warm: an index past its time is dropped.
Warm(a) ==
    /\ ask[a].pc \in {"warm", "warmAgain"}
    /\ LET k == ask[a].key IN
         IF Cached(k) /\ ~entries[k].old
         THEN /\ entries' = [entries EXCEPT ![k].by = @ \cup {ask[a].project}]
              /\ older' = Touched(k)
              /\ ask' = [ask EXCEPT ![a].index = entries[k].index,
                                    ![a].pc = IF @ = "warm" THEN "idle" ELSE "finish"]
         ELSE /\ Forget({k})
              /\ ask' = [ask EXCEPT ![a].pc = IF @ = "warm" THEN "epoch" ELSE "build"]
    /\ UNCHANGED <<database, epoch, leader, bounds>>

ReadEpoch(a) ==
    /\ ask[a].pc = "epoch"
    /\ ask' = [ask EXCEPT ![a].pc = "fly", ![a].epoch = epoch]
    /\ UNCHANGED <<database, cache, bounds>>

\* singleflight's Do
Fly(a) ==
    /\ ask[a].pc = "fly"
    /\ LET k == ask[a].key IN
         IF leader[k] = None
         THEN leader' = [leader EXCEPT ![k] = a] /\ ask' = [ask EXCEPT ![a].pc = "warmAgain"]
         ELSE ask' = [ask EXCEPT ![a].pc = "wait", ![a].joined = TRUE] /\ UNCHANGED leader
    /\ UNCHANGED <<database, entries, older, epoch, bounds>>

\* buildIndex: classes, properties, relations
Build(a) ==
    /\ ask[a].pc = "build"
    /\ ask' = [ask EXCEPT ![a].index = Append(@, content), ![a].pc = IF Len(ask[a].index) = 2 THEN "put" ELSE @]
    /\ UNCHANGED <<database, cache, bounds>>

NewEntry(a) == [index |-> ask[a].index, by |-> {ask[a].project}, old |-> FALSE]
Insert(a) ==
    LET k == ask[a].key
        cached == CachedKeys \cup {k}
    IN  \E out \in SUBSET cached :
          /\ IF Cardinality(cached) <= SoftCap THEN out = {}
             ELSE \E x \in cached : Touched(k)[x] = {} /\ out = {x}
          /\ entries' = [x \in Keys |-> IF x \in out THEN NoEntry
                                        ELSE IF x = k THEN NewEntry(a) ELSE entries[x]]
          /\ older' = [x \in Keys |-> IF x \in out THEN {} ELSE Touched(k)[x] \ out]

PutFault(a) ==          \* whatever the epoch
    /\ ask[a].pc = "put"
    /\ Insert(a)
    /\ ask' = [ask EXCEPT ![a].pc = "finish"]
    /\ UNCHANGED <<database, epoch, leader, bounds>>

PutAllFault(a) ==       \* nothing is evicted
    /\ ask[a].pc = "put"
    /\ entries' = [entries EXCEPT ![ask[a].key] = NewEntry(a)]
    /\ older' = Touched(ask[a].key)
    /\ ask' = [ask EXCEPT ![a].pc = "finish"]
    /\ UNCHANGED <<database, epoch, leader, bounds>>

\* put, evictLocked
Put(a) ==
    /\ ask[a].pc = "put"
    /\ IF epoch = ask[a].epoch THEN Insert(a) ELSE UNCHANGED <<entries, older>>
    /\ ask' = [ask EXCEPT ![a].pc = "finish"]
    /\ UNCHANGED <<database, epoch, leader, bounds>>

FlightOf(a) == {b \in Askers : ask[b].pc = "wait" /\ ask[b].key = ask[a].key} \cup {a}

\* The build is over for all who joined it.
Finish(a) ==
    /\ ask[a].pc = "finish"
    /\ leader' = [leader EXCEPT ![ask[a].key] = None]
    /\ ask' = [b \in Askers |-> IF b \in FlightOf(a) THEN [ask[b] EXCEPT !.pc = "idle", !.index = ask[a].index]
                                ELSE ask[b]]
    /\ UNCHANGED <<database, entries, older, epoch, bounds>>

\* A query fails or the context of the builder ends: an error for all.
BuildFails(a) ==
    /\ ask[a].pc = "build"
    /\ changes < MaxChanges
    /\ changes' = changes + 1
    /\ leader' = [leader EXCEPT ![ask[a].key] = None]
    /\ ask' = [b \in Askers |-> IF b \in FlightOf(a) THEN [ask[b] EXCEPT !.pc = "idle", !.index = <<>>]
                                ELSE ask[b]]
    /\ UNCHANGED <<database, entries, older, epoch, asked>>

-----------------------------------------------------------------------------
(* Changes.                                                                *)

\* ImportVersion: the transaction, and the event after it.
Import(v) ==
    /\ changes < MaxChanges
    /\ changes' = changes + 1
    /\ content' = [content EXCEPT ![v] = @ + 1]
    /\ bus' = bus \cup {[version |-> v, n |-> content[v] + 1]}
    /\ UNCHANGED <<heard, links, cache, ask, asked>>

\* By the command line, which is another process: no event.
ImportElsewhere(v) ==
    /\ changes < MaxChanges
    /\ changes' = changes + 1
    /\ content' = [content EXCEPT ![v] = @ + 1]
    /\ UNCHANGED <<heard, links, bus, cache, ask, asked>>

PublishedFault(e) ==    \* only the index of this version alone is dropped
    /\ e \in bus /\ "version" \in DOMAIN e
    /\ bus' = bus \ {e}
    /\ epoch' = epoch + 1
    /\ Forget({{e.version}})
    /\ heard' = [heard EXCEPT ![e.version] = IF @ > e.n THEN @ ELSE e.n]
    /\ UNCHANGED <<content, links, leader, ask, bounds>>

\* InvalidateForVersion
Published(e) ==
    /\ e \in bus /\ "version" \in DOMAIN e
    /\ bus' = bus \ {e}
    /\ epoch' = epoch + 1
    /\ Forget({k \in Keys : e.version \in k})
    /\ heard' = [heard EXCEPT ![e.version] = IF @ > e.n THEN @ ELSE e.n]
    /\ UNCHANGED <<content, links, leader, ask, bounds>>

\* A project links other versions (projectontologyversion/service.go).
Relink(p, l) ==
    /\ changes < MaxChanges
    /\ changes' = changes + 1
    /\ l # links[p]
    /\ links' = [links EXCEPT ![p] = l]
    /\ bus' = bus \cup {[project |-> p]}
    /\ UNCHANGED <<content, heard, cache, ask, asked>>

\* InvalidateForProject
PublishedLinks(e) ==
    /\ e \in bus /\ "project" \in DOMAIN e
    /\ bus' = bus \ {e}
    /\ epoch' = epoch + 1
    /\ Forget({k \in Keys : e.project \in entries[k].by})
    /\ UNCHANGED <<content, heard, links, leader, ask, bounds>>

Drop ==
    /\ changes < MaxChanges
    /\ changes' = changes + 1
    /\ epoch' = epoch + 1
    /\ Forget(Keys)
    /\ UNCHANGED <<database, leader, ask, asked>>

\* Ten minutes after its build.
Expire(k) ==
    /\ Cached(k) /\ ~entries[k].old
    /\ changes < MaxChanges
    /\ changes' = changes + 1
    /\ entries' = [entries EXCEPT ![k].old = TRUE]
    /\ UNCHANGED <<database, older, epoch, leader, ask, asked>>

-----------------------------------------------------------------------------
Step(a) == Warm(a) \/ ReadEpoch(a) \/ Fly(a) \/ Build(a) \/ Put(a) \/ Finish(a)

Next ==
    \/ \E a \in Askers : (\E p \in Projects : Ask(a, p)) \/ Step(a) \/ BuildFails(a)
    \/ \E v \in Versions : Import(v) \/ ImportElsewhere(v)
    \/ \E e \in bus : Published(e) \/ PublishedLinks(e)
    \/ \E p \in Projects, l \in Links : Relink(p, l)
    \/ Drop \/ \E k \in Keys : Expire(k)

\* Statements and channels answer, and goroutines are scheduled.
Fairness == \A a \in Askers : WF_vars(Step(a))

Spec == Init /\ [][Next]_vars /\ Fairness

-----------------------------------------------------------------------------
TypeOK ==
    /\ content \in [Versions -> 0..MaxChanges] /\ heard \in [Versions -> 0..MaxChanges]
    /\ \A k \in Keys : entries[k].by \subseteq Projects /\ Len(entries[k].index) \in {0, 3}
    /\ older \in [Keys -> SUBSET CachedKeys]
    /\ \A j, k \in CachedKeys : k \notin older[k] /\ (j = k \/ (j \in older[k] <=> k \notin older[j]))
    /\ leader \in [Keys -> Askers \cup {None}]
    /\ \A a \in Askers : ask[a].pc \in {"idle", "warm", "epoch", "fly", "warmAgain", "build", "put", "finish", "wait"}
    /\ \A k \in Keys : leader[k] # None <=>
         \E a \in Askers : ask[a].key = k /\ ask[a].pc \in {"warmAgain", "build", "put", "finish"}

AtLeast(index, k, low) == \A i \in DOMAIN index, v \in k : index[i][v] >= low[v]

\* No index stays in the cache, or gets there, that has rows older than an import
\* the cache was told of, in any of its three parts.
NoStaleEntry == \A k \in Keys : Cached(k) => AtLeast(entries[k].index, k, heard)

\* The cache never holds more than its cap.
CapKept == Cardinality(CachedKeys) <= SoftCap

\* A request that starts after an import was published never sees what was there
\* before, unless it joins a build that is under way.
AnswersAreFresh ==
    \A a \in Askers : ask[a].pc = "idle" /\ ~ask[a].joined => AtLeast(ask[a].index, ask[a].key, ask[a].began)

\* Every request is answered, those who join a build with it.
Answered == \A a \in Askers : ask[a].pc # "idle" ~> ask[a].pc = "idle"
=============================================================================
