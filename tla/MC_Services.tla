---------------------------- MODULE MC_Services -----------------------------
EXTENDS Services, TLC

CONSTANTS base, mid, top, jp, jt, r1, r2, p1, p2, m, c1, v1, v2, a1, a2, u1, u2, s1, s2, empty,
          x1, x2, x3, m1, m2

\* A project whose parent has a parent; the snapshot of the first vendors both.
Tree == (base :> {} @@ mid :> {base} @@ top :> {mid, base})
ParentsOf == (base :> {} @@ mid :> {base} @@ top :> {mid})
Targets == (jp :> mid @@ jt :> top)

\* One model to adopt, one category that both parents have.
Home == (m :> p1)
Shared == (p1 :> {c1} @@ p2 :> {c1})

\* One project that links one of two sets of versions; room for one index.
Sets == {{v1}, {v1, v2}}

\* An editor with up to three tabs, one of them without an id, a cap of two, and
\* one who looks on.
OpenTabs == (u1 :> {s1, s2, empty} @@ u2 :> {s1})

\* Three saves, two of them of one pattern, and two connections.
Saved == (x1 :> m1 @@ x2 :> m2 @@ x3 :> m1)

ASSUME ServicesAssumption

\* The i-th request of the service at work has begun and not ended.
UnderWay(i) ==
    \/ part = "adoption" /\ i < 3 /\ req[<<r1, r2>>[i]].pc # "idle"
    \/ part = "restore" /\ i < 3 /\ run[<<r1, r2>>[i]].pc # "idle"
    \/ part = "index" /\ i < 3 /\ ask[<<a1, a2>>[i]].pc # "idle"
    \/ part = "pool" /\ save[<<x1, x2, x3>>[i]].pc \notin {"idle", "busy", "cut", "done"}

\* Every call ends.  Requests that adopt, also one that waits for the rows of
\* another; restores, whose locks are taken in an order and given back, without a
\* timeout; requests that join the build of an index with the one that builds; and
\* saves, also when all connections are held by saves that want one more.
EveryCallEnds == \A i \in 1..3 : UnderWay(i) ~> ~UnderWay(i)
=============================================================================
