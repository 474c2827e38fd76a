---------------------------- MODULE AdvisoryLock ----------------------------
(***************************************************************************)
(* Session-level Postgres advisory locks as pkg/database/advisorylock uses *)
(* them: one lock table keyed by the string the program hashes, two modes, *)
(* and a queue per key.  Postgres itself is external; what is modelled is  *)
(* the behaviour the Go code relies on and documents:                      *)
(*   - SHARED holders coexist, EXCLUSIVE excludes every other session;     *)
(*   - a request that arrives behind a conflicting waiter waits too, even  *)
(*     when it would be compatible with the present holders;               *)
(*   - a wait ends by a grant or by lock_timeout, never by both;           *)
(*   - the end of a session drops everything it holds or waits for.        *)
(*                                                                         *)
(* The module has no Next of its own: its operations are conjoined with    *)
(* the steps of the programs that call them (SaveRestore).                 *)
(***************************************************************************)
EXTENDS Naturals, Sequences

CONSTANTS
    Key,        \* what is locked: projects and entities
    Session     \* database sessions, one per process that locks

VARIABLES
    holds,      \* holds[k]: the requests granted on key k
    waits       \* waits[k]: the queue of requests not granted yet

Mode == {"shared", "exclusive"}

Request == [session : Session, mode : Mode]

LockTypeOK ==
    /\ holds \in [Key -> SUBSET Request]
    /\ waits \in [Key -> Seq(Request)]

LockInit ==
    /\ holds = [k \in Key |-> {}]
    /\ waits = [k \in Key |-> << >>]

Conflicts(m, n) == m = "exclusive" \/ n = "exclusive"

\* No other session holds k in a conflicting mode.
Compatible(k, r) ==
    \A h \in holds[k] : h.session # r.session => ~Conflicts(h.mode, r.mode)

Drop(q, i) == SubSeq(q, 1, i - 1) \o SubSeq(q, i + 1, Len(q))

Holds(s, k, m) == [session |-> s, mode |-> m] \in holds[k]

IsWaiting(s, k) == \E i \in DOMAIN waits[k] : waits[k][i].session = s

\* pg_advisory_lock(_shared): granted at once when nothing conflicts with it,
\* neither a holder nor a request queued before it; queued otherwise.
Acquire(s, k, m) ==
    LET r == [session |-> s, mode |-> m]
        free == /\ Compatible(k, r)
                /\ \A i \in DOMAIN waits[k] : ~Conflicts(waits[k][i].mode, m)
    IN \/ /\ free
          /\ holds' = [holds EXCEPT ![k] = @ \cup {r}]
          /\ UNCHANGED waits
       \/ /\ ~free
          /\ waits' = [waits EXCEPT ![k] = Append(@, r)]
          /\ UNCHANGED holds

\* Postgres wakes the i-th waiter: it conflicts with no holder and with no
\* request still queued before it.
GrantAt(k, i) ==
    /\ i \in DOMAIN waits[k]
    /\ Compatible(k, waits[k][i])
    /\ \A j \in 1 .. (i - 1) : ~Conflicts(waits[k][j].mode, waits[k][i].mode)
    /\ holds' = [holds EXCEPT ![k] = @ \cup {waits[k][i]}]
    /\ waits' = [waits EXCEPT ![k] = Drop(@, i)]

Grant(k) == \E i \in DOMAIN waits[k] : GrantAt(k, i)

\* lock_timeout fires (SQLSTATE 55P03): the request leaves the queue.
GiveUp(s, k) ==
    /\ \E i \in DOMAIN waits[k] :
          /\ waits[k][i].session = s
          /\ waits' = [waits EXCEPT ![k] = Drop(@, i)]
    /\ UNCHANGED holds

\* pg_advisory_unlock(_shared) on a lock the session holds.
Unlock(s, k, m) ==
    /\ holds' = [holds EXCEPT ![k] = @ \ {[session |-> s, mode |-> m]}]
    /\ UNCHANGED waits

\* The connection is closed, on purpose (a failed unlock must not return a
\* locked connection to the pool) or by a crash: the session ends.
Disconnect(s) ==
    /\ holds' = [k \in Key |-> {h \in holds[k] : h.session # s}]
    /\ waits' = [k \in Key |->
                    IF IsWaiting(s, k)
                    THEN Drop(waits[k],
                              CHOOSE i \in DOMAIN waits[k] : waits[k][i].session = s)
                    ELSE waits[k]]

-----------------------------------------------------------------------------
\* What the lock promises to the code that takes it: whoever holds a key
\* EXCLUSIVE is its only holder (advisorylock.Shared and .Exclusive).
LockExclusion ==
    \A k \in Key : \A g, h \in holds[k] :
        g.session # h.session => ~Conflicts(g.mode, h.mode)
=============================================================================
