------------------------------ MODULE SavePool ------------------------------
(***************************************************************************)
(* The connections that saves take from the pool of the process.  A save    *)
(* holds one for its advisory locks while it runs (WithAdvisoryLock,        *)
(* pkg/weave/override/store_postgres.go) and asks for another for each of   *)
(* its transactions.  The pool has a size (pkg/app/cliruntime/db.go: at     *)
(* least 16 unless the connection string says otherwise), the number of     *)
(* saves has none.  A request is cut off after a minute (pkg/app/root.go).  *)
(*                                                                         *)
(* Here the locks of a pattern only; SaveRestore has all of them, and       *)
(* connections that are always there.                                      *)
(***************************************************************************)
EXTENDS Naturals, FiniteSets

CONSTANTS
    Saves,
    PatternOf,      \* of each save
    PoolSize,
    Transactions    \* of one save: rows, references of each row, the change log

SavePoolAssumption == PoolSize \in Nat /\ Transactions \in Nat \ {0}

VARIABLES
    free,           \* connections in the pool
    save

vars == <<free, save>>

Holding == {"lock", "begin", "commit"}
Holders(pattern) == {s \in Saves : PatternOf[s] = pattern /\ save[s].pc \in {"begin", "commit"}}
Goto(s, pc) == save' = [save EXCEPT ![s].pc = pc]

Init ==
    /\ free = PoolSize
    /\ save = [s \in Saves |-> [pc |-> "idle", left |-> Transactions]]

Arrive(s) == save[s].pc = "idle" /\ Goto(s, "connect") /\ UNCHANGED free

\* The connection of the locks.
Connect(s) ==
    /\ save[s].pc = "connect" /\ free > 0
    /\ free' = free - 1
    /\ Goto(s, "lock")

Lock(s) ==
    /\ save[s].pc = "lock" /\ Holders(PatternOf[s]) = {}
    /\ Goto(s, "begin")
    /\ UNCHANGED free

LockBusyFault(s) ==     \* the connection is not given back
    /\ save[s].pc = "lock" /\ Holders(PatternOf[s]) # {}
    /\ Goto(s, "busy")
    /\ UNCHANGED free

\* lock_timeout: ErrLockBusy
LockBusy(s) ==
    /\ save[s].pc = "lock" /\ Holders(PatternOf[s]) # {}
    /\ free' = free + 1
    /\ Goto(s, "busy")

\* pool.Begin of one transaction
Begin(s) ==
    /\ save[s].pc = "begin" /\ free > 0
    /\ free' = free - 1
    /\ Goto(s, "commit")

Commit(s) ==
    /\ save[s].pc = "commit"
    /\ save' = [save EXCEPT ![s].left = @ - 1, ![s].pc = IF save[s].left = 1 THEN "done" ELSE "begin"]
    /\ free' = free + (IF save[s].left = 1 THEN 2 ELSE 1)

\* The minute is over for a request that waits for a connection.
Timeout(s) ==
    /\ save[s].pc \in {"connect", "begin"} /\ free = 0
    /\ free' = IF save[s].pc = "begin" THEN free + 1 ELSE free
    /\ Goto(s, "cut")

Step(s) == Connect(s) \/ Lock(s) \/ LockBusy(s) \/ Begin(s) \/ Commit(s)

Next == \E s \in Saves : Arrive(s) \/ Step(s) \/ Timeout(s)

\* The clock does not wait for the pool: whoever waits long enough is cut off.
Fairness == \A s \in Saves : WF_vars(Step(s)) /\ WF_vars(Timeout(s))

Spec == Init /\ [][Next]_vars /\ Fairness

-----------------------------------------------------------------------------
TypeOK ==
    /\ free \in 0..PoolSize
    /\ \A s \in Saves : save[s].pc \in {"idle", "connect", "lock", "begin", "commit", "busy", "cut", "done"}
                        /\ save[s].left \in 0..Transactions

\* Every connection that is not in the pool belongs to a save that will give it
\* back, on every way a save can end.
NoConnectionLeaks ==
    free + Cardinality({s \in Saves : save[s].pc \in Holding})
         + Cardinality({s \in Saves : save[s].pc = "commit"}) = PoolSize

\* Saves that have all connections between them, and each wants one more, do not
\* stay like that: every save ends.
SavesEnd == \A s \in Saves : save[s].pc = "connect" ~> save[s].pc \in {"busy", "cut", "done"}

=============================================================================
