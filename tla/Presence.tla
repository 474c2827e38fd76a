------------------------------ MODULE Presence ------------------------------
(***************************************************************************)
(* Who else edits this pattern?  pkg/weave/override/presence.go, served by  *)
(* pkg/weave/project/presence_handler.go.  Every open tab sends a beat with *)
(* its session id every 20 seconds and a last "left" when it closes.  A     *)
(* request reads the clock and then takes the registry's mutex for its beat *)
(* and again for its answer; in between other requests come and go, so      *)
(* beats may be applied in another order than their times.                 *)
(*                                                                         *)
(* Left out: the checks before the beat, which read only; the name of an    *)
(* editor, and since when it edits.                                         *)
(***************************************************************************)
EXTENDS Integers, FiniteSets

CONSTANTS
    Entities, Actors,
    Sids,           \* session ids that clients send
    Tabs,           \* those of each actor
    NoSid,          \* the empty one
    Cap,            \* maxSessionsPerActor
    Ttl,
    Posts,          \* requests under way
    MaxNow, MaxPosts,       \* bounds: the clock, requests
    None

PresenceAssumption ==
    /\ Tabs \in [Actors -> SUBSET Sids]
    /\ Cap \in Nat \ {0, 1} /\ Ttl \in Nat
    /\ None \notin Sids

VARIABLES
    now,
    byEntry,        \* when each session of an actor on an entity was last seen
    post,
    posted,
    last            \* history: each actor's latest beat on an entity since it left, see Late

vars == <<now, byEntry, post, posted, last>>

Closed == -1
Ready == [pc |-> "idle", entity |-> None, actor |-> None, sid |-> None, now |-> 0]

Init ==
    /\ now = 0
    /\ byEntry = [e \in Entities |-> [a \in Actors |-> [s \in Sids |-> Closed]]]
    /\ post = [r \in Posts |-> Ready]
    /\ posted = 0
    /\ last = [e \in Entities |-> [a \in Actors |-> [sid |-> None, seen |-> -1]]]

Open(sessions) == {s \in Sids : sessions[s] # Closed}

Tick == now < MaxNow /\ now' = now + 1 /\ UNCHANGED <<byEntry, post, posted, last>>

\* A POST that has passed its checks; a beat reads the clock.
Arrive(r, e, a, s, state) ==
    /\ post[r].pc = "idle"
    /\ posted < MaxPosts
    /\ posted' = posted + 1
    /\ post' = [post EXCEPT ![r] = [Ready EXCEPT !.pc = state, !.entity = e, !.actor = a, !.sid = s, !.now = now]]
    /\ UNCHANGED <<now, byEntry, last>>

NewestFault(sessions) == {d \in Open(sessions) : \A k \in Open(sessions) : sessions[d] >= sessions[k]}

\* What evictOldestSession may take, in whichever order it ranges over the map.
\* The empty id is also its mark for "none yet": a session of that id which is
\* older than all before it makes the loop forget them.
Oldest(sessions) ==
    LET forgotten(k) == NoSid \in Open(sessions) /\ sessions[NoSid] < sessions[k]
    IN  {d \in Open(sessions) : \A k \in Open(sessions) \ {NoSid} :
           forgotten(k) \/ (d # NoSid /\ sessions[d] <= sessions[k])}

\* The latest beat is the one that read the clock last.  An earlier one that is
\* applied after it is late, and leaves it the latest; unless it is of the same
\* session, which it puts back, or others are as new, or one has no id.
Late(p, sessions, beat) ==
    /\ p.now < beat.seen /\ p.sid # beat.sid
    /\ \A k \in Open(sessions) \ {beat.sid} : k # NoSid /\ sessions[k] < beat.seen

Applied(r, sessions) ==
    LET p == post[r] IN
    /\ byEntry' = [byEntry EXCEPT ![p.entity][p.actor] = sessions]
    /\ last' = [last EXCEPT ![p.entity][p.actor] =
                  IF Late(p, byEntry[p.entity][p.actor], @) THEN @
                  ELSE [sid |-> p.sid, seen |-> p.now]]
    /\ post' = [post EXCEPT ![r].pc = "others"]
    /\ UNCHANGED <<now, posted>>

BeatFault(r) ==         \* no cap
    /\ post[r].pc = "beat"
    /\ LET p == post[r]
           sessions == byEntry[p.entity][p.actor]
       IN  Applied(r, [sessions EXCEPT ![p.sid] = p.now])

\* Beat
Beat(r) ==
    /\ post[r].pc = "beat"
    /\ LET p == post[r]
           sessions == byEntry[p.entity][p.actor]
       IN  IF sessions[p.sid] # Closed \/ Cardinality(Open(sessions)) < Cap
           THEN Applied(r, [sessions EXCEPT ![p.sid] = p.now])
           ELSE \E d \in Oldest(sessions) :
                  Applied(r, [sessions EXCEPT ![d] = Closed, ![p.sid] = p.now])

\* sweepLocked: sessions past their time go, of all entities.
Swept(time) ==
    [e \in Entities |-> [a \in Actors |-> [s \in Sids |->
       IF time - byEntry[e][a][s] > Ttl THEN Closed ELSE byEntry[e][a][s]]]]

\* Others: one editor per actor with a session.
Answer(p) == {a \in Actors \ {p.actor} : Open(Swept(p.now)[p.entity][a]) # {}}

Others(r) ==
    /\ post[r].pc = "others"
    /\ byEntry' = Swept(post[r].now)
    /\ post' = [post EXCEPT ![r] = Ready]
    /\ UNCHANGED <<now, posted, last>>

LeaveFault(r) ==        \* the actor goes with the first session that is left
    /\ post[r].pc = "left"
    /\ LET p == post[r]
           gone == IF p.sid = NoSid THEN Sids ELSE {p.sid}
       IN  /\ byEntry' = [byEntry EXCEPT ![p.entity][p.actor] = [s \in Sids |-> Closed]]
           /\ last' = [last EXCEPT ![p.entity][p.actor] =
                         IF @.sid \in gone THEN [sid |-> None, seen |-> -1] ELSE @]
           /\ post' = [post EXCEPT ![r] = Ready]
    /\ UNCHANGED <<now, posted>>

\* Leave: one session, or, without an id, all of the actor's.
Leave(r) ==
    /\ post[r].pc = "left"
    /\ LET p == post[r]
           gone == IF p.sid = NoSid THEN Sids ELSE {p.sid}
       IN  /\ byEntry' = [byEntry EXCEPT ![p.entity][p.actor] = [s \in Sids |-> IF s \in gone THEN Closed ELSE @[s]]]
           /\ last' = [last EXCEPT ![p.entity][p.actor] =
                         IF @.sid \in gone THEN [sid |-> None, seen |-> -1] ELSE @]
           /\ post' = [post EXCEPT ![r] = Ready]
    /\ UNCHANGED <<now, posted>>

Next ==
    \/ Tick
    \/ \E r \in Posts :
         \/ \E e \in Entities, a \in Actors : \E s \in Tabs[a] : Arrive(r, e, a, s, "beat")
         \/ \E e \in Entities, a \in Actors : \E s \in Tabs[a] \cup {NoSid} : Arrive(r, e, a, s, "left")
         \/ Beat(r) \/ Others(r) \/ Leave(r)

Spec == Init /\ [][Next]_vars

-----------------------------------------------------------------------------
TypeOK ==
    /\ now \in 0..MaxNow
    /\ byEntry \in [Entities -> [Actors -> [Sids -> {Closed} \cup 0..now]]]
    /\ \A r \in Posts : post[r].pc \in {"idle", "beat", "others", "left"} /\ post[r].now <= now

\* However fast a client makes up session ids, an actor has no more than the cap
\* for one entity.
SessionsCapped == \A e \in Entities, a \in Actors : Cardinality(Open(byEntry[e][a])) <= Cap

\* A new session pushes out none that was seen later than one that stays; not so
\* if one without an id is among them.
EvictsOldest ==
    [][\A e \in Entities, a \in Actors :
         LET before == byEntry[e][a]
             after == byEntry'[e][a]
         IN  \A r \in Posts : post[r].pc = "beat" /\ post'[r].pc = "others" /\ NoSid \notin Open(before) =>
               \A d \in Open(before) \ Open(after), k \in Open(before) \cap Open(after) :
                 before[d] <= before[k]]_vars

\* Everybody whose latest beat on the entity is not past its time, and whose tab has
\* not left since, is in the answer, however many sessions came and went meanwhile,
\* and though beats of other tabs that had read the clock before were applied after
\* it.  A late beat of the same tab does put it back: Beat assigns lastSeen.
LastBeatShown ==
    [][\A r \in Posts : post[r].pc = "others" /\ post'[r].pc = "idle" =>
         \A a \in Actors \ {post[r].actor} :
           LET beat == last[post[r].entity][a] IN
             beat.sid # None /\ now - beat.seen <= Ttl => a \in Answer(post[r])]_vars
=============================================================================
