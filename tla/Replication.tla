---------------------------- MODULE Replication ----------------------------
(***************************************************************************)
(* Replication of one instance package between the nodes that care for it  *)
(* (node/replication.py, node/instances.py).  A package is a file the      *)
(* operator or the service writes, and beside it the node keeps its        *)
(* revision.  A node notices an edit by the hash, and takes from a peer    *)
(* what wins over its own revision; a running service is restarted on it.  *)
(* The events of the swarm only make a node ask earlier than its poll      *)
(* does, and ask the same question, so the poll stands for both.           *)
(***************************************************************************)
EXTENDS Naturals

CONSTANTS
    Nodes,
    Rank,        \* the order of the names of the nodes
    Active,      \* nodes that run the service; the others are its reserve
    Times,       \* readings of the clocks, which nobody keeps in step
    MaxEdits,
    MaxDeaths

ASSUME ReplicationAssumption ==
    /\ Active \subseteq Nodes
    /\ Rank \in [Nodes -> Nat]
    /\ \A m, n \in Nodes : Rank[m] = Rank[n] => m = n
    /\ Times \subseteq Nat
    /\ MaxEdits \in Nat /\ MaxDeaths \in Nat

VARIABLES
    content,    \* the package of a node; 0 when there is none
    meta,       \* its revision: rev, hash, at, origin
    loaded,     \* the package the running service has read
    pull,       \* an answer on its way to a node: a revision and a package
    up,
    edits, deaths

vars == <<content, meta, loaded, pull, up, edits, deaths>>

NoMeta == [rev |-> 0]
Meta == [rev : Nat \ {0}, hash : Nat, at : Times, origin : Nodes]
NoPull == [meta |-> NoMeta, content |-> 0]

ReplicationInit ==
    /\ content = [n \in Nodes |-> 0]
    /\ meta = [n \in Nodes |-> NoMeta]
    /\ loaded = [n \in Nodes |-> 0]
    /\ pull = [n \in Nodes |-> NoPull]
    /\ up = Nodes
    /\ edits = 0 /\ deaths = 0

-----------------------------------------------------------------------------
(* Which of two revisions wins. *)

Later(m, l) == m.at > l.at \/ (m.at = l.at /\ Rank[m.origin] > Rank[l.origin])

WinsByRev(m, l) == m # NoMeta /\ (l = NoMeta \/ m.rev > l.rev)   \* mutant: a tie stays

WinsOver(m, l) ==
    /\ m # NoMeta
    /\ \/ l = NoMeta
       \/ l # NoMeta /\ m.rev > l.rev
       \/ l # NoMeta /\ m.rev = l.rev /\ m.hash # l.hash /\ Later(m, l)

-----------------------------------------------------------------------------
\* Somebody writes the package: the file, and nothing but the file.
Edit(n) ==
    /\ edits < MaxEdits
    /\ edits' = edits + 1
    /\ content' = [content EXCEPT ![n] = edits + 1]
    /\ UNCHANGED <<meta, loaded, pull, up, deaths>>

Noticed(n) == meta[n] # NoMeta /\ meta[n].hash = content[n]

\* Mutants: an edit keeps the revision it was made upon; it starts at none.
SameRev(m) == IF m = NoMeta THEN 1 ELSE m.rev
OldRev(m) == m.rev
NextRev(m) == m.rev + 1

\* The node finds a package its revision does not describe and restarts the
\* service on it.
Refresh(n) ==
    /\ n \in up
    /\ content[n] # 0
    /\ ~Noticed(n)
    /\ \E t \in Times : meta' = [meta EXCEPT ![n] =
            [rev |-> NextRev(@), hash |-> content[n], at |-> t, origin |-> n]]
    /\ loaded' = [loaded EXCEPT ![n] = IF n \in Active THEN content[n] ELSE @]
    /\ UNCHANGED <<content, pull, up, edits, deaths>>

\* The peer answers with its package and its revision as they are: the file
\* may be ahead of the revision.
Pull(n, p) ==
    /\ n \in up /\ p \in up
    /\ pull[n] = NoPull
    /\ WinsOver(meta[p], meta[n])
    /\ pull' = [pull EXCEPT ![n] = [meta |-> meta[p], content |-> content[p]]]
    /\ UNCHANGED <<content, meta, loaded, up, edits, deaths>>

PullFails(n) ==
    /\ pull[n] # NoPull
    /\ pull' = [pull EXCEPT ![n] = NoPull]
    /\ UNCHANGED <<content, meta, loaded, up, edits, deaths>>

\* The answer is judged again by what the node has now.
Forced(n) == pull[n].meta.hash = pull[n].content     \* mutant: judged when it was asked for
Acceptable(n) == pull[n].meta.hash = pull[n].content /\ WinsOver(pull[n].meta, meta[n])

\* Mutant: the running service is not restarted.
ApplyQuietly(n) ==
    /\ pull[n] # NoPull
    /\ Acceptable(n)
    /\ content' = [content EXCEPT ![n] = pull[n].content]
    /\ meta' = [meta EXCEPT ![n] = pull[n].meta]
    /\ pull' = [pull EXCEPT ![n] = NoPull]
    /\ UNCHANGED <<loaded, up, edits, deaths>>

Apply(n) ==
    /\ pull[n] # NoPull
    /\ Acceptable(n)
    /\ content' = [content EXCEPT ![n] = pull[n].content]
    /\ meta' = [meta EXCEPT ![n] = pull[n].meta]
    /\ loaded' = [loaded EXCEPT ![n] = IF n \in Active THEN pull[n].content ELSE @]
    /\ pull' = [pull EXCEPT ![n] = NoPull]
    /\ UNCHANGED <<up, edits, deaths>>

Refuse(n) ==
    /\ pull[n] # NoPull
    /\ ~Acceptable(n)
    /\ pull' = [pull EXCEPT ![n] = NoPull]
    /\ UNCHANGED <<content, meta, loaded, up, edits, deaths>>

-----------------------------------------------------------------------------
(* The node dies; it may do so with the package of an answer written and   *)
(* its revision not.                                                       *)

Dies(n) ==
    /\ n \in up
    /\ deaths < MaxDeaths
    /\ deaths' = deaths + 1
    /\ up' = up \ {n}
    /\ pull' = [pull EXCEPT ![n] = NoPull]
    /\ UNCHANGED <<meta, loaded, edits>>

Crash(n) == Dies(n) /\ UNCHANGED content

CrashInApply(n) ==
    /\ pull[n] # NoPull
    /\ Acceptable(n)
    /\ content' = [content EXCEPT ![n] = pull[n].content]
    /\ Dies(n)

\* The service starts on the package as it is.
Start(n) ==
    /\ n \notin up
    /\ up' = up \cup {n}
    /\ loaded' = [loaded EXCEPT ![n] = IF n \in Active THEN content[n] ELSE @]
    /\ UNCHANGED <<content, meta, pull, edits, deaths>>

-----------------------------------------------------------------------------
Receive(n) == Apply(n) \/ Refuse(n)

ReplicationNext == \E n \in Nodes :
    \/ Edit(n) \/ Refresh(n)
    \/ \E p \in Nodes : Pull(n, p)
    \/ Receive(n) \/ PullFails(n)
    \/ Crash(n) \/ CrashInApply(n) \/ Start(n)

ReplicationSpec == ReplicationInit /\ [][ReplicationNext]_vars

\* The poll asks every peer again and again, and an answer that keeps being
\* lost is not the network the code can work with.
ReplicationFairness == \A n \in Nodes :
    /\ WF_vars(Refresh(n))
    /\ WF_vars(\E p \in Nodes : Pull(n, p))
    /\ SF_vars(Receive(n))
    /\ WF_vars(Start(n))
FairReplicationSpec == ReplicationSpec /\ ReplicationFairness

-----------------------------------------------------------------------------
(* Properties. *)

\* Types; an answer on its way is for a node that runs.
ReplicationTypeOK ==
    /\ content \in [Nodes -> Nat] /\ loaded \in [Nodes -> Nat]
    /\ meta \in [Nodes -> Meta \cup {NoMeta}]
    /\ pull \in [Nodes -> [meta : Meta, content : Nat] \cup {NoPull}]
    /\ up \subseteq Nodes
    /\ edits \in 0 .. MaxEdits /\ deaths \in 0 .. MaxDeaths
    /\ \A n \in Nodes : n \notin up => pull[n] = NoPull

Known == ({meta[n] : n \in Nodes} \cup {pull[n].meta : n \in Nodes}) \ {NoMeta}

\* The rule that compares revisions is a total order on the packages in the
\* swarm: two revisions with the same number made by one node are the same
\* revision, so that of two different packages one always wins.
RevisionsAreComparable == \A m, l \in Known :
    /\ m.rev = l.rev /\ m.origin = l.origin => m = l
    /\ m.hash # l.hash => (WinsOver(m, l) <=> ~WinsOver(l, m))

\* A node never goes back to a revision that loses to the one it has, however
\* late the answer it asked for arrives.
NeverGoesBack == [][\A n \in Nodes :
    meta'[n] # meta[n] => WinsOver(meta'[n], meta[n])]_vars

\* When nobody edits any more the nodes agree on a package, and each has
\* noticed what it has.
Converges == []<>(\A m, n \in Nodes : content[m] = content[n] /\ (content[n] = 0 \/ Noticed(n)))

\* The service ends up running on the package of its node.
ServiceReadsItsPackage == []<>(\A n \in Active : loaded[n] = content[n])
=============================================================================
