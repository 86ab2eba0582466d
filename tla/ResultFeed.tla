----------------------------- MODULE ResultFeed -----------------------------
(***************************************************************************)
(* What run_pipeline promises the task that calls it, seen through its     *)
(* callbacks: batches of hosts while discovery runs, then the targets,     *)
(* then at most one result per target, in any order, then the end.  It may *)
(* end early, by an exception, at any point.  Module Pipeline implements   *)
(* this; module ResultQueue relies on it.                                  *)
(***************************************************************************)
CONSTANT Host

VARIABLES
    feed,        \* "discovering", "scanning" or "ended"
    reported,    \* hosts handed to on_subnet_complete
    targets,     \* hosts handed to on_discovery_complete
    delivered    \* hosts handed to on_host_complete

feedVars == <<feed, reported, targets, delivered>>

FeedTypeOK ==
    /\ feed \in {"discovering", "scanning", "ended"}
    /\ reported \subseteq Host /\ targets \subseteq Host
    /\ delivered \subseteq targets

FeedInit ==
    /\ feed = "discovering"
    /\ reported = {} /\ targets = {} /\ delivered = {}

\* on_subnet_complete.  Batches may overlap.
Report(batch) ==
    /\ feed = "discovering"
    /\ batch # {}
    /\ reported' = reported \cup batch
    /\ UNCHANGED <<feed, targets, delivered>>

\* on_discovery_complete: every reported host is among the targets.
Announce(hosts) ==
    /\ feed = "discovering"
    /\ reported \subseteq hosts
    /\ feed' = "scanning"
    /\ targets' = hosts
    /\ UNCHANGED <<reported, delivered>>

\* on_host_complete, once per target at most.
Deliver(h) ==
    /\ feed = "scanning"
    /\ h \in targets \ delivered
    /\ delivered' = delivered \cup {h}
    /\ UNCHANGED <<feed, reported, targets>>

\* The pipeline returns its report, or raises.
End ==
    /\ feed # "ended"
    /\ feed' = "ended"
    /\ UNCHANGED <<reported, targets, delivered>>

FeedNext ==
    \/ \E batch \in SUBSET Host : Report(batch) \/ Announce(batch)
    \/ \E h \in Host : Deliver(h)
    \/ End

FeedSpec == FeedInit /\ [][FeedNext]_feedVars
=============================================================================
