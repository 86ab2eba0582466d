--------------------------- MODULE MCResultQueue ---------------------------
(* Two hosts with one open port each, in one execution: a request may      *)
(* cancel it, and none starts another.                                     *)
EXTENDS ResultQueue, TLC

CONSTANTS h1, h2

OneEach == [h \in Host |-> 1]

OnceNext ==
    \/ FeedStep \/ MainStep \/ Kill \/ ReadScan \/ SaveCancelled
    \/ \E r \in Run : WriterStep(r) \/ WriteFails(r) \/ WriterHangs(r)

\* Both threads are scheduled; whether a statement fails or hangs, or a request
\* comes, is left open.
OnceSpec == Init /\ [][OnceNext]_vars /\ WF_vars(MainStep) /\ \A r \in Run : WF_vars(WriterStep(r))
=============================================================================
