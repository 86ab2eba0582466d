---------------------------- MODULE PasswordSpray ---------------------------
(***************************************************************************)
(* Password sprays over the users of one reconnaissance session:           *)
(* ADReconSessionViewSet.run_spray and run_spray_task.                     *)
(*                                                                         *)
(* The request adds a pending row for every pair it does not find, one at  *)
(* a time, and sends a task with its users.  The task takes its passwords  *)
(* from the pending rows of the whole session, runs nxc once, and rewrites *)
(* every row of each of its users, whichever request they belong to and    *)
(* whether or not nxc has tried the pair.                                  *)
(*                                                                         *)
(* The rows have no unique key; a pair that two requests add at the same   *)
(* moment is one row here.  The branches for a session without an address  *)
(* or without users are left out: run_spray has checked both.              *)
(***************************************************************************)
EXTENDS Naturals, FiniteSets

CONSTANTS Users, Passwords, Sprays

VARIABLES
    rows,      \* ADSprayResult: the status of a pair, "none" without a row
    spray,     \* the requests and their tasks
    asked,     \* history: pairs whose user and password were in the files of a run of nxc
    hits,      \* history: pairs nxc reported
    late       \* history: rows added for a user while a task ran that had read the rows

vars == <<rows, spray, asked, hits, late>>

Pairs == Users \X Passwords
Status == {"none", "pending", "success", "failed", "locked"}
Stage == {"new", "creating", "queued", "listed", "updating", "done", "dead"}

\* A request's users and the pairs it still has to add; its task's passwords,
\* what nxc said, and the users whose rows it has still to rewrite.
Idle == [at |-> "new", users |-> {}, todo |-> {}, passwords |-> {}, won |-> {}, locked |-> {}, left |-> {}]

Ended(how, r) == [Idle EXCEPT !.at = how, !.users = r.users]

Init ==
    /\ rows = [x \in Pairs |-> "none"]
    /\ spray = [s \in Sprays |-> Idle]
    /\ asked = {} /\ hits = {} /\ late = {}

\* Users that are not the session's have been sorted out.
Ask(s, us, ps) ==
    /\ spray[s].at = "new"
    /\ us # {} /\ ps # {}
    /\ spray' = [spray EXCEPT ![s] = [@ EXCEPT !.at = "creating", !.users = us, !.todo = us \X ps]]
    /\ UNCHANGED <<rows, asked, hits, late>>

\* Tasks that would rewrite a row of u without having read it.
Read(u) == \E s \in Sprays : spray[s].at \in {"listed", "updating"} /\ u \in spray[s].users

\* get_or_create: a pair that has a row keeps it as it is.
AddRow(s, x) ==
    /\ spray[s].at = "creating" /\ x \in spray[s].todo
    /\ spray' = [spray EXCEPT ![s].todo = @ \ {x}]
    /\ rows' = IF rows[x] = "none" THEN [rows EXCEPT ![x] = "pending"] ELSE rows
    /\ late' = IF rows[x] = "none" /\ Read(x[1]) THEN late \cup {x} ELSE late
    /\ UNCHANGED <<asked, hits>>

Dispatch(s) ==
    /\ spray[s].at = "creating" /\ spray[s].todo = {}
    /\ spray' = [spray EXCEPT ![s].at = "queued"]
    /\ UNCHANGED <<rows, asked, hits, late>>

Pending == {x \in Pairs : rows[x] = "pending"}

List(s) ==
    /\ spray[s].at = "queued"
    /\ spray' = [spray EXCEPT ![s] =
                   IF Pending = {} THEN Ended("done", @)
                   ELSE [@ EXCEPT !.at = "listed", !.passwords = {x[2] : x \in Pending}]]
    /\ UNCHANGED <<rows, asked, hits, late>>

\* nxc gets the users and the passwords as two files.  With --no-bruteforce it pairs
\* them line by line, so that it tries a user once at most; it may be missing, stop
\* early or time out, and then it tries some users or none.  What it has tried nobody
\* writes down: the task knows the pairs it reported, and no more.
Spray(s, won, locked) ==
    /\ spray[s].at = "listed"
    /\ won \subseteq spray[s].users \X spray[s].passwords
    /\ \A x, y \in won : x[1] = y[1] => x = y
    /\ locked \subseteq {u \in spray[s].users : \A x \in won : x[1] # u}
    /\ spray' = [spray EXCEPT ![s] = [@ EXCEPT !.at = "updating", !.won = won, !.locked = locked,
                                               !.left = spray[s].users]]
    /\ asked' = asked \cup (spray[s].users \X spray[s].passwords)
    /\ hits' = hits \cup won
    /\ UNCHANGED <<rows, late>>

\* Mutant: any password of a user that has one is the one.
VerdictAny(s, x) ==
    IF \E y \in spray[s].won : y[1] = x[1] THEN "success" ELSE "failed"

\* What becomes of a row of a user whose turn it is.
Verdict(s, x) ==
    IF \E y \in spray[s].won : y[1] = x[1] THEN IF x \in spray[s].won THEN "success" ELSE "failed"
    ELSE IF x[1] \in spray[s].locked THEN "locked" ELSE "failed"

Update(s, u) ==
    /\ spray[s].at = "updating" /\ u \in spray[s].left
    /\ rows' = [x \in Pairs |-> IF x[1] = u /\ rows[x] # "none" THEN Verdict(s, x) ELSE rows[x]]
    /\ spray' = [spray EXCEPT ![s] = IF @.left = {u} THEN Ended("done", @)
                                   ELSE [spray[s] EXCEPT !.left = @ \ {u}]]
    /\ UNCHANGED <<asked, hits, late>>

\* The request's process or the task's worker dies, or the soft time limit comes:
\* 550 s, sooner than the 600 s nxc is given.  No handler touches the rows.
Die(s) ==
    /\ spray[s].at \notin {"new", "done", "dead"}
    /\ spray' = [spray EXCEPT ![s] = Ended("dead", @)]
    /\ UNCHANGED <<rows, asked, hits, late>>

Next ==
    \E s \in Sprays :
        \/ \E us \in SUBSET Users, ps \in SUBSET Passwords : Ask(s, us, ps)
        \/ \E x \in Pairs : AddRow(s, x)
        \/ Dispatch(s) \/ List(s) \/ Die(s)
        \/ \E won \in SUBSET Pairs, locked \in SUBSET Users : Spray(s, won, locked)
        \/ \E u \in Users : Update(s, u)

Spec == Init /\ [][Next]_vars

-----------------------------------------------------------------------------
(* Properties.                                                             *)

TypeOK ==
    /\ rows \in [Pairs -> Status]
    /\ \A s \in Sprays :
         /\ spray[s].at \in Stage
         /\ spray[s].todo \subseteq spray[s].users \X Passwords
         /\ spray[s].won \subseteq spray[s].users \X spray[s].passwords
         /\ spray[s].left \subseteq spray[s].users
    /\ asked \cup hits \cup late \subseteq Pairs

\* A pending row has a request or a task that will rewrite it, or had one that
\* died: a task that takes another request's rows leaves none of them behind.
PendingSprayDriven ==
    \A x \in Pairs : rows[x] = "pending" =>
        \E s \in Sprays :
            /\ x[1] \in spray[s].users
            /\ \/ spray[s].at \in {"creating", "queued", "listed", "dead"}
               \/ spray[s].at = "updating" /\ x[1] \in spray[s].left

\* A row says success only for a pair that nxc reported.  Failed says less: that a
\* task had the pair's user and its password in the files of its run, whether nxc has
\* tried the two or passed them over, or that the row was added behind the back of a
\* running task.
RowsEarned ==
    \A x \in Pairs :
        /\ rows[x] = "success" => x \in hits
        /\ rows[x] = "failed" => x \in asked \cup late
=============================================================================
