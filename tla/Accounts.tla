------------------------------ MODULE Accounts ------------------------------
(***************************************************************************)
(* The accounts of the portal and its set-up state (auth_views.py): the    *)
(* wizard that creates the Owner, the Owner's requests that create, edit   *)
(* and delete users, the site configuration, the reset to the first run,   *)
(* and personal API tokens.                                                *)
(*                                                                         *)
(* A request is authorised once, when it comes in, and then works on rows  *)
(* it reads into memory.  Saving a row writes all its columns and inserts  *)
(* the row when it is gone.  SiteConfig is one row; of its columns only    *)
(* setup_complete is kept.  A user is its id, which is never used again;   *)
(* refusals because of malformed input or a name that is taken change      *)
(* nothing and are left out.                                               *)
(***************************************************************************)
EXTENDS Integers, FiniteSets

CONSTANTS
    User,          \* user ids
    Request,       \* requests
    MAX_PER_USER   \* unrevoked tokens a user may have

ASSUME AccountsAssumption == User # {} /\ MAX_PER_USER \in Nat

VARIABLES
    born,       \* user ids given out so far
    account,    \* table of users: [role, active]
    complete,   \* SiteConfig.setup_complete
    open,       \* the cache does not say that set-up was first asked for a day ago
    tokens,     \* number of unrevoked tokens of each user
    call,       \* requests in progress: [at, user, copy, complete]
    races       \* history: what requests did at the same time

vars == <<born, account, complete, open, tokens, call, races>>

Role == {"owner", "engineer", "viewer"}
Account == [role : Role, active : BOOLEAN]
Stage == {"none", "checked", "clear", "user", "allowed", "config", "counted", "done"}
Race == {"owners",  \* two requests have both passed the check for another Owner
         "reset",   \* a reset overtook a request that was allowed, or held rows, before
         "tokens"}  \* two requests counted the tokens of one user
Nobody == [role |-> "viewer", active |-> FALSE]

Exists(u) == u \in DOMAIN account
Owners == {u \in DOMAIN account : account[u].role = "owner"}

\* has_permission("user:manage"), "site:config", "site:reset": the Owner's alone.
Manages(u) == u \in Owners /\ account[u].active

At(r, s) == call' = [call EXCEPT ![r].at = s]
Note(kind, happens) == races' = races \cup {k \in {kind} : happens}

-----------------------------------------------------------------------------
(* The wizard: setup_admin and setup_one_shot.                             *)

\* Not set up yet, within the window, no Owner.
CheckSetup(r, u) ==
    /\ call[r].at = "none"
    /\ ~complete /\ open /\ Owners = {}
    /\ u \notin born
    /\ born' = born \cup {u}
    /\ call' = [call EXCEPT ![r] = [at |-> "checked", user |-> u, complete |-> FALSE,
                                    copy |-> [role |-> "owner", active |-> TRUE]]]
    /\ UNCHANGED <<account, complete, open, tokens, races>>

\* Mutant: the singleton guard of User.save() is left to the callers.
NoClash(r) ==
    /\ call[r].at = "checked"
    /\ Note("owners", \E q \in Request : call[q].at = "clear")
    /\ At(r, "clear")
    /\ UNCHANGED <<born, account, complete, open, tokens>>

\* User.save() of an Owner: no other row has that role, or it raises.
CheckClash(r) ==
    /\ call[r].at = "checked"
    /\ IF Owners \subseteq {call[r].user}
       THEN /\ Note("owners", \E q \in Request : call[q].at = "clear")
            /\ At(r, "clear")
       ELSE At(r, "done") /\ races' = races
    /\ UNCHANGED <<born, account, complete, open, tokens>>

\* The row is inserted or, when it is there, updated.
Put(u, row) == [v \in DOMAIN account \cup {u} |-> IF v = u THEN row ELSE account[v]]

\* The wizard's transaction sets setup_complete with the Owner; an Owner edited
\* by auth_user_update is just saved.  complete = FALSE marks the wizard.
WriteOwner(r) ==
    /\ call[r].at = "clear"
    /\ account' = Put(call[r].user, call[r].copy)
    /\ complete' = (complete \/ ~call[r].complete)
    /\ At(r, "done")
    /\ UNCHANGED <<born, open, tokens, races>>

\* _setup_window_expired: a day has passed since set-up was first asked for ...
WindowCloses ==
    /\ open
    /\ open' = FALSE
    /\ UNCHANGED <<born, account, complete, tokens, call, races>>

\* ... and an hour later the cache has forgotten when that was.
WindowReopens ==
    /\ ~open
    /\ open' = TRUE
    /\ UNCHANGED <<born, account, complete, tokens, call, races>>

-----------------------------------------------------------------------------
(* Users.                                                                  *)

\* auth_user_create: create_user() inserts an active viewer; role and status
\* are saved afterwards.
CreateUser(r, a, u, role, active) ==
    /\ call[r].at = "none"
    /\ Manages(a)
    /\ role # "owner"
    /\ u \notin born
    /\ born' = born \cup {u}
    /\ account' = Put(u, [role |-> "viewer", active |-> TRUE])
    /\ call' = [call EXCEPT ![r] = [at |-> "user", user |-> u, complete |-> TRUE,
                                    copy |-> [role |-> role, active |-> active]]]
    /\ UNCHANGED <<complete, open, tokens, races>>

\* auth_user_update: the row is read and changed in memory; an Owner stays one.
ReadUser(r, a, u, role, active) ==
    /\ call[r].at = "none"
    /\ Manages(a)
    /\ Exists(u)
    /\ role = "owner" <=> account[u].role = "owner"
    /\ call' = [call EXCEPT ![r] = [at |-> IF role = "owner" THEN "checked" ELSE "user",
                                    user |-> u, complete |-> TRUE,
                                    copy |-> [role |-> role, active |-> active]]]
    /\ UNCHANGED <<born, account, complete, open, tokens, races>>

\* user.save(): all columns, whether the row is still there or not.
SaveUser(r) ==
    /\ call[r].at = "user"
    /\ account' = Put(call[r].user, call[r].copy)
    /\ At(r, "done")
    /\ UNCHANGED <<born, complete, open, tokens, races>>

\* auth_user_delete: not oneself, not the Owner; tokens go with the row.
DeleteUser(r, a, u) ==
    /\ call[r].at = "none"
    /\ Manages(a)
    /\ a # u
    /\ Exists(u) /\ u \notin Owners
    /\ account' = [v \in DOMAIN account \ {u} |-> account[v]]
    /\ tokens' = [tokens EXCEPT ![u] = 0]
    /\ At(r, "done")
    /\ UNCHANGED <<born, complete, open, races>>

-----------------------------------------------------------------------------
(* Site configuration.                                                     *)

\* site_setup_complete, update_site_config and the PUT of notifications_config ask
\* who the caller is ...
AllowConfig(r, a) ==
    /\ call[r].at = "none"
    /\ Manages(a)
    /\ call' = [call EXCEPT ![r] = [at |-> "allowed", user |-> a, copy |-> Nobody,
                                    complete |-> TRUE]]
    /\ UNCHANGED <<born, account, complete, open, tokens, races>>

\* ... and read the row; the first sets setup_complete in its copy.
ReadConfig(r, set) ==
    /\ call[r].at = "allowed"
    /\ call' = [call EXCEPT ![r] = [at |-> "config", user |-> call[r].user, copy |-> Nobody,
                                    complete |-> complete \/ set]]
    /\ UNCHANGED <<born, account, complete, open, tokens, races>>

\* config.save(): setup_complete as it was read.
SaveConfig(r) ==
    /\ call[r].at = "config"
    /\ complete' = call[r].complete
    /\ At(r, "done")
    /\ UNCHANGED <<born, account, open, tokens, races>>

\* Mutant: users are deleted, setup_complete is left alone.
ResetUsersOnly(r, a) ==
    /\ call[r].at = "none"
    /\ Manages(a)
    /\ account' = [v \in {} |-> Nobody]
    /\ tokens' = [u \in User |-> 0]
    /\ Note("reset", \E q \in Request : call[q].at \in {"checked", "clear", "user", "allowed", "config"})
    /\ At(r, "done")
    /\ UNCHANGED <<born, complete, open>>

\* reset_setup: one transaction deletes all users and clears setup_complete.
ResetSetup(r, a) ==
    /\ call[r].at = "none"
    /\ Manages(a)
    /\ account' = [v \in {} |-> Nobody]
    /\ tokens' = [u \in User |-> 0]
    /\ complete' = FALSE
    /\ Note("reset", \E q \in Request : call[q].at \in {"checked", "clear", "user", "allowed", "config"})
    /\ At(r, "done")
    /\ UNCHANGED <<born, open>>

-----------------------------------------------------------------------------
(* API tokens.                                                             *)

Counted(u) == {r \in Request : call[r].at = "counted" /\ call[r].user = u}

\* tokens_list_or_create counts the caller's unrevoked tokens ...
CountTokens(r, u) ==
    /\ call[r].at = "none"
    /\ Exists(u) /\ account[u].role # "viewer"
    /\ tokens[u] < MAX_PER_USER
    /\ call' = [call EXCEPT ![r] = [at |-> "counted", user |-> u, copy |-> Nobody,
                                    complete |-> TRUE]]
    /\ Note("tokens", Counted(u) # {})
    /\ UNCHANGED <<born, account, complete, open, tokens>>

\* ... and mints one: ApiToken.mint.  A row of a deleted user is refused.
MintToken(r) ==
    /\ call[r].at = "counted"
    /\ tokens' = IF Exists(call[r].user)
                 THEN [tokens EXCEPT ![call[r].user] = @ + 1] ELSE tokens
    /\ At(r, "done")
    /\ UNCHANGED <<born, account, complete, open, races>>

\* Mutant: a token already revoked is revoked once more.
RevokeAgain(r, u) ==
    /\ call[r].at = "none"
    /\ Exists(u)
    /\ tokens' = [tokens EXCEPT ![u] = @ - 1]
    /\ At(r, "done")
    /\ UNCHANGED <<born, account, complete, open, races>>

\* tokens_revoke
RevokeToken(r, u) ==
    /\ call[r].at = "none"
    /\ Exists(u) /\ tokens[u] > 0
    /\ tokens' = [tokens EXCEPT ![u] = @ - 1]
    /\ At(r, "done")
    /\ UNCHANGED <<born, account, complete, open, races>>

-----------------------------------------------------------------------------
\* First run: no users, not set up.
Init ==
    /\ born = {}
    /\ account = [v \in {} |-> Nobody]
    /\ complete = FALSE
    /\ open = TRUE
    /\ tokens = [u \in User |-> 0]
    /\ call = [r \in Request |-> [at |-> "none", user |-> CHOOSE u \in User : TRUE,
                                  copy |-> Nobody, complete |-> FALSE]]
    /\ races = {}

SetupStep(r) == CheckClash(r) \/ WriteOwner(r) \/ \E u \in User : CheckSetup(r, u)

UserStep(r) ==
    \/ SaveUser(r)
    \/ \E a, u \in User :
        \/ DeleteUser(r, a, u)
        \/ \E role \in Role, active \in BOOLEAN :
            CreateUser(r, a, u, role, active) \/ ReadUser(r, a, u, role, active)

ConfigStep(r) ==
    \/ SaveConfig(r)
    \/ \E a \in User : ResetSetup(r, a) \/ AllowConfig(r, a)
    \/ \E set \in BOOLEAN : ReadConfig(r, set)

TokenStep(r) == MintToken(r) \/ \E u \in User : CountTokens(r, u) \/ RevokeToken(r, u)

Next ==
    \/ WindowCloses \/ WindowReopens
    \/ \E r \in Request : SetupStep(r) \/ UserStep(r) \/ ConfigStep(r) \/ TokenStep(r)

Spec == Init /\ [][Next]_vars

-----------------------------------------------------------------------------
(* Properties.                                                             *)

\* Every variable keeps its type.
TypeOK ==
    /\ born \subseteq User
    /\ DOMAIN account \subseteq born
    /\ account \in [DOMAIN account -> Account]
    /\ {complete, open} \subseteq BOOLEAN
    /\ races \subseteq Race
    /\ tokens \in [User -> Nat]
    /\ call \in [Request -> [at : Stage, user : User, copy : Account, complete : BOOLEAN]]

\* There is at most one Owner, through stale saves, resets and a second run of
\* the wizard, unless two requests pass the check of User.save() before either
\* of them writes.
AtMostOneOwner == "owners" \notin races => \A u, v \in Owners : u = v

\* The portal says it is set up exactly when there is an Owner: it neither hides
\* the wizard when it has no users, nor offers it beside an Owner.  Only a reset
\* that overtakes a request with older rows can break that.
SetupMatchesOwner == "reset" \notin races => (complete <=> Owners # {})

\* A user has at most MAX_PER_USER unrevoked tokens, those about to be minted
\* included, unless two requests have counted before either minted.
TokenCap ==
    "tokens" \notin races => \A u \in User : tokens[u] + Cardinality(Counted(u)) <= MAX_PER_USER
=============================================================================
