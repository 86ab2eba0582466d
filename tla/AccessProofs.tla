---------------------------- MODULE AccessProofs ----------------------------
(***************************************************************************)
(* Proofs about who may act, for any users, requests, browsers and chats   *)
(* and any limits: about Accounts, its types, that there is at most one    *)
(* Owner, that set-up is in step with the Owner, and the cap on tokens,    *)
(* each but for the crossing it names; about SignIn, how sessions come     *)
(* about, and that with the second factor on one that a password alone     *)
(* opened is left only by a mfa_confirm at work or dead; about BotChat, in *)
(* whose name a scan is launched from a chat.  They end with the           *)
(* invariants of the three side by side.                                   *)
(***************************************************************************)
EXTENDS MCAccess, FiniteSetTheorems, TLAPS

-----------------------------------------------------------------------------
(* Types.                                                                  *)

\* A request that has read a user names one that was given out.
Born == \A r \in Request : call[r].at \in {"checked", "clear", "user"} => call[r].user \in born

Typed == TypeOK /\ Born

Call == [at : Stage, user : User, copy : Account, complete : BOOLEAN]

\* A row that is written keeps the table's type.
LEMMA PutTyped ==
    ASSUME TypeOK, NEW u \in User, NEW row \in Account, born' = born \cup {u} \/ (u \in born /\ born' = born),
           account' = Put(u, row)
    PROVE  /\ DOMAIN account' = DOMAIN account \cup {u}
           /\ DOMAIN account' \subseteq born' /\ born' \subseteq User
           /\ account' \in [DOMAIN account' -> Account]
           /\ account'[u] = row /\ \A v \in DOMAIN account \ {u} : account'[v] = account[v]
<1>1. account' = [v \in DOMAIN account \cup {u} |-> IF v = u THEN row ELSE account[v]]
    BY DEF Put
<1>2. DOMAIN account' = DOMAIN account \cup {u}
    BY <1>1
<1>3. \A v \in DOMAIN account : account[v] \in Account
    BY DEF TypeOK
<1>4. \A v \in DOMAIN account' : account'[v] \in Account
    BY <1>1, <1>2, <1>3
<1>5. account' \in [DOMAIN account' -> Account]
    BY <1>1, <1>2, <1>4
<1> QED
    BY <1>1, <1>2, <1>5 DEF TypeOK

\* A request that moves to another stage stays typed.
LEMMA AtTyped ==
    ASSUME Typed, NEW r \in Request, NEW s \in Stage, At(r, s)
    PROVE  /\ call' \in [Request -> Call]
           /\ call'[r].at = s /\ call'[r].user = call[r].user
           /\ \A q \in Request : q # r => call'[q] = call[q]
BY DEF At, Typed, TypeOK, Call

\* One that is given what it has read is typed as well.
LEMMA CallTyped ==
    ASSUME Typed, NEW r \in Request, NEW c \in Call, call' = [call EXCEPT ![r] = c]
    PROVE  call' \in [Request -> Call] /\ call'[r] = c /\ \A q \in Request : q # r => call'[q] = call[q]
BY DEF Typed, TypeOK, Call

\* Notes are of the named kinds.
LEMMA NoteTyped ==
    ASSUME Typed, NEW kind \in Race, NEW happens \in BOOLEAN, Note(kind, happens)
    PROVE  races' \subseteq Race /\ races \subseteq races' /\ (happens => kind \in races')
           /\ \A k \in Race : k # kind /\ k \in races' => k \in races
BY DEF Note, Typed, TypeOK

\* The types hold initially.
LEMMA InitTyped == Init => Typed
<1> SUFFICES ASSUME Init PROVE Typed
    OBVIOUS
<1> DEFINE none == [at |-> "none", user |-> CHOOSE u \in User : TRUE, copy |-> Nobody, complete |-> FALSE]
<1>1. (CHOOSE u \in User : TRUE) \in User
    BY AccountsAssumption
<1>2. none \in Call
    BY <1>1 DEF Call, Stage, Account, Role, Nobody
<1>3. call = [r \in Request |-> none]
    BY DEF Init
<1>4. none.at = "none"
    OBVIOUS
<1> HIDE DEF none
<1>5. call \in [Request -> Call] /\ Born
    BY <1>2, <1>3, <1>4 DEF Born
<1>6. account \in [DOMAIN account -> Account] /\ DOMAIN account \subseteq born
    BY DEF Init
<1>7. tokens \in [User -> Nat] /\ born \subseteq User /\ races \subseteq Race /\ {complete, open} \subseteq BOOLEAN
    BY DEF Init
<1> QED
    BY <1>5, <1>6, <1>7 DEF Typed, TypeOK, Call

\* The wizard and the saves of users keep them.
LEMMA SetupTyped ==
    ASSUME Typed, NEW r \in Request, SetupStep(r)
    PROVE  Typed'
<1>1. ASSUME NEW u \in User, CheckSetup(r, u)
      PROVE  Typed'
    <2> DEFINE c == [at |-> "checked", user |-> u, complete |-> FALSE,
                     copy |-> [role |-> "owner", active |-> TRUE]]
    <2>1. c \in Call
        BY DEF Call, Stage, Account, Role
    <2>2. call' = [call EXCEPT ![r] = c] /\ born' = born \cup {u}
          /\ UNCHANGED <<account, complete, open, tokens, races>> /\ c.user = u
        BY <1>1 DEF CheckSetup
    <2> HIDE DEF c
    <2>3. call' \in [Request -> Call] /\ Born'
        BY <2>1, <2>2, CallTyped DEF Born, Typed
    <2> QED
        BY <2>2, <2>3 DEF Typed, TypeOK, Call
<1>2. CASE CheckClash(r)
    <2>1. PICK s \in {"clear", "done"} : At(r, s)
        BY <1>2 DEF CheckClash
    <2>2. races' \subseteq Race /\ UNCHANGED <<born, account, complete, open, tokens>>
        BY <1>2, NoteTyped, "owners" \in Race DEF CheckClash, Race, Typed, TypeOK
    <2>3. call[r].at = "checked"
        BY <1>2 DEF CheckClash
    <2>4. call' \in [Request -> Call] /\ Born'
        BY <2>1, <2>2, <2>3, AtTyped, s \in Stage DEF Born, Typed, Stage
    <2> QED
        BY <2>2, <2>4 DEF Typed, TypeOK, Call
<1>3. CASE WriteOwner(r)
    <2>1. call[r].user \in born /\ call[r].user \in User /\ call[r].copy \in Account
          /\ call[r].complete \in BOOLEAN
        BY <1>3 DEF WriteOwner, Typed, TypeOK, Born
    <2>2. /\ account' = Put(call[r].user, call[r].copy) /\ complete' \in BOOLEAN
          /\ At(r, "done") /\ UNCHANGED <<born, open, tokens, races>>
        BY <1>3, <2>1 DEF WriteOwner, Typed, TypeOK
    <2>3. DOMAIN account' \subseteq born' /\ account' \in [DOMAIN account' -> Account]
        BY <2>1, <2>2, PutTyped DEF Typed
    <2>4. call' \in [Request -> Call] /\ Born'
        BY <2>2, AtTyped, "done" \in Stage DEF Born, Typed, Stage
    <2> QED
        BY <2>2, <2>3, <2>4 DEF Typed, TypeOK, Call
<1> QED
    BY <1>1, <1>2, <1>3 DEF SetupStep

\* Requests on users keep them.
LEMMA UserTyped ==
    ASSUME Typed, NEW r \in Request, UserStep(r)
    PROVE  Typed'
<1>1. CASE SaveUser(r)
    <2>1. call[r].user \in born /\ call[r].user \in User /\ call[r].copy \in Account
        BY <1>1 DEF SaveUser, Typed, TypeOK, Born
    <2>2. /\ account' = Put(call[r].user, call[r].copy)
          /\ At(r, "done") /\ UNCHANGED <<born, complete, open, tokens, races>>
        BY <1>1 DEF SaveUser
    <2>3. DOMAIN account' \subseteq born' /\ account' \in [DOMAIN account' -> Account]
        BY <2>1, <2>2, PutTyped DEF Typed
    <2>4. call' \in [Request -> Call] /\ Born'
        BY <2>2, AtTyped, "done" \in Stage DEF Born, Typed, Stage
    <2> QED
        BY <2>2, <2>3, <2>4 DEF Typed, TypeOK, Call
<1>2. ASSUME NEW a \in User, NEW u \in User, DeleteUser(r, a, u)
      PROVE  Typed'
    <2>1. /\ account' = [v \in DOMAIN account \ {u} |-> account[v]]
          /\ tokens' = [tokens EXCEPT ![u] = 0]
          /\ At(r, "done") /\ UNCHANGED <<born, complete, open, races>>
        BY <1>2 DEF DeleteUser
    <2>2. DOMAIN account' \subseteq born' /\ account' \in [DOMAIN account' -> Account]
        BY <2>1 DEF Typed, TypeOK
    <2>3. tokens' \in [User -> Nat]
        BY <2>1 DEF Typed, TypeOK
    <2>4. call' \in [Request -> Call] /\ Born'
        BY <2>1, AtTyped, "done" \in Stage DEF Born, Typed, Stage
    <2> QED
        BY <2>1, <2>2, <2>3, <2>4 DEF Typed, TypeOK, Call
<1>3. ASSUME NEW a \in User, NEW u \in User, NEW role \in Role, NEW active \in BOOLEAN,
             CreateUser(r, a, u, role, active)
      PROVE  Typed'
    <2> DEFINE c == [at |-> "user", user |-> u, complete |-> TRUE,
                     copy |-> [role |-> role, active |-> active]]
               row == [role |-> "viewer", active |-> TRUE]
    <2>1. c \in Call /\ row \in Account /\ c.user = u
        BY DEF Call, Stage, Account, Role
    <2>2. /\ call' = [call EXCEPT ![r] = c] /\ born' = born \cup {u} /\ account' = Put(u, row)
          /\ UNCHANGED <<complete, open, tokens, races>>
        BY <1>3 DEF CreateUser
    <2> HIDE DEF c, row
    <2>3. call' \in [Request -> Call] /\ Born'
        BY <2>1, <2>2, CallTyped DEF Born, Typed
    <2>4. DOMAIN account' \subseteq born' /\ account' \in [DOMAIN account' -> Account] /\ born' \subseteq User
        BY <2>1, <2>2, PutTyped DEF Typed
    <2> QED
        BY <2>2, <2>3, <2>4 DEF Typed, TypeOK, Call
<1>4. ASSUME NEW a \in User, NEW u \in User, NEW role \in Role, NEW active \in BOOLEAN,
             ReadUser(r, a, u, role, active)
      PROVE  Typed'
    <2> DEFINE c == [at |-> IF role = "owner" THEN "checked" ELSE "user",
                     user |-> u, complete |-> TRUE, copy |-> [role |-> role, active |-> active]]
    <2>1. c \in Call /\ c.user = u
        BY DEF Call, Stage, Account
    <2>2. /\ call' = [call EXCEPT ![r] = c] /\ UNCHANGED <<born, account, complete, open, tokens, races>>
          /\ u \in DOMAIN account
        BY <1>4 DEF ReadUser, Exists
    <2> HIDE DEF c
    <2>3. call' \in [Request -> Call] /\ Born'
        BY <2>1, <2>2, CallTyped DEF Born, Typed, TypeOK
    <2> QED
        BY <2>2, <2>3 DEF Typed, TypeOK, Call
<1> QED
    BY <1>1, <1>2, <1>3, <1>4 DEF UserStep

\* So do requests on the configuration, and the reset.
LEMMA ConfigTyped ==
    ASSUME Typed, NEW r \in Request, ConfigStep(r)
    PROVE  Typed'
<1>1. CASE SaveConfig(r)
    <2>1. complete' \in BOOLEAN /\ At(r, "done") /\ UNCHANGED <<born, account, open, tokens, races>>
        BY <1>1 DEF SaveConfig, Typed, TypeOK
    <2>2. call' \in [Request -> Call] /\ Born'
        BY <2>1, AtTyped, "done" \in Stage DEF Born, Typed, Stage
    <2> QED
        BY <2>1, <2>2 DEF Typed, TypeOK, Call
<1>2. ASSUME NEW a \in User, ResetSetup(r, a)
      PROVE  Typed'
    <2>1. /\ account' = [v \in {} |-> Nobody] /\ tokens' = [u \in User |-> 0]
          /\ complete' = FALSE /\ At(r, "done") /\ UNCHANGED <<born, open>>
        BY <1>2 DEF ResetSetup
    <2>2. races' \subseteq Race
        BY <1>2, NoteTyped, "reset" \in Race DEF ResetSetup, Race
    <2>3. call' \in [Request -> Call] /\ Born'
        BY <2>1, AtTyped, "done" \in Stage DEF Born, Typed, Stage
    <2>4. account' \in [DOMAIN account' -> Account] /\ DOMAIN account' \subseteq born'
        BY <2>1
    <2> QED
        BY <2>1, <2>2, <2>3, <2>4 DEF Typed, TypeOK, Call
<1>3. ASSUME NEW a \in User, AllowConfig(r, a)
      PROVE  Typed'
    <2> DEFINE c == [at |-> "allowed", user |-> a, copy |-> Nobody, complete |-> TRUE]
    <2>1. c \in Call /\ c.at = "allowed"
        BY DEF Call, Stage, Account, Role, Nobody
    <2>2. call' = [call EXCEPT ![r] = c] /\ UNCHANGED <<born, account, complete, open, tokens, races>>
        BY <1>3 DEF AllowConfig
    <2> HIDE DEF c
    <2>3. call' \in [Request -> Call] /\ Born'
        BY <2>1, <2>2, CallTyped DEF Born, Typed
    <2> QED
        BY <2>2, <2>3 DEF Typed, TypeOK, Call
<1>4. ASSUME NEW set \in BOOLEAN, ReadConfig(r, set)
      PROVE  Typed'
    <2> DEFINE c == [at |-> "config", user |-> call[r].user, copy |-> Nobody, complete |-> complete \/ set]
    <2>1. c \in Call /\ c.at = "config"
        BY DEF Call, Stage, Account, Role, Nobody, Typed, TypeOK
    <2>2. call' = [call EXCEPT ![r] = c] /\ UNCHANGED <<born, account, complete, open, tokens, races>>
        BY <1>4 DEF ReadConfig
    <2> HIDE DEF c
    <2>3. call' \in [Request -> Call] /\ Born'
        BY <2>1, <2>2, CallTyped DEF Born, Typed
    <2> QED
        BY <2>2, <2>3 DEF Typed, TypeOK, Call
<1> QED
    BY <1>1, <1>2, <1>3, <1>4 DEF ConfigStep

\* And those on tokens.
LEMMA TokenTyped ==
    ASSUME Typed, NEW r \in Request, TokenStep(r)
    PROVE  Typed'
<1>1. CASE MintToken(r)
    <2>1. At(r, "done") /\ UNCHANGED <<born, account, complete, open, races>>
        BY <1>1 DEF MintToken
    <2>2. tokens' \in [User -> Nat]
        BY <1>1 DEF MintToken, Typed, TypeOK
    <2>3. call' \in [Request -> Call] /\ Born'
        BY <2>1, AtTyped, "done" \in Stage DEF Born, Typed, Stage
    <2> QED
        BY <2>1, <2>2, <2>3 DEF Typed, TypeOK, Call
<1>2. ASSUME NEW u \in User, CountTokens(r, u)
      PROVE  Typed'
    <2> DEFINE c == [at |-> "counted", user |-> u, copy |-> Nobody, complete |-> TRUE]
    <2>1. c \in Call /\ c.at = "counted"
        BY DEF Call, Stage, Account, Role, Nobody
    <2>2. call' = [call EXCEPT ![r] = c] /\ UNCHANGED <<born, account, complete, open, tokens>>
        BY <1>2 DEF CountTokens
    <2>3. races' \subseteq Race
        BY <1>2, NoteTyped, "tokens" \in Race DEF CountTokens, Race
    <2> HIDE DEF c
    <2>4. call' \in [Request -> Call] /\ Born'
        BY <2>1, <2>2, CallTyped DEF Born, Typed
    <2> QED
        BY <2>2, <2>3, <2>4 DEF Typed, TypeOK, Call
<1>3. ASSUME NEW u \in User, RevokeToken(r, u)
      PROVE  Typed'
    <2>1. At(r, "done") /\ UNCHANGED <<born, account, complete, open, races>>
        BY <1>3 DEF RevokeToken
    <2>2. tokens' \in [User -> Nat]
        BY <1>3 DEF RevokeToken, Typed, TypeOK
    <2>3. call' \in [Request -> Call] /\ Born'
        BY <2>1, AtTyped, "done" \in Stage DEF Born, Typed, Stage
    <2> QED
        BY <2>1, <2>2, <2>3 DEF Typed, TypeOK, Call
<1> QED
    BY <1>1, <1>2, <1>3 DEF TokenStep

\* Every step keeps the types.
LEMMA NextTyped == Typed /\ [Next]_vars => Typed'
<1> SUFFICES ASSUME Typed, [Next]_vars PROVE Typed'
    OBVIOUS
<1>1. CASE UNCHANGED vars
    BY <1>1 DEF Typed, TypeOK, Born, vars
<1>2. CASE WindowCloses \/ WindowReopens
    BY <1>2 DEF WindowCloses, WindowReopens, Typed, TypeOK, Born
<1> QED
    BY <1>1, <1>2, SetupTyped, UserTyped, ConfigTyped, TokenTyped DEF Next

\* Every variable keeps its type, through saves of rows that are gone or stale.
THEOREM TypeCorrect == Spec => []TypeOK
<1>1. Typed => TypeOK
    BY DEF Typed
<1> QED
    BY <1>1, InitTyped, NextTyped, PTL DEF Spec

-----------------------------------------------------------------------------
(* The Owner and the state of set-up.                                      *)

ToOwner == {r \in Request : call[r].at \in {"checked", "clear"}}
Clear == {r \in Request : call[r].at = "clear"}
ToOther == {r \in Request : call[r].at = "user"}
Configuring == {r \in Request : call[r].at \in {"allowed", "config"}}

\* What requests are about to write, and whom: an Owner's row stays an Owner's, and
\* nobody else's row becomes one but the wizard's own.
Rows ==
    /\ \A r \in ToOwner : /\ call[r].copy.role = "owner"
                          /\ call[r].user \in Owners \/ call[r].user \notin DOMAIN account
    /\ \A r \in ToOther : call[r].copy.role # "owner" /\ call[r].user \notin Owners
    /\ \A q \in ToOther, r \in ToOwner : call[q].user # call[r].user

\* As long as no two requests have passed the check together.
OneOwner == "owners" \notin races =>
    /\ \A u, v \in Owners : u = v
    /\ \A q \in Clear : Owners \subseteq {call[q].user}
    /\ \A q, r \in Clear : q = r

\* As long as no reset has overtaken a request.
InStep == "reset" \notin races =>
    /\ complete <=> Owners # {}
    /\ \A r \in ToOwner : call[r].complete => call[r].user \in Owners
    /\ \A r \in Configuring : call[r].complete /\ Owners # {}

Ownership == Rows /\ OneOwner /\ InStep

\* The Owners after a row is written.
LEMMA PutOwners ==
    ASSUME Typed, NEW u \in User, NEW row \in Account, account' = Put(u, row)
    PROVE  /\ row.role = "owner" => Owners' = Owners \cup {u}
           /\ row.role # "owner" => Owners' = Owners \ {u}
           /\ DOMAIN account' = DOMAIN account \cup {u}
<1>1. account' = [v \in DOMAIN account \cup {u} |-> IF v = u THEN row ELSE account[v]]
    BY DEF Put
<1>2. DOMAIN account' = DOMAIN account \cup {u} /\ account'[u] = row
      /\ \A v \in DOMAIN account \ {u} : account'[v] = account[v]
    BY <1>1
<1> QED
    BY <1>2 DEF Owners

\* The sets of requests after one of them has moved.
LEMMA Moved ==
    ASSUME Typed, NEW r \in Request, call' \in [Request -> Call],
           \A q \in Request : q # r => call'[q] = call[q]
    PROVE  /\ ToOwner' = (ToOwner \ {r}) \cup {q \in {r} : call'[q].at \in {"checked", "clear"}}
           /\ Clear' = (Clear \ {r}) \cup {q \in {r} : call'[q].at = "clear"}
           /\ ToOther' = (ToOther \ {r}) \cup {q \in {r} : call'[q].at = "user"}
           /\ Configuring' = (Configuring \ {r}) \cup {q \in {r} : call'[q].at \in {"allowed", "config"}}
BY DEF ToOwner, Clear, ToOther, Configuring

\* A request that ends, with accounts and set-up as they were, takes nothing away.
LEMMA EndOwnership ==
    ASSUME Typed, Ownership, NEW r \in Request, call' \in [Request -> Call],
           \A q \in Request : q # r => call'[q] = call[q],
           call'[r].at \in {"done", "counted"},
           UNCHANGED <<account, complete>>,
           "owners" \in races => "owners" \in races', "reset" \in races => "reset" \in races'
    PROVE  Ownership'
<1>1. /\ ToOwner' = ToOwner \ {r} /\ Clear' = Clear \ {r}
      /\ ToOther' = ToOther \ {r} /\ Configuring' = Configuring \ {r}
    BY Moved
<1>2. Owners' = Owners /\ DOMAIN account' = DOMAIN account
    BY DEF Owners
<1>3. \A q \in (ToOwner \cup Clear \cup ToOther \cup Configuring) \ {r} : call'[q] = call[q]
    BY DEF ToOwner, Clear, ToOther, Configuring
<1>4. Rows'
    BY <1>1, <1>2, <1>3 DEF Ownership, Rows
<1>5. OneOwner'
    BY <1>1, <1>2, <1>3 DEF Ownership, OneOwner
<1>6. InStep'
    BY <1>1, <1>2, <1>3 DEF Ownership, InStep
<1> QED
    BY <1>4, <1>5, <1>6 DEF Ownership

\* The wizard, and the edit of an Owner.
LEMMA SetupOwnership ==
    ASSUME Typed, Ownership, NEW r \in Request, SetupStep(r)
    PROVE  Ownership'
<1>1. ASSUME NEW u \in User, CheckSetup(r, u)
      PROVE  Ownership'
    <2> DEFINE c == [at |-> "checked", user |-> u, complete |-> FALSE,
                     copy |-> [role |-> "owner", active |-> TRUE]]
    <2>1. /\ c \in Call /\ c.at = "checked" /\ c.user = u /\ ~c.complete /\ c.copy.role = "owner"
        BY DEF Call, Stage, Account, Role
    <2>2. /\ call' = [call EXCEPT ![r] = c] /\ u \notin born /\ call[r].at = "none"
          /\ UNCHANGED <<account, complete, open, tokens, races>>
        BY <1>1 DEF CheckSetup
    <2> HIDE DEF c
    <2>3. call' \in [Request -> Call] /\ call'[r] = c /\ \A q \in Request : q # r => call'[q] = call[q]
        BY <2>1, <2>2, CallTyped
    <2>4. /\ ToOwner' = (ToOwner \ {r}) \cup {r} /\ Clear' = Clear \ {r}
          /\ ToOther' = ToOther \ {r} /\ Configuring' = Configuring \ {r}
        BY <2>1, <2>3, Moved
    <2>5. Owners' = Owners /\ DOMAIN account' = DOMAIN account
        BY <2>2 DEF Owners
    <2>6. u \notin DOMAIN account /\ \A q \in ToOther : call[q].user # u
        BY <2>2 DEF Typed, TypeOK, Born, ToOther
    <2>7. \A q \in (ToOwner \cup Clear \cup ToOther \cup Configuring) \ {r} : call'[q] = call[q]
        BY <2>3 DEF ToOwner, Clear, ToOther, Configuring
    <2>8. Rows'
        BY <2>1, <2>3, <2>4, <2>5, <2>6, <2>7 DEF Ownership, Rows
    <2>9. OneOwner'
        BY <2>2, <2>4, <2>5, <2>7 DEF Ownership, OneOwner
    <2>10. InStep'
        BY <2>1, <2>2, <2>3, <2>4, <2>5, <2>7 DEF Ownership, InStep
    <2> QED
        BY <2>8, <2>9, <2>10 DEF Ownership
<1>2. CASE CheckClash(r)
    <2>0. call[r].at = "checked" /\ UNCHANGED <<born, account, complete, open, tokens>>
        BY <1>2 DEF CheckClash
    <2>1. CASE Owners \subseteq {call[r].user}
        <3>1. Note("owners", \E q \in Request : call[q].at = "clear") /\ At(r, "clear")
            BY <1>2, <2>1 DEF CheckClash
        <3>2. /\ call' \in [Request -> Call] /\ call'[r].at = "clear" /\ call'[r].user = call[r].user
              /\ \A q \in Request : q # r => call'[q] = call[q]
            BY <3>1, AtTyped, "clear" \in Stage DEF Stage
        <3>3. call'[r].copy = call[r].copy /\ call'[r].complete = call[r].complete
            BY <3>1 DEF At, Typed, TypeOK
        <3>4. /\ ToOwner' = ToOwner /\ r \in ToOwner /\ Clear' = (Clear \ {r}) \cup {r}
              /\ ToOther' = ToOther \ {r} /\ Configuring' = Configuring \ {r}
            BY <2>0, <3>2, Moved DEF ToOwner
        <3>5. Owners' = Owners /\ DOMAIN account' = DOMAIN account
            BY <2>0 DEF Owners
        <3>6. \A q \in ToOwner \cup ToOther \cup Configuring :
                 /\ call'[q].user = call[q].user /\ call'[q].copy = call[q].copy
                 /\ call'[q].complete = call[q].complete
            BY <3>2, <3>3 DEF ToOwner, ToOther, Configuring
        <3>7. /\ "owners" \notin races' => "owners" \notin races /\ Clear = {}
              /\ "reset" \in races => "reset" \in races'
            BY <3>1, NoteTyped, "owners" \in Race DEF Race, Clear, Note
        <3>8. Rows'
            BY <3>4, <3>5, <3>6 DEF Ownership, Rows
        <3>9. OneOwner'
            BY <2>1, <3>2, <3>4, <3>5, <3>7 DEF Ownership, OneOwner
        <3>10. InStep'
            BY <2>0, <3>4, <3>5, <3>6, <3>7 DEF Ownership, InStep
        <3> QED
            BY <3>8, <3>9, <3>10 DEF Ownership
    <2>2. CASE ~(Owners \subseteq {call[r].user})
        <3>1. At(r, "done") /\ races' = races
            BY <1>2, <2>2 DEF CheckClash
        <3>2. /\ call' \in [Request -> Call] /\ call'[r].at = "done"
              /\ \A q \in Request : q # r => call'[q] = call[q]
            BY <3>1, AtTyped, "done" \in Stage DEF Stage
        <3> QED
            BY <2>0, <3>1, <3>2, EndOwnership
    <2> QED
        BY <2>1, <2>2
<1>3. CASE WriteOwner(r)
    <2>a. r \in Clear /\ r \in ToOwner
        BY <1>3 DEF WriteOwner, Clear, ToOwner
    <2>o. call[r].copy.role = "owner"
        BY <2>a DEF Ownership, Rows
    <2>b. \A q \in ToOther : call[q].user # call[r].user
        BY <2>a DEF Ownership, Rows
    <2> DEFINE u == call[r].user
    <2>1. u \in User /\ call[r].copy \in Account
        BY DEF Typed, TypeOK
    <2>2. /\ account' = Put(u, call[r].copy) /\ complete' = (complete \/ ~call[r].complete)
          /\ At(r, "done") /\ UNCHANGED <<born, open, tokens, races>>
        BY <1>3 DEF WriteOwner
    <2>3. Owners' = Owners \cup {u} /\ DOMAIN account' = DOMAIN account \cup {u}
        BY <2>1, <2>2, <2>o, PutOwners
    <2>4. /\ call' \in [Request -> Call] /\ call'[r].at = "done"
          /\ \A q \in Request : q # r => call'[q] = call[q]
        BY <2>2, AtTyped, "done" \in Stage DEF Stage
    <2>5. /\ ToOwner' = ToOwner \ {r} /\ Clear' = Clear \ {r}
          /\ ToOther' = ToOther \ {r} /\ Configuring' = Configuring \ {r}
        BY <2>4, Moved
    <2>6. \A q \in (ToOwner \cup Clear \cup ToOther \cup Configuring) \ {r} : call'[q] = call[q]
        BY <2>4 DEF ToOwner, Clear, ToOther, Configuring
    <2>8. call[r].complete \in BOOLEAN
        BY DEF Typed, TypeOK
    <2> HIDE DEF u
    <2>9. Rows'
        <3>0. \A q \in ToOwner' : q \in ToOwner /\ call'[q] = call[q]
            BY <2>5, <2>6
        <3>a. \A q \in ToOwner : /\ call[q].copy.role = "owner"
                                 /\ call[q].user \in Owners \/ call[q].user \notin DOMAIN account
            BY DEF Ownership, Rows
        <3>1. \A q \in ToOwner' : /\ call'[q].copy.role = "owner"
                                  /\ call'[q].user \in Owners' \/ call'[q].user \notin DOMAIN account'
            BY <2>3, <3>0, <3>a
        <3>2. \A q \in ToOther' : call'[q].copy.role # "owner" /\ call'[q].user \notin Owners'
            BY <2>3, <2>5, <2>6, <2>b DEF Ownership, Rows, u
        <3>3. \A p \in ToOther', q \in ToOwner' : call'[p].user # call'[q].user
            BY <2>5, <2>6 DEF Ownership, Rows
        <3> QED
            BY <3>1, <3>2, <3>3 DEF Rows
    <2>10. "owners" \notin races => Owners \subseteq {u} /\ Clear = {r}
        BY <2>a DEF Ownership, OneOwner, u
    <2>11. OneOwner'
        BY <2>2, <2>3, <2>5, <2>10 DEF OneOwner
    <2>12. "reset" \notin races => complete'
        BY <2>a, <2>2, <2>8 DEF Ownership, InStep
    <2>13. InStep'
        BY <2>2, <2>3, <2>5, <2>6, <2>12 DEF Ownership, InStep
    <2> QED
        BY <2>9, <2>11, <2>13 DEF Ownership
<1> QED
    BY <1>1, <1>2, <1>3 DEF SetupStep

\* Users created, edited, saved and deleted.
LEMMA UserOwnership ==
    ASSUME Typed, Ownership, NEW r \in Request, UserStep(r)
    PROVE  Ownership'
<1>1. CASE SaveUser(r)
    <2> DEFINE u == call[r].user
    <2>1. r \in ToOther /\ u \in User /\ call[r].copy \in Account
        BY <1>1 DEF SaveUser, Typed, TypeOK, ToOther
    <2>2. call[r].copy.role # "owner" /\ u \notin Owners /\ \A q \in ToOwner : call[q].user # u
        BY <2>1 DEF Ownership, Rows
    <2>3. /\ account' = Put(u, call[r].copy) /\ At(r, "done")
          /\ UNCHANGED <<born, complete, open, tokens, races>>
        BY <1>1 DEF SaveUser
    <2>o. Owners' = Owners \ {u} /\ DOMAIN account' = DOMAIN account \cup {u}
        BY <2>1, <2>2, <2>3, PutOwners
    <2>4. Owners' = Owners /\ DOMAIN account' = DOMAIN account \cup {u}
        BY <2>2, <2>o
    <2>5. /\ call' \in [Request -> Call] /\ call'[r].at = "done"
          /\ \A q \in Request : q # r => call'[q] = call[q]
        BY <2>3, AtTyped, "done" \in Stage DEF Stage
    <2>6. /\ ToOwner' = ToOwner \ {r} /\ Clear' = Clear \ {r}
          /\ ToOther' = ToOther \ {r} /\ Configuring' = Configuring \ {r}
        BY <2>5, Moved
    <2>7. \A q \in (ToOwner \cup Clear \cup ToOther \cup Configuring) \ {r} : call'[q] = call[q]
        BY <2>5 DEF ToOwner, Clear, ToOther, Configuring
    <2> HIDE DEF u
    <2>8. Rows'
        BY <2>2, <2>4, <2>6, <2>7 DEF Ownership, Rows
    <2>9. OneOwner'
        BY <2>3, <2>4, <2>6, <2>7 DEF Ownership, OneOwner
    <2>10. InStep'
        BY <2>3, <2>4, <2>6, <2>7 DEF Ownership, InStep
    <2> QED
        BY <2>8, <2>9, <2>10 DEF Ownership
<1>2. ASSUME NEW a \in User, NEW u \in User, DeleteUser(r, a, u)
      PROVE  Ownership'
    <2>1. /\ account' = [v \in DOMAIN account \ {u} |-> account[v]] /\ At(r, "done")
          /\ u \notin Owners /\ UNCHANGED <<born, complete, open, races>>
        BY <1>2 DEF DeleteUser
    <2>2. DOMAIN account' = DOMAIN account \ {u} /\ Owners' = Owners
        BY <2>1 DEF Owners
    <2>3. /\ call' \in [Request -> Call] /\ call'[r].at = "done"
          /\ \A q \in Request : q # r => call'[q] = call[q]
        BY <2>1, AtTyped, "done" \in Stage DEF Stage
    <2>4. /\ ToOwner' = ToOwner \ {r} /\ Clear' = Clear \ {r}
          /\ ToOther' = ToOther \ {r} /\ Configuring' = Configuring \ {r}
        BY <2>3, Moved
    <2>5. \A q \in (ToOwner \cup Clear \cup ToOther \cup Configuring) \ {r} : call'[q] = call[q]
        BY <2>3 DEF ToOwner, Clear, ToOther, Configuring
    <2>6. Rows'
        BY <2>2, <2>4, <2>5 DEF Ownership, Rows
    <2>7. OneOwner'
        BY <2>1, <2>2, <2>4, <2>5 DEF Ownership, OneOwner
    <2>8. InStep'
        BY <2>1, <2>2, <2>4, <2>5 DEF Ownership, InStep
    <2> QED
        BY <2>6, <2>7, <2>8 DEF Ownership
<1>3. ASSUME NEW a \in User, NEW u \in User, NEW role \in Role, NEW active \in BOOLEAN,
             CreateUser(r, a, u, role, active)
      PROVE  Ownership'
    <2> DEFINE c == [at |-> "user", user |-> u, complete |-> TRUE,
                     copy |-> [role |-> role, active |-> active]]
    <2> DEFINE row == [role |-> "viewer", active |-> TRUE]
    <2>1. role # "owner" /\ u \notin born
        BY <1>3 DEF CreateUser
    <2>2. /\ call' = [call EXCEPT ![r] = c] /\ account' = Put(u, row)
          /\ UNCHANGED <<complete, open, tokens, races>>
        BY <1>3 DEF CreateUser
    <2>3. /\ c \in Call /\ c.at = "user" /\ c.user = u /\ c.copy.role # "owner"
          /\ row \in Account /\ row.role # "owner"
        BY <2>1 DEF Call, Stage, Account, Role
    <2> HIDE DEF c, row
    <2>4. call' \in [Request -> Call] /\ call'[r] = c /\ \A q \in Request : q # r => call'[q] = call[q]
        BY <2>2, <2>3, CallTyped
    <2>5. /\ ToOwner' = ToOwner \ {r} /\ Clear' = Clear \ {r}
          /\ ToOther' = (ToOther \ {r}) \cup {r} /\ Configuring' = Configuring \ {r}
        BY <2>3, <2>4, Moved
    <2>6. u \notin Owners /\ u \notin DOMAIN account /\ \A q \in ToOwner : call[q].user # u
        BY <2>1 DEF Typed, TypeOK, Born, ToOwner, Owners
    <2>o. Owners' = Owners \ {u} /\ DOMAIN account' = DOMAIN account \cup {u}
        BY <2>2, <2>3, PutOwners
    <2>7. Owners' = Owners /\ DOMAIN account' = DOMAIN account \cup {u}
        BY <2>6, <2>o
    <2>8. \A q \in (ToOwner \cup Clear \cup ToOther \cup Configuring) \ {r} : call'[q] = call[q]
        BY <2>4 DEF ToOwner, Clear, ToOther, Configuring
    <2>9. Rows'
        BY <2>3, <2>4, <2>5, <2>6, <2>7, <2>8 DEF Ownership, Rows
    <2>10. OneOwner'
        BY <2>2, <2>5, <2>7, <2>8 DEF Ownership, OneOwner
    <2>11. InStep'
        BY <2>2, <2>5, <2>7, <2>8 DEF Ownership, InStep
    <2> QED
        BY <2>9, <2>10, <2>11 DEF Ownership
<1>4. ASSUME NEW a \in User, NEW u \in User, NEW role \in Role, NEW active \in BOOLEAN,
             ReadUser(r, a, u, role, active)
      PROVE  Ownership'
    <2> DEFINE c == [at |-> IF role = "owner" THEN "checked" ELSE "user",
                     user |-> u, complete |-> TRUE, copy |-> [role |-> role, active |-> active]]
    <2>1. /\ u \in DOMAIN account /\ (role = "owner" <=> u \in Owners)
          /\ UNCHANGED <<born, account, complete, open, tokens, races>>
        BY <1>4 DEF ReadUser, Exists, Owners
    <2>2. call' = [call EXCEPT ![r] = c]
        BY <1>4 DEF ReadUser
    <2>3. /\ c \in Call /\ c.user = u /\ c.copy.role = role
          /\ role = "owner" => c.at = "checked"
          /\ role # "owner" => c.at = "user"
        BY DEF Call, Stage, Account
    <2> HIDE DEF c
    <2>4. call' \in [Request -> Call] /\ call'[r] = c /\ \A q \in Request : q # r => call'[q] = call[q]
        BY <2>2, <2>3, CallTyped
    <2>5. Owners' = Owners /\ DOMAIN account' = DOMAIN account
        BY <2>1 DEF Owners
    <2>6. \A q \in (ToOwner \cup Clear \cup ToOther \cup Configuring) \ {r} : call'[q] = call[q]
        BY <2>4 DEF ToOwner, Clear, ToOther, Configuring
    <2>7. CASE role = "owner"
        <3>1. /\ ToOwner' = (ToOwner \ {r}) \cup {r} /\ Clear' = Clear \ {r}
              /\ ToOther' = ToOther \ {r} /\ Configuring' = Configuring \ {r}
            BY <2>3, <2>4, <2>7, Moved
        <3>2. Rows'
            BY <2>1, <2>3, <2>4, <2>5, <2>6, <2>7, <3>1 DEF Ownership, Rows
        <3>3. OneOwner'
            BY <2>1, <2>5, <2>6, <3>1 DEF Ownership, OneOwner
        <3>4. InStep'
            BY <2>1, <2>3, <2>4, <2>5, <2>6, <2>7, <3>1 DEF Ownership, InStep
        <3> QED
            BY <3>2, <3>3, <3>4 DEF Ownership
    <2>8. CASE role # "owner"
        <3>1. /\ ToOwner' = ToOwner \ {r} /\ Clear' = Clear \ {r}
              /\ ToOther' = (ToOther \ {r}) \cup {r} /\ Configuring' = Configuring \ {r}
            BY <2>3, <2>4, <2>8, Moved
        <3>2. Rows'
            BY <2>1, <2>3, <2>4, <2>5, <2>6, <2>8, <3>1 DEF Ownership, Rows
        <3>3. OneOwner'
            BY <2>1, <2>5, <2>6, <3>1 DEF Ownership, OneOwner
        <3>4. InStep'
            BY <2>1, <2>5, <2>6, <3>1 DEF Ownership, InStep
        <3> QED
            BY <3>2, <3>3, <3>4 DEF Ownership
    <2> QED
        BY <2>7, <2>8
<1> QED
    BY <1>1, <1>2, <1>3, <1>4 DEF UserStep

\* The configuration and the reset.
LEMMA ConfigOwnership ==
    ASSUME Typed, Ownership, NEW r \in Request, ConfigStep(r)
    PROVE  Ownership'
<1>1. CASE SaveConfig(r)
    <2>1. /\ r \in Configuring /\ complete' = call[r].complete /\ At(r, "done")
          /\ UNCHANGED <<born, account, open, tokens, races>>
        BY <1>1 DEF SaveConfig, Configuring
    <2>2. /\ call' \in [Request -> Call] /\ call'[r].at = "done"
          /\ \A q \in Request : q # r => call'[q] = call[q]
        BY <2>1, AtTyped, "done" \in Stage DEF Stage
    <2>3. /\ ToOwner' = ToOwner \ {r} /\ Clear' = Clear \ {r}
          /\ ToOther' = ToOther \ {r} /\ Configuring' = Configuring \ {r}
        BY <2>2, Moved
    <2>4. Owners' = Owners /\ DOMAIN account' = DOMAIN account
        BY <2>1 DEF Owners
    <2>5. \A q \in (ToOwner \cup Clear \cup ToOther \cup Configuring) \ {r} : call'[q] = call[q]
        BY <2>2 DEF ToOwner, Clear, ToOther, Configuring
    <2>6. Rows'
        BY <2>3, <2>4, <2>5 DEF Ownership, Rows
    <2>7. OneOwner'
        BY <2>1, <2>3, <2>4, <2>5 DEF Ownership, OneOwner
    <2>8. InStep'
        BY <2>1, <2>3, <2>4, <2>5 DEF Ownership, InStep
    <2> QED
        BY <2>6, <2>7, <2>8 DEF Ownership
<1>2. ASSUME NEW a \in User, ResetSetup(r, a)
      PROVE  Ownership'
    <2> DEFINE overtakes == \E q \in Request : call[q].at \in {"checked", "clear", "user", "allowed", "config"}
    <2>1. /\ account' = [v \in {} |-> Nobody] /\ complete' = FALSE /\ At(r, "done")
          /\ Note("reset", overtakes)
        BY <1>2 DEF ResetSetup
    <2>2. Owners' = {} /\ DOMAIN account' = {}
        BY <2>1 DEF Owners
    <2>3. /\ "reset" \notin races' => ToOwner = {} /\ Configuring = {}
          /\ "owners" \notin races' => "owners" \notin races
        BY <2>1 DEF Note, ToOwner, Configuring
    <2>4. /\ call' \in [Request -> Call] /\ call'[r].at = "done"
          /\ \A q \in Request : q # r => call'[q] = call[q]
        BY <2>1, AtTyped, "done" \in Stage DEF Stage
    <2>5. /\ ToOwner' = ToOwner \ {r} /\ Clear' = Clear \ {r}
          /\ ToOther' = ToOther \ {r} /\ Configuring' = Configuring \ {r}
        BY <2>4, Moved
    <2>6. \A q \in (ToOwner \cup Clear \cup ToOther \cup Configuring) \ {r} : call'[q] = call[q]
        BY <2>4 DEF ToOwner, Clear, ToOther, Configuring
    <2>7. Rows'
        BY <2>2, <2>5, <2>6 DEF Ownership, Rows
    <2>8. OneOwner'
        BY <2>2, <2>3, <2>5 DEF Ownership, OneOwner
    <2>9. InStep'
        BY <2>1, <2>2, <2>3, <2>5 DEF InStep
    <2> QED
        BY <2>7, <2>8, <2>9 DEF Ownership
<1>3. ASSUME NEW a \in User, AllowConfig(r, a)
      PROVE  Ownership'
    <2> DEFINE c == [at |-> "allowed", user |-> a, copy |-> Nobody, complete |-> TRUE]
    <2>1. /\ call' = [call EXCEPT ![r] = c] /\ Owners # {}
          /\ UNCHANGED <<born, account, complete, open, tokens, races>>
        BY <1>3 DEF AllowConfig, Manages
    <2>2. c \in Call /\ c.at = "allowed" /\ c.complete
        BY DEF Call, Stage, Account, Role, Nobody, Typed, TypeOK
    <2> HIDE DEF c
    <2>3. call' \in [Request -> Call] /\ call'[r] = c /\ \A q \in Request : q # r => call'[q] = call[q]
        BY <2>1, <2>2, CallTyped
    <2>4. /\ ToOwner' = ToOwner \ {r} /\ Clear' = Clear \ {r}
          /\ ToOther' = ToOther \ {r} /\ Configuring' = (Configuring \ {r}) \cup {r}
        BY <2>2, <2>3, Moved
    <2>5. Owners' = Owners /\ DOMAIN account' = DOMAIN account
        BY <2>1 DEF Owners
    <2>6. \A q \in (ToOwner \cup Clear \cup ToOther \cup Configuring) \ {r} : call'[q] = call[q]
        BY <2>3 DEF ToOwner, Clear, ToOther, Configuring
    <2>7. Rows'
        BY <2>4, <2>5, <2>6 DEF Ownership, Rows
    <2>8. OneOwner'
        BY <2>1, <2>4, <2>5, <2>6 DEF Ownership, OneOwner
    <2>9. InStep'
        BY <2>1, <2>2, <2>3, <2>4, <2>5, <2>6 DEF Ownership, InStep
    <2> QED
        BY <2>7, <2>8, <2>9 DEF Ownership
<1>4. ASSUME NEW set \in BOOLEAN, ReadConfig(r, set)
      PROVE  Ownership'
    <2> DEFINE c == [at |-> "config", user |-> call[r].user, copy |-> Nobody, complete |-> complete \/ set]
    <2>1. /\ call' = [call EXCEPT ![r] = c] /\ r \in Configuring
          /\ UNCHANGED <<born, account, complete, open, tokens, races>>
        BY <1>4 DEF ReadConfig, Configuring
    <2>2. c \in Call /\ c.at = "config" /\ (complete => c.complete)
        BY DEF Call, Stage, Account, Role, Nobody, Typed, TypeOK
    <2> HIDE DEF c
    <2>3. call' \in [Request -> Call] /\ call'[r] = c /\ \A q \in Request : q # r => call'[q] = call[q]
        BY <2>1, <2>2, CallTyped
    <2>4. /\ ToOwner' = ToOwner \ {r} /\ Clear' = Clear \ {r}
          /\ ToOther' = ToOther \ {r} /\ Configuring' = (Configuring \ {r}) \cup {r}
        BY <2>2, <2>3, Moved
    <2>5. Owners' = Owners /\ DOMAIN account' = DOMAIN account
        BY <2>1 DEF Owners
    <2>6. \A q \in (ToOwner \cup Clear \cup ToOther \cup Configuring) \ {r} : call'[q] = call[q]
        BY <2>3 DEF ToOwner, Clear, ToOther, Configuring
    <2>7. Rows'
        BY <2>4, <2>5, <2>6 DEF Ownership, Rows
    <2>8. OneOwner'
        BY <2>1, <2>4, <2>5, <2>6 DEF Ownership, OneOwner
    <2>9. InStep'
        BY <2>1, <2>2, <2>3, <2>4, <2>5, <2>6 DEF Ownership, InStep
    <2> QED
        BY <2>7, <2>8, <2>9 DEF Ownership
<1> QED
    BY <1>1, <1>2, <1>3, <1>4 DEF ConfigStep

\* Tokens touch neither.
LEMMA TokenOwnership ==
    ASSUME Typed, Ownership, NEW r \in Request, TokenStep(r)
    PROVE  Ownership'
<1>1. CASE MintToken(r)
    <2>1. At(r, "done") /\ UNCHANGED <<account, complete, races>>
        BY <1>1 DEF MintToken
    <2> QED
        BY <2>1, AtTyped, EndOwnership, "done" \in Stage DEF Stage
<1>2. ASSUME NEW u \in User, CountTokens(r, u)
      PROVE  Ownership'
    <2> DEFINE c == [at |-> "counted", user |-> u, copy |-> Nobody, complete |-> TRUE]
    <2>1. /\ call' = [call EXCEPT ![r] = c] /\ Note("tokens", Counted(u) # {})
          /\ UNCHANGED <<account, complete>>
        BY <1>2 DEF CountTokens
    <2>2. c \in Call /\ c.at = "counted"
        BY DEF Call, Stage, Account, Role, Nobody
    <2> HIDE DEF c
    <2>3. call' \in [Request -> Call] /\ call'[r] = c /\ \A q \in Request : q # r => call'[q] = call[q]
        BY <2>1, <2>2, CallTyped
    <2>4. races \subseteq races'
        BY <2>1 DEF Note
    <2>5. "owners" \in races => "owners" \in races'
        BY <2>4
    <2>6. "reset" \in races => "reset" \in races'
        BY <2>4
    <2>7. call'[r].at \in {"done", "counted"}
        BY <2>2, <2>3
    <2> QED
        BY <2>1, <2>3, <2>5, <2>6, <2>7, EndOwnership
<1>3. ASSUME NEW u \in User, RevokeToken(r, u)
      PROVE  Ownership'
    <2>1. At(r, "done") /\ UNCHANGED <<account, complete, races>>
        BY <1>3 DEF RevokeToken
    <2> QED
        BY <2>1, AtTyped, EndOwnership, "done" \in Stage DEF Stage
<1> QED
    BY <1>1, <1>2, <1>3 DEF TokenStep

\* At first there is no Owner, no request and no set-up.
LEMMA InitOwnership == Init => Ownership
<1> SUFFICES ASSUME Init PROVE Ownership
    OBVIOUS
<1>1. ToOwner = {} /\ Clear = {} /\ ToOther = {} /\ Configuring = {}
    BY DEF Init, ToOwner, Clear, ToOther, Configuring
<1>2. Owners = {} /\ complete = FALSE
    BY DEF Init, Owners
<1> QED
    BY <1>1, <1>2 DEF Ownership, Rows, OneOwner, InStep

\* Every step keeps what requests may write in step with the Owner.
LEMMA NextOwnership == Typed /\ Ownership /\ [Next]_vars => Ownership'
<1> SUFFICES ASSUME Typed, Ownership, [Next]_vars PROVE Ownership'
    OBVIOUS
<1>1. CASE UNCHANGED <<account, complete, call, races>>
    BY <1>1 DEF Ownership, Rows, OneOwner, InStep, ToOwner, Clear, ToOther, Configuring, Owners
<1>2. UNCHANGED vars \/ WindowCloses \/ WindowReopens => UNCHANGED <<account, complete, call, races>>
    BY DEF vars, WindowCloses, WindowReopens
<1> QED
    BY <1>1, <1>2, SetupOwnership, UserOwnership, ConfigOwnership, TokenOwnership DEF Next

\* At most one Owner, whatever saves, resets and further runs of the wizard cross,
\* unless two requests pass the check of User.save() before either writes.
THEOREM NoSecondOwner == Spec => []AtMostOneOwner
<1>1. Ownership => AtMostOneOwner
    BY DEF Ownership, OneOwner, AtMostOneOwner
<1> QED
    BY <1>1, InitTyped, NextTyped, InitOwnership, NextOwnership, PTL DEF Spec

\* The portal says it is set up exactly when it has an Owner, unless a reset
\* overtakes a request that holds older rows.
THEOREM SetupFollowsOwner == Spec => []SetupMatchesOwner
<1>1. Ownership => SetupMatchesOwner
    BY DEF Ownership, InStep, SetupMatchesOwner
<1> QED
    BY <1>1, InitTyped, NextTyped, InitOwnership, NextOwnership, PTL DEF Spec

-----------------------------------------------------------------------------
(* The cap on tokens.                                                      *)

Counting == {r \in Request : call[r].at = "counted"}

\* As long as no two requests count one user's tokens together: each request that
\* has counted is the only one of its user, and has room for the token it mints.
Capped == "tokens" \notin races =>
    /\ \A u \in User : tokens[u] <= MAX_PER_USER
    /\ \A r \in Counting : tokens[call[r].user] < MAX_PER_USER
    /\ \A q, r \in Counting : call[q].user = call[r].user => q = r

\* A request that moves to another stage is not counting, and the others are as before.
LEMMA LeavesCounting ==
    ASSUME Typed, NEW r \in Request, call' \in [Request -> Call], call'[r].at # "counted",
           \A q \in Request : q # r => call'[q] = call[q]
    PROVE  Counting' = Counting \ {r} /\ \A q \in Counting' : call'[q] = call[q]
BY DEF Counting

\* A request that is given a stage or a record is the only one that moves.
LEMMA Leaves ==
    ASSUME Typed, NEW r \in Request,
           \/ \E s \in Stage \ {"counted"} : At(r, s)
           \/ \E c \in Call : c.at # "counted" /\ call' = [call EXCEPT ![r] = c]
    PROVE  call'[r].at # "counted" /\ \A q \in Request : q # r => call'[q] = call[q]
<1>1. ASSUME NEW s \in Stage \ {"counted"}, At(r, s)
      PROVE  call'[r].at # "counted" /\ \A q \in Request : q # r => call'[q] = call[q]
    BY <1>1, AtTyped
<1>2. ASSUME NEW c \in Call, c.at # "counted", call' = [call EXCEPT ![r] = c]
      PROVE  call'[r].at # "counted" /\ \A q \in Request : q # r => call'[q] = call[q]
    BY <1>2, CallTyped
<1> QED
    BY <1>1, <1>2

\* Steps after which a user has no more tokens than before keep the cap.
LEMMA FewerCapped ==
    ASSUME Typed, Capped, tokens' \in [User -> Nat], \A u \in User : tokens'[u] <= tokens[u],
           "tokens" \in races => "tokens" \in races',
           Counting' \subseteq Counting, \A q \in Counting' : call'[q] = call[q]
    PROVE  Capped'
<1>1. MAX_PER_USER \in Nat /\ tokens \in [User -> Nat] /\ \A q \in Counting : call[q].user \in User
    BY AccountsAssumption DEF Typed, TypeOK, Counting
<1> SUFFICES ASSUME "tokens" \notin races' PROVE
        /\ \A u \in User : tokens'[u] <= MAX_PER_USER
        /\ \A r \in Counting' : tokens'[call'[r].user] < MAX_PER_USER
        /\ \A q, r \in Counting' : call'[q].user = call'[r].user => q = r
    BY DEF Capped
<1>2. /\ \A u \in User : tokens[u] <= MAX_PER_USER
      /\ \A r \in Counting : tokens[call[r].user] < MAX_PER_USER
      /\ \A q, r \in Counting : call[q].user = call[r].user => q = r
    BY DEF Capped
<1>3. ASSUME NEW u \in User PROVE tokens'[u] <= MAX_PER_USER
    BY <1>1, <1>2
<1>4. ASSUME NEW r \in Counting' PROVE tokens'[call'[r].user] < MAX_PER_USER
    <2>1. r \in Counting /\ call'[r] = call[r] /\ call[r].user \in User
        BY <1>1
    <2>2. tokens[call[r].user] < MAX_PER_USER /\ tokens'[call[r].user] <= tokens[call[r].user]
        BY <1>2, <2>1
    <2> QED
        BY <1>1, <2>1, <2>2
<1>5. ASSUME NEW q \in Counting', NEW r \in Counting', call'[q].user = call'[r].user PROVE q = r
    BY <1>2, <1>5
<1> QED
    BY <1>3, <1>4, <1>5

\* The wizard.
LEMMA SetupCapped ==
    ASSUME Typed, Capped, NEW r \in Request, SetupStep(r)
    PROVE  Capped'
<1>1. Typed'
    BY SetupTyped
<1>2. tokens' = tokens /\ \A u \in User : tokens[u] \in Nat
    BY DEF SetupStep, CheckSetup, CheckClash, WriteOwner, Typed, TypeOK
<1>3. "tokens" \in races => "tokens" \in races'
    BY DEF SetupStep, CheckSetup, CheckClash, WriteOwner, Note
<1>4. call'[r].at # "counted" /\ \A q \in Request : q # r => call'[q] = call[q]
    <2>1. ASSUME NEW u \in User,
                 CheckSetup(r, u)
          PROVE  call'[r].at # "counted" /\ \A q \in Request : q # r => call'[q] = call[q]
        <3> DEFINE c == [at |-> "checked", user |-> u, complete |-> FALSE,
                         copy |-> [role |-> "owner", active |-> TRUE]]
        <3>1. call' = [call EXCEPT ![r] = c]
            BY <2>1 DEF CheckSetup
        <3>2. c \in Call /\ c.at # "counted"
            BY DEF Call, Stage, Account, Role
        <3> HIDE DEF c
        <3> QED
            BY <3>1, <3>2, Leaves
    <2>2. CASE CheckClash(r)
        <3>1. \E s \in Stage \ {"counted"} : At(r, s)
            BY <2>2 DEF CheckClash, Stage
        <3> QED
            BY <3>1, Leaves
    <2>3. CASE WriteOwner(r)
        <3>1. \E s \in Stage \ {"counted"} : At(r, s)
            BY <2>3 DEF WriteOwner, Stage
        <3> QED
            BY <3>1, Leaves
    <2> QED
        BY <2>1, <2>2, <2>3 DEF SetupStep
<1>5. Counting' = Counting \ {r} /\ \A q \in Counting' : call'[q] = call[q]
    BY <1>1, <1>4, LeavesCounting DEF Typed, TypeOK, Call
<1>6. tokens' \in [User -> Nat]
    BY <1>1 DEF Typed, TypeOK
<1> QED
    BY <1>2, <1>3, <1>5, <1>6, FewerCapped

\* Users.
LEMMA UserCapped ==
    ASSUME Typed, Capped, NEW r \in Request, UserStep(r)
    PROVE  Capped'
<1>1. Typed'
    BY UserTyped
<1>2. \A v \in User : tokens'[v] <= tokens[v]
    <2>1. \A v \in User : tokens[v] \in Nat
        BY DEF Typed, TypeOK
    <2>2. tokens' = tokens \/ \E u \in User : tokens' = [tokens EXCEPT ![u] = 0]
        BY DEF UserStep, SaveUser, DeleteUser, CreateUser, ReadUser
    <2> QED
        BY <2>1, <2>2 DEF Typed, TypeOK
<1>3. races' = races
    BY DEF UserStep, SaveUser, DeleteUser, CreateUser, ReadUser
<1>4. call'[r].at # "counted" /\ \A q \in Request : q # r => call'[q] = call[q]
    <2>1. CASE SaveUser(r)
        <3>1. \E s \in Stage \ {"counted"} : At(r, s)
            BY <2>1 DEF SaveUser, Stage
        <3> QED
            BY <3>1, Leaves
    <2>2. ASSUME NEW a \in User, NEW u \in User, DeleteUser(r, a, u)
          PROVE  call'[r].at # "counted" /\ \A q \in Request : q # r => call'[q] = call[q]
        <3>1. \E s \in Stage \ {"counted"} : At(r, s)
            BY <2>2 DEF DeleteUser, Stage
        <3> QED
            BY <3>1, Leaves
    <2>3. ASSUME NEW a \in User, NEW u \in User, NEW role \in Role, NEW active \in BOOLEAN,
                 CreateUser(r, a, u, role, active)
          PROVE  call'[r].at # "counted" /\ \A q \in Request : q # r => call'[q] = call[q]
        <3> DEFINE c == [at |-> "user", user |-> u, complete |-> TRUE,
                         copy |-> [role |-> role, active |-> active]]
        <3>1. call' = [call EXCEPT ![r] = c]
            BY <2>3 DEF CreateUser
        <3>2. c \in Call /\ c.at # "counted"
            BY DEF Call, Stage, Account, Role
        <3> HIDE DEF c
        <3> QED
            BY <3>1, <3>2, Leaves
    <2>4. ASSUME NEW a \in User, NEW u \in User, NEW role \in Role, NEW active \in BOOLEAN,
                 ReadUser(r, a, u, role, active)
          PROVE  call'[r].at # "counted" /\ \A q \in Request : q # r => call'[q] = call[q]
        <3> DEFINE c == [at |-> IF role = "owner" THEN "checked" ELSE "user",
                         user |-> u, complete |-> TRUE, copy |-> [role |-> role, active |-> active]]
        <3>1. call' = [call EXCEPT ![r] = c]
            BY <2>4 DEF ReadUser
        <3>2. c \in Call /\ c.at # "counted"
            BY DEF Call, Stage, Account, Role
        <3> HIDE DEF c
        <3> QED
            BY <3>1, <3>2, Leaves
    <2> QED
        BY <2>1, <2>2, <2>3, <2>4 DEF UserStep
<1>5. Counting' = Counting \ {r} /\ \A q \in Counting' : call'[q] = call[q]
    BY <1>1, <1>4, LeavesCounting DEF Typed, TypeOK, Call
<1>6. tokens' \in [User -> Nat]
    BY <1>1 DEF Typed, TypeOK
<1> QED
    BY <1>2, <1>3, <1>5, <1>6, FewerCapped

\* The configuration and the reset.
LEMMA ConfigCapped ==
    ASSUME Typed, Capped, NEW r \in Request, ConfigStep(r)
    PROVE  Capped'
<1>1. Typed'
    BY ConfigTyped
<1>2. \A v \in User : tokens'[v] <= tokens[v]
    <2>1. \A v \in User : tokens[v] \in Nat
        BY DEF Typed, TypeOK
    <2>2. tokens' = tokens \/ tokens' = [u \in User |-> 0]
        BY DEF ConfigStep, SaveConfig, ResetSetup, AllowConfig, ReadConfig
    <2> QED
        BY <2>1, <2>2
<1>3. "tokens" \in races => "tokens" \in races'
    BY DEF ConfigStep, SaveConfig, ResetSetup, AllowConfig, ReadConfig, Note
<1>4. call'[r].at # "counted" /\ \A q \in Request : q # r => call'[q] = call[q]
    <2>1. CASE SaveConfig(r)
        <3>1. \E s \in Stage \ {"counted"} : At(r, s)
            BY <2>1 DEF SaveConfig, Stage
        <3> QED
            BY <3>1, Leaves
    <2>2. ASSUME NEW a \in User, ResetSetup(r, a)
          PROVE  call'[r].at # "counted" /\ \A q \in Request : q # r => call'[q] = call[q]
        <3>1. \E s \in Stage \ {"counted"} : At(r, s)
            BY <2>2 DEF ResetSetup, Stage
        <3> QED
            BY <3>1, Leaves
    <2>3. ASSUME NEW a \in User, AllowConfig(r, a)
          PROVE  call'[r].at # "counted" /\ \A q \in Request : q # r => call'[q] = call[q]
        <3> DEFINE c == [at |-> "allowed", user |-> a, copy |-> Nobody, complete |-> TRUE]
        <3>1. call' = [call EXCEPT ![r] = c]
            BY <2>3 DEF AllowConfig
        <3>2. c \in Call /\ c.at # "counted"
            BY DEF Call, Stage, Account, Role, Nobody
        <3> HIDE DEF c
        <3> QED
            BY <3>1, <3>2, Leaves
    <2>4. ASSUME NEW set \in BOOLEAN, ReadConfig(r, set)
          PROVE  call'[r].at # "counted" /\ \A q \in Request : q # r => call'[q] = call[q]
        <3> DEFINE c == [at |-> "config", user |-> call[r].user, copy |-> Nobody, complete |-> complete \/ set]
        <3>1. call' = [call EXCEPT ![r] = c]
            BY <2>4 DEF ReadConfig
        <3>2. c \in Call /\ c.at # "counted"
            BY DEF Call, Stage, Account, Role, Nobody, Typed, TypeOK
        <3> HIDE DEF c
        <3> QED
            BY <3>1, <3>2, Leaves
    <2> QED
        BY <2>1, <2>2, <2>3, <2>4 DEF ConfigStep
<1>5. Counting' = Counting \ {r} /\ \A q \in Counting' : call'[q] = call[q]
    BY <1>1, <1>4, LeavesCounting DEF Typed, TypeOK, Call
<1>6. tokens' \in [User -> Nat]
    BY <1>1 DEF Typed, TypeOK
<1> QED
    BY <1>2, <1>3, <1>5, <1>6, FewerCapped

\* The tokens themselves.
LEMMA TokenCapped ==
    ASSUME Typed, Capped, NEW r \in Request, TokenStep(r)
    PROVE  Capped'
<1>0. Typed' /\ MAX_PER_USER \in Nat
    BY TokenTyped, AccountsAssumption
<1>1. CASE MintToken(r)
    <2> DEFINE u == call[r].user
    <2>1. r \in Counting /\ u \in User /\ tokens \in [User -> Nat]
        BY <1>1 DEF MintToken, Counting, Typed, TypeOK
    <2>2. races' = races /\ call'[r].at = "done" /\ \A q \in Request : q # r => call'[q] = call[q]
        BY <1>1 DEF MintToken, At, Typed, TypeOK
    <2>3. Counting' = Counting \ {r} /\ \A q \in Counting' : call'[q] = call[q]
        BY <1>0, <2>2, LeavesCounting DEF Typed, TypeOK, Call
    <2>4. tokens'[u] <= tokens[u] + 1 /\ \A v \in User \ {u} : tokens'[v] = tokens[v]
        BY <1>1, <2>1 DEF MintToken
    <2>5. tokens' \in [User -> Nat]
        BY <1>0 DEF Typed, TypeOK
    <2>6. \A q \in Counting : call[q].user \in User
        BY DEF Counting, Typed, TypeOK
    <2> SUFFICES ASSUME "tokens" \notin races' PROVE
            /\ \A v \in User : tokens'[v] <= MAX_PER_USER
            /\ \A q \in Counting' : tokens'[call'[q].user] < MAX_PER_USER
            /\ \A p, q \in Counting' : call'[p].user = call'[q].user => p = q
        BY DEF Capped
    <2>7. /\ \A v \in User : tokens[v] <= MAX_PER_USER
          /\ \A q \in Counting : tokens[call[q].user] < MAX_PER_USER
          /\ \A p, q \in Counting : call[p].user = call[q].user => p = q
        BY <2>2 DEF Capped
    <2>a. tokens[u] < MAX_PER_USER
        BY <2>1, <2>7
    <2>b. \A q \in Counting' : q \in Counting /\ call'[q].user = call[q].user /\ call[q].user # u
        BY <2>1, <2>3, <2>7
    <2> HIDE DEF u
    <2>8. ASSUME NEW v \in User PROVE tokens'[v] <= MAX_PER_USER
        <3>1. CASE v = u
            BY <1>0, <2>1, <2>4, <2>5, <2>a, <3>1
        <3>2. CASE v # u
            BY <2>4, <2>7, <3>2
        <3> QED
            BY <3>1, <3>2
    <2>9. ASSUME NEW q \in Counting' PROVE tokens'[call'[q].user] < MAX_PER_USER
        BY <2>4, <2>6, <2>7, <2>b
    <2>10. ASSUME NEW p \in Counting', NEW q \in Counting', call'[p].user = call'[q].user PROVE p = q
        BY <2>7, <2>b, <2>10
    <2> QED
        BY <2>8, <2>9, <2>10
<1>2. ASSUME NEW u \in User, CountTokens(r, u)
      PROVE  Capped'
    <2> DEFINE c == [at |-> "counted", user |-> u, copy |-> Nobody, complete |-> TRUE]
    <2>1. /\ call' = [call EXCEPT ![r] = c] /\ Note("tokens", Counted(u) # {})
          /\ tokens[u] < MAX_PER_USER /\ tokens' = tokens
        BY <1>2 DEF CountTokens
    <2>2. c \in Call /\ c.at = "counted" /\ c.user = u
        BY DEF Call, Stage, Account, Role, Nobody
    <2> HIDE DEF c
    <2>3. call'[r] = c /\ \A q \in Request : q # r => call'[q] = call[q]
        BY <2>1, <2>2, CallTyped
    <2>4. Counting' = Counting \cup {r} /\ \A q \in Counting' : q # r => call'[q] = call[q]
        BY <2>2, <2>3 DEF Counting
    <2>5. "tokens" \notin races' => "tokens" \notin races /\ Counted(u) = {}
        BY <2>1 DEF Note
    <2>6. Counted(u) = {q \in Counting : call[q].user = u}
        BY DEF Counted, Counting
    <2> QED
        BY <2>1, <2>2, <2>3, <2>4, <2>5, <2>6 DEF Capped
<1>3. ASSUME NEW u \in User, RevokeToken(r, u)
      PROVE  Capped'
    <2>1. races' = races /\ call'[r].at = "done" /\ \A q \in Request : q # r => call'[q] = call[q]
        BY <1>3 DEF RevokeToken, At, Typed, TypeOK
    <2>2. \A v \in User : tokens'[v] <= tokens[v]
        BY <1>3 DEF RevokeToken, Typed, TypeOK
    <2>3. Counting' = Counting \ {r} /\ \A q \in Counting' : call'[q] = call[q]
        BY <1>0, <2>1, LeavesCounting DEF Typed, TypeOK, Call
    <2>4. tokens' \in [User -> Nat]
        BY <1>0 DEF Typed, TypeOK
    <2> QED
        BY <2>1, <2>2, <2>3, <2>4, FewerCapped
<1> QED
    BY <1>1, <1>2, <1>3 DEF TokenStep

\* At first there are no tokens and nobody counts.
LEMMA InitCapped == Init => Capped
BY AccountsAssumption DEF Init, Capped, Counting

\* Every step keeps the cap.
LEMMA NextCapped == Typed /\ Capped /\ [Next]_vars => Capped'
<1> SUFFICES ASSUME Typed, Capped, [Next]_vars PROVE Capped'
    OBVIOUS
<1>1. CASE UNCHANGED <<tokens, call, races>>
    BY <1>1 DEF Capped, Counting
<1>2. UNCHANGED vars \/ WindowCloses \/ WindowReopens => UNCHANGED <<tokens, call, races>>
    BY DEF vars, WindowCloses, WindowReopens
<1> QED
    BY <1>1, <1>2, SetupCapped, UserCapped, ConfigCapped, TokenCapped DEF Next

\* The tokens of a user, with those about to be minted, stay within the cap, unless
\* two requests of the user count before either mints.
THEOREM TokensStayCapped == Spec => []TokenCap
<1>1. ASSUME Typed, Capped PROVE TokenCap
    <2> SUFFICES ASSUME "tokens" \notin races, NEW u \in User
                 PROVE  tokens[u] + Cardinality(Counted(u)) <= MAX_PER_USER
        BY DEF TokenCap
    <2>1. tokens[u] \in Nat /\ MAX_PER_USER \in Nat
        BY <1>1, AccountsAssumption DEF Typed, TypeOK
    <2>2. CASE Counted(u) = {}
        BY <1>1, <2>1, <2>2, FS_EmptySet DEF Capped
    <2>3. CASE Counted(u) # {}
        <3>1. PICK r \in Counted(u) : TRUE
            BY <2>3
        <3>2. r \in Counting /\ call[r].user = u
            BY <3>1 DEF Counted, Counting
        <3>3. \A q \in Counted(u) : q = r
            BY <1>1, <3>2 DEF Counted, Counting, Capped
        <3>4. Counted(u) = {r}
            BY <3>1, <3>3
        <3>5. Cardinality(Counted(u)) = 1
            BY <3>4, FS_Singleton
        <3>6. tokens[u] < MAX_PER_USER
            BY <1>1, <3>2 DEF Capped
        <3> QED
            BY <2>1, <3>5, <3>6
    <2> QED
        BY <2>2, <2>3
<1> QED
    BY <1>1, InitTyped, NextTyped, InitCapped, NextCapped, PTL DEF Spec

-----------------------------------------------------------------------------
(* Signing in.                                                             *)

\* What the argument needs of the types: the limits play no part in it.
Sessions ==
    /\ mfa \in BOOLEAN /\ session \in [Browsers -> One!How]
    /\ confirm \in [Browsers -> {"none", "enabled", "ending"}]
    /\ found \in [Browsers -> SUBSET Browsers] /\ left \subseteq Browsers

SignInInv == Sessions /\ One!SecondFactor

\* A step of one browser keeps it.
LEMMA BrowserStep ==
    ASSUME SignInInv, NEW b \in Browsers,
           \/ One!Login(b) \/ One!OpenSession(b) \/ One!ConfirmFails(b) \/ One!Confirm(b)
           \/ One!FindSessions(b) \/ One!EndOther(b) \/ One!Confirmed(b) \/ One!ConfirmDies(b)
           \/ One!LinkLogin(b) \/ One!EndSession(b)
           \/ \E how \in {"code", "backup"} : One!Verify(b, how)
    PROVE  SignInInv'
<1> USE DEF SignInInv, Sessions, One!SecondFactor, One!How, One!Enter, One!confirming
<1>1. CASE One!Login(b)
    BY <1>1 DEF One!Login
<1>2. CASE One!OpenSession(b)
    BY <1>2 DEF One!OpenSession
<1>3. CASE One!ConfirmFails(b)
    BY <1>3 DEF One!ConfirmFails
<1>4. CASE One!Confirm(b)
    BY <1>4 DEF One!Confirm
<1>5. CASE One!LinkLogin(b)
    BY <1>5 DEF One!LinkLogin
<1>6. CASE One!EndSession(b)
    BY <1>6 DEF One!EndSession, One!Over
<1>7. ASSUME NEW how \in {"code", "backup"}, One!Verify(b, how)
      PROVE  SignInInv'
    BY <1>7 DEF One!Verify
<1>o. /\ One!Others(b) \subseteq Browsers
      /\ \A c \in Browsers : session[c] = "password" => c \in One!Others(b)
    BY DEF One!Others, One!Signed
<1>8. CASE One!FindSessions(b)
    <2>1. /\ confirm' = [confirm EXCEPT ![b] = "ending"]
          /\ found' = [found EXCEPT ![b] = One!Others(b)]
          /\ UNCHANGED <<mfa, session, left>>
        BY <1>8 DEF One!FindSessions
    <2>2. Sessions'
        BY <1>o, <2>1
    <2>3. \A c \in Browsers : session'[c] = "password" => c \in found'[b]
        BY <1>o, <2>1
    <2> QED
        BY <2>2, <2>3
<1>9. CASE One!EndOther(b)
    BY <1>9 DEF One!EndOther, One!Over
<1>10. CASE One!Confirmed(b)
    BY <1>10 DEF One!Confirmed
<1>11. CASE One!ConfirmDies(b)
    <2>1. /\ confirm' = [confirm EXCEPT ![b] = "none"]
          /\ found' = [found EXCEPT ![b] = {}]
          /\ left' = left \cup IF confirm[b] = "enabled" THEN One!Others(b) ELSE found[b]
          /\ UNCHANGED <<mfa, session>>
        BY <1>11 DEF One!ConfirmDies
    <2>2. Sessions'
        BY <1>o, <2>1
    <2>3. \A c \in Browsers : session[c] = "password" /\ confirm[b] = "enabled" => c \in left'
        BY <1>o, <2>1
    <2>4. \A c \in Browsers : c \in found[b] => c \in left' \/ confirm[b] = "enabled"
        BY <2>1
    <2>5. /\ \A d \in Browsers \ {b} : confirm'[d] = confirm[d] /\ found'[d] = found[d]
          /\ left \subseteq left'
        BY <2>1
    <2> QED
        BY <2>1, <2>2, <2>3, <2>4, <2>5
<1> QED
    BY <1>1, <1>2, <1>3, <1>4, <1>5, <1>6, <1>7, <1>8, <1>9, <1>10, <1>11

\* Every step keeps it.
LEMMA SignInNext == SignInInv /\ [One!Next]_One!vars => SignInInv'
<1> SUFFICES ASSUME SignInInv, [One!Next]_One!vars PROVE SignInInv'
    OBVIOUS
<1>1. CASE UNCHANGED One!vars
    BY <1>1 DEF SignInInv, Sessions, One!SecondFactor, One!vars, One!confirming
<1>2. CASE One!WrongPassword \/ One!VerifyFails \/ One!Resend \/ One!StartSetup \/ One!Regenerate \/ One!Chat \/ One!Unlock \/ One!Expire
    <2>1. UNCHANGED <<mfa, session, confirm, found, left>>
        BY <1>2 DEF One!WrongPassword, One!VerifyFails, One!Resend, One!StartSetup, One!Regenerate, One!Chat, One!Unlock, One!Expire,
               One!confirming
    <2> QED
        BY <2>1 DEF SignInInv, Sessions, One!SecondFactor
<1>3. CASE One!Disable
    BY <1>3 DEF One!Disable, SignInInv, Sessions, One!SecondFactor, One!confirming
<1> QED
    BY <1>1, <1>2, <1>3, BrowserStep DEF One!Next

\* With the second factor on, a session that a password alone opened is one that a
\* mfa_confirm at work has still to look up or to end, or that one has left when it
\* died between the save of the setting and the last delete; the crossing with an
\* auth_login that read the setting before is known (auth_views.py 481-493, 162).
THEOREM NoPasswordSession == One!Spec => []One!SecondFactor
<1>1. One!Init => SignInInv
    BY DEF One!Init, SignInInv, Sessions, One!SecondFactor, One!How, One!confirming
<1>2. SignInInv => One!SecondFactor
    BY DEF SignInInv
<1> QED
    BY <1>1, <1>2, SignInNext, PTL DEF One!Spec

\* The limits are numbers; what a limit of none would mean the code does not say.
Limits == {LoginMax, MaxAttempts, MaxResends, MailCap} \subseteq Nat

\* A fresh code is a challenge, and one more e-mail is within the hour's cap.
LEMMA FreshTyped ==
    ASSUME Limits, One!TypeOK, NEW resends \in 0 .. MaxResends
    PROVE  One!Fresh(resends) \in One!Challenges /\ (One!Mail => mailed' \in 0 .. MailCap)
BY DEF Limits, One!TypeOK, One!Fresh, One!Challenges, One!Sent, One!Mail

\* No challenge is one, and a wrong answer below the limit leaves one.
LEMMA WrongTyped ==
    ASSUME Limits, NEW c \in One!Challenges
    PROVE  /\ One!NoChallenge \in One!Challenges
           /\ c.attempts < MaxAttempts => One!Wrong(c) \in One!Challenges
BY DEF Limits, One!NoChallenge, One!Challenges, One!Wrong

\* A browser is given a way in, or none.
LEMMA EnterTyped ==
    ASSUME One!TypeOK, NEW b \in Browsers, NEW how \in One!How, One!Enter(b, how)
    PROVE  session' \in [Browsers -> One!How]
BY DEF One!TypeOK, One!Enter

\* A session that is over is dropped wherever it was noted.
LEMMA OverTyped ==
    ASSUME One!TypeOK, NEW c \in Browsers, One!Over(c)
    PROVE  /\ session' \in [Browsers -> One!How]
           /\ found' \in [Browsers -> SUBSET Browsers] /\ left' \subseteq Browsers
<1>1. session' \in [Browsers -> One!How]
    BY EnterTyped DEF One!Over, One!How
<1> QED
    BY <1>1 DEF One!Over, One!TypeOK

\* A step of one browser keeps the types of the sign-in.
LEMMA BrowserTyped ==
    ASSUME Limits, One!TypeOK, NEW b \in Browsers,
           \/ One!Login(b) \/ One!OpenSession(b) \/ One!ConfirmFails(b) \/ One!Confirm(b)
           \/ One!FindSessions(b) \/ One!EndOther(b) \/ One!Confirmed(b) \/ One!ConfirmDies(b)
           \/ One!LinkLogin(b) \/ One!EndSession(b)
           \/ \E how \in {"code", "backup"} : One!Verify(b, how)
    PROVE  One!TypeOK'
<1> USE DEF One!confirming
<1>0. challenge \in One!Challenges /\ setup \in One!Challenges /\ One!NoChallenge \in One!Challenges
    BY WrongTyped DEF One!TypeOK
<1>1. CASE One!Login(b)
    <2>1. fails' \in 0 .. LoginMax
        BY <1>1 DEF One!Login, Limits
    <2>2. 0 \in 0 .. MaxResends
        BY DEF Limits
    <2>3. session' \in [Browsers -> One!How]
        BY <1>1, EnterTyped DEF One!Login, One!How, One!TypeOK
    <2>4. challenge' \in One!Challenges /\ mailed' \in 0 .. MailCap
        BY <1>1, <2>2, FreshTyped DEF One!Login, One!TypeOK
    <2> QED
        BY <1>1, <2>1, <2>3, <2>4 DEF One!Login, One!TypeOK
<1>2. CASE One!OpenSession(b)
    BY <1>2, EnterTyped DEF One!OpenSession, One!How, One!TypeOK
<1>3. CASE One!ConfirmFails(b)
    <2>1. setup' \in One!Challenges
        BY <1>3, <1>0, WrongTyped DEF One!ConfirmFails, One!Challenges, Limits
    <2> QED
        BY <1>3, <2>1 DEF One!ConfirmFails, One!TypeOK
<1>4. CASE One!Confirm(b)
    <2>1. session' \in [Browsers -> One!How]
        BY <1>4, EnterTyped DEF One!Confirm, One!How
    <2>2. confirm' \in [Browsers -> {"none", "enabled", "ending"}]
        BY <1>4 DEF One!Confirm, One!TypeOK
    <2> QED
        BY <1>4, <1>0, <2>1, <2>2 DEF One!Confirm, One!TypeOK
<1>5. CASE One!LinkLogin(b)
    <2>1. session' \in [Browsers -> One!How]
        BY <1>5, EnterTyped DEF One!LinkLogin, One!How
    <2>2. fails' \in 0 .. LoginMax
        BY <1>5 DEF One!LinkLogin, Limits
    <2>3. mfa' \in BOOLEAN /\ chat' \in BOOLEAN /\ codes' \in BOOLEAN /\ link' \in BOOLEAN
        BY <1>5 DEF One!LinkLogin, One!TypeOK
    <2> QED
        BY <1>5, <2>1, <2>2, <2>3 DEF One!LinkLogin, One!TypeOK
<1>6. CASE One!EndSession(b)
    BY <1>6, OverTyped DEF One!EndSession, One!TypeOK
<1>7. ASSUME NEW how \in {"code", "backup"}, One!Verify(b, how)
      PROVE  One!TypeOK'
    <2>1. session' \in [Browsers -> One!How]
        BY <1>7, EnterTyped DEF One!Verify, One!How
    <2>2. codes' \in BOOLEAN
        BY <1>7 DEF One!Verify, One!TypeOK
    <2> QED
        BY <1>7, <1>0, <2>1, <2>2 DEF One!Verify, One!TypeOK
<1>o. One!Others(b) \subseteq Browsers
    BY DEF One!Others
<1>8. CASE One!FindSessions(b)
    <2>1. /\ confirm' \in [Browsers -> {"none", "enabled", "ending"}]
          /\ found' \in [Browsers -> SUBSET Browsers]
        BY <1>8, <1>o DEF One!FindSessions, One!TypeOK
    <2> QED
        BY <1>8, <2>1 DEF One!FindSessions, One!TypeOK
<1>9. CASE One!EndOther(b)
    <2>1. PICK c \in Browsers : One!Over(c)
        BY <1>9 DEF One!EndOther, One!TypeOK
    <2> QED
        BY <1>9, <2>1, OverTyped DEF One!EndOther, One!TypeOK
<1>10. CASE One!Confirmed(b)
    BY <1>10 DEF One!Confirmed, One!TypeOK
<1>11. CASE One!ConfirmDies(b)
    <2>1. /\ confirm' \in [Browsers -> {"none", "enabled", "ending"}]
          /\ found' \in [Browsers -> SUBSET Browsers] /\ left' \subseteq Browsers
        BY <1>11, <1>o DEF One!ConfirmDies, One!TypeOK
    <2> QED
        BY <1>11, <2>1 DEF One!ConfirmDies, One!TypeOK
<1> QED
    BY <1>1, <1>2, <1>3, <1>4, <1>5, <1>6, <1>7, <1>8, <1>9, <1>10, <1>11

\* So does every other step.
LEMMA SignInTyped ==
    ASSUME Limits, One!TypeOK, [One!Next]_One!vars
    PROVE  One!TypeOK'
<1> USE DEF One!confirming
<1>0. challenge \in One!Challenges /\ setup \in One!Challenges /\ One!NoChallenge \in One!Challenges
    BY WrongTyped DEF One!TypeOK
<1>1. CASE One!WrongPassword
    BY <1>1 DEF One!WrongPassword, One!TypeOK, Limits
<1>2. CASE One!VerifyFails
    <2>1. challenge' \in One!Challenges
        BY <1>2, <1>0, WrongTyped DEF One!VerifyFails, One!Challenges, Limits
    <2> QED
        BY <1>2, <2>1 DEF One!VerifyFails, One!TypeOK
<1>3. CASE One!Resend
    <2>1. challenge.resends + 1 \in 0 .. MaxResends
        BY <1>0, <1>3 DEF One!Resend, One!Challenges, Limits
    <2>2. One!Fresh(challenge.resends + 1) \in One!Challenges
        BY <2>1, FreshTyped
    <2>3. challenge' \in One!Challenges
        BY <1>3, <2>2 DEF One!Resend, One!Challenges, One!Sent, One!TypeOK
    <2>4. mailed' \in 0 .. MailCap
        BY <1>3 DEF One!Resend, One!Sent, One!TypeOK, Limits
    <2> QED
        BY <1>3, <2>3, <2>4 DEF One!Resend, One!TypeOK
<1>4. CASE One!StartSetup
    <2>1. 0 \in 0 .. MaxResends
        BY DEF Limits
    <2>2. setup' \in One!Challenges /\ mailed' \in 0 .. MailCap
        BY <1>4, <2>1, FreshTyped DEF One!StartSetup
    <2> QED
        BY <1>4, <2>2 DEF One!StartSetup, One!TypeOK
<1>5. CASE One!Disable \/ One!Regenerate \/ One!Chat
    BY <1>5 DEF One!Disable, One!Regenerate, One!Chat, One!TypeOK
<1>6. CASE One!Unlock
    BY <1>6 DEF One!Unlock, One!TypeOK, Limits
<1>7. CASE One!Expire
    <2>1. 0 \in 0 .. LoginMax /\ 0 \in 0 .. MailCap
        BY DEF Limits
    <2>2. fails' \in 0 .. LoginMax /\ mailed' \in 0 .. MailCap
        BY <1>7, <2>1 DEF One!Expire, One!TypeOK
    <2>3. mfa' \in BOOLEAN /\ chat' \in BOOLEAN /\ codes' \in BOOLEAN /\ link' \in BOOLEAN
        BY <1>7 DEF One!Expire, One!TypeOK
    <2>4. challenge' \in One!Challenges /\ setup' \in One!Challenges
        BY <1>0, <1>7 DEF One!Expire
    <2>5. session' \in [Browsers -> One!How]
        BY <1>7 DEF One!Expire, One!TypeOK
    <2>6. /\ confirm' \in [Browsers -> {"none", "enabled", "ending"}]
          /\ found' \in [Browsers -> SUBSET Browsers] /\ left' \subseteq Browsers
        BY <1>7 DEF One!Expire, One!TypeOK
    <2> QED
        BY <2>2, <2>3, <2>4, <2>5, <2>6 DEF One!TypeOK
<1>8. CASE UNCHANGED One!vars
    BY <1>8 DEF One!vars, One!TypeOK
<1> QED
    BY <1>1, <1>2, <1>3, <1>4, <1>5, <1>6, <1>7, <1>8, BrowserTyped DEF One!Next

-----------------------------------------------------------------------------
(* The chats of the bot.                                                   *)

\* Names are not confused.
Names == "nobody" \notin Linkable /\ Bot!Empty \notin Bot!Someone /\ Engineers \subseteq Linkable

\* What the argument needs of the types.
Linked ==
    /\ linked \in [Chats -> Bot!Someone] /\ known \in [Chats -> Bot!Someone]
    /\ cached \in [Chats -> Bot!Someone \cup {Bot!Empty}] /\ asked \in [Chats -> Bot!Someone]
    /\ stale \subseteq Chats /\ changed \subseteq Chats
    /\ \A f \in forms : f[1] \in Linkable

\* A link that has changed behind the cache has changed hands; what is cached is
\* the link; who was rightly asked still is who the chat is linked to and known as.
Remembers(c) ==
    /\ cached[c] \in Bot!Someone => cached[c] = linked[c] \/ c \in stale
    /\ asked[c] # "nobody" /\ c \notin changed =>
         linked[c] = asked[c] /\ known[c] \in {asked[c], "nobody"}

ChatInv ==
    /\ Linked
    /\ stale \subseteq changed
    /\ \A c \in Chats : Remembers(c)
    /\ Bot!LaunchExplained

\* The account a chat is taken for is the one it is linked to, or the link is stale.
LEMMA ResolvedLinked ==
    ASSUME ChatInv, NEW c \in Chats
    PROVE  Bot!Resolved(c) \in Bot!Someone /\ (Bot!Resolved(c) = linked[c] \/ c \in stale)
BY DEF ChatInv, Linked, Remembers, Bot!Resolved

\* What a chat does that changes no link keeps the invariant.
LEMMA ChatStep ==
    ASSUME ChatInv, Names, NEW c \in Chats,
           \/ Bot!Browse(c) \/ Bot!Refuse(c) \/ Bot!Order(c) \/ Bot!ChooseType(c)
           \/ Bot!TypeTarget(c) \/ Bot!TypeTooMuch(c) \/ Bot!Expire(c)
    PROVE  ChatInv'
<1> USE DEF ChatInv, Linked, Bot!LaunchExplained, Names, Bot!Meet, Bot!Resolve
<1>r. Bot!Resolved(c) \in Bot!Someone /\ (Bot!Resolved(c) = linked[c] \/ c \in stale)
    BY ResolvedLinked
<1>n. "nobody" \in Bot!Someone
    BY DEF Bot!Someone
<1>1. CASE Bot!Browse(c)
    BY <1>1, <1>r DEF Bot!Browse, Remembers
<1>2. CASE Bot!Refuse(c)
    BY <1>2, <1>r DEF Bot!Refuse, Remembers
<1>3. CASE Bot!Order(c)
    BY <1>3, <1>r DEF Bot!Order, Bot!Launch, Remembers
<1>4. CASE Bot!ChooseType(c)
    BY <1>4, <1>r DEF Bot!ChooseType, Remembers
<1>5. CASE Bot!TypeTarget(c)
    BY <1>5, <1>n DEF Bot!TypeTarget, Bot!Launch, Remembers
<1>6. CASE Bot!TypeTooMuch(c)
    BY <1>6, <1>n DEF Bot!TypeTooMuch, Remembers
<1>7. CASE Bot!Expire(c)
    BY <1>7 DEF Bot!Expire, Bot!Forget, Remembers
<1> QED
    BY <1>1, <1>2, <1>3, <1>4, <1>5, <1>6, <1>7

\* So do changes of links: every chat whose link has changed is on record, and is
\* stale unless its own entry is dropped.
LEMMA LinkStep ==
    ASSUME ChatInv, Names,
           \/ \E c \in Chats : Bot!Unlink(c) \/ \E u \in Linkable : Bot!LinkAccount(c, u)
           \/ \E f \in forms : Bot!SavePreferences(f)
           \/ Bot!Restart \/ \E u \in Linkable : Bot!ReadPreferences(u)
    PROVE  ChatInv'
<1> USE DEF ChatInv, Linked, Bot!LaunchExplained, Names
<1>n. "nobody" \in Bot!Someone
    BY DEF Bot!Someone
<1>1. ASSUME NEW c \in Chats, Bot!Unlink(c)
      PROVE  ChatInv'
    <2>r. Bot!Resolved(c) \in Bot!Someone /\ (Bot!Resolved(c) = linked[c] \/ c \in stale)
        BY ResolvedLinked
    <2>1. CASE linked[c] = "nobody"
        BY <1>1, <2>1, <2>r DEF Bot!Unlink, Bot!Resolve, Remembers
    <2>2. CASE linked[c] # "nobody"
        BY <1>1, <2>2, <2>r, <1>n DEF Bot!Unlink, Bot!Forget, Remembers
    <2> QED
        BY <2>1, <2>2
<1>2. ASSUME NEW c \in Chats, NEW u \in Linkable, Bot!LinkAccount(c, u)
      PROVE  ChatInv'
    <2>1. u \in Bot!Someone
        BY DEF Bot!Someone
    <2>2. /\ linked' = [d \in Chats |-> IF d = c THEN u ELSE IF linked[d] = u THEN "nobody" ELSE linked[d]]
          /\ cached' = [cached EXCEPT ![c] = Bot!Empty]
          /\ stale' = (stale \ {c}) \cup {d \in Chats \ {c} : linked[d] = u}
          /\ changed' = changed \cup {d \in Chats : linked'[d] # linked[d]}
          /\ UNCHANGED <<known, asked, forms, scan>>
        BY <1>2 DEF Bot!LinkAccount
    <2>3. u # "nobody"
        OBVIOUS
    <2>4. \A d \in Chats \ {c} : linked[d] = u => linked'[d] = "nobody"
        BY <2>2
    <2>5. Linked'
        BY <1>n, <2>1, <2>2
    <2>6. stale' \subseteq changed'
        BY <2>2, <2>3, <2>4
    <2>7. \A d \in Chats : Remembers(d)'
        BY <2>2, <2>4 DEF Remembers
    <2> QED
        BY <2>2, <2>5, <2>6, <2>7
<1>3. ASSUME NEW f \in forms, Bot!SavePreferences(f)
      PROVE  ChatInv'
    <2>1. f[1] \in Bot!Someone
        BY DEF Bot!Someone
    <2>2. /\ forms' \subseteq forms
          /\ stale' = stale \cup {c \in Chats : linked'[c] # linked[c]}
          /\ changed' = changed \cup {c \in Chats : linked'[c] # linked[c]}
          /\ UNCHANGED <<cached, known, asked, scan>>
        BY <1>3 DEF Bot!SavePreferences
    <2>3. linked' \in [Chats -> Bot!Someone]
        BY <1>3, <1>n, <2>1 DEF Bot!SavePreferences
    <2>4. Linked'
        BY <2>2, <2>3
    <2>5. \A c \in Chats : Remembers(c)'
        BY <2>2 DEF Remembers
    <2> QED
        BY <2>2, <2>4, <2>5
<1>4. CASE Bot!Restart
    BY <1>4, <1>n DEF Bot!Restart, Remembers
<1>5. ASSUME NEW u \in Linkable, Bot!ReadPreferences(u)
      PROVE  ChatInv'
    <2>1. UNCHANGED <<linked, cached, known, asked, stale, changed, scan>>
        BY <1>5 DEF Bot!ReadPreferences
    <2>2. \A f \in forms' : f[1] \in Linkable
        BY <1>5 DEF Bot!ReadPreferences
    <2> QED
        BY <2>1, <2>2 DEF Remembers
<1> QED
    BY <1>1, <1>2, <1>3, <1>4, <1>5

\* Every step keeps it.
LEMMA ChatNext ==
    ASSUME ChatInv, Names, [Bot!Next]_Bot!vars
    PROVE  ChatInv'
<1>1. CASE UNCHANGED Bot!vars
    BY <1>1 DEF ChatInv, Linked, Remembers, Bot!LaunchExplained, Bot!vars
<1> QED
    BY <1>1, ChatStep, LinkStep DEF Bot!Next

\* A scan that is launched from a chat is in the name of the account that the chat is
\* linked to, or that was permitted to ask for it, unless links were changed from
\* elsewhere meanwhile (resolve_user_cached, wg_user in handle_text).
THEOREM LaunchIsExplained ==
    ASSUME Names
    PROVE  Bot!Spec => []Bot!LaunchExplained
<1>1. Bot!Init => ChatInv
    BY DEF Bot!Init, ChatInv, Linked, Remembers, Bot!LaunchExplained, Bot!NoScan, Bot!Someone, Names
<1>2. ChatInv /\ [Bot!Next]_Bot!vars => ChatInv'
    BY ChatNext
<1>3. ChatInv => Bot!LaunchExplained
    BY DEF ChatInv
<1> QED
    BY <1>1, <1>2, <1>3, PTL DEF Bot!Spec

\* The types of the chats: a question is asked only of who is permitted, so what is
\* known of the asked one is an engineer.
LEMMA ChatsTyped ==
    ASSUME Names, ChatInv, Bot!TypeOK, [Bot!Next]_Bot!vars
    PROVE  Bot!TypeOK'
<1> USE DEF Bot!TypeOK, Names
<1>0. ChatInv'
    BY ChatNext
<1>1. /\ linked' \in [Chats -> Bot!Someone] /\ known' \in [Chats -> Bot!Someone]
      /\ \A c \in Chats : cached'[c] = Bot!Empty \/ cached'[c] \in Bot!Someone
      /\ stale' \subseteq Chats /\ changed' \subseteq Chats
    BY <1>0 DEF ChatInv, Linked
<1>n. "nobody" \in Bot!Someone /\ \A e \in Engineers : e \in Bot!Someone
    BY DEF Bot!Someone
<1>2. asked' \in [Chats -> Engineers \cup {"nobody"}]
    BY DEF Bot!Next, Bot!vars, Bot!Restart, Bot!ReadPreferences, Bot!SavePreferences, Bot!LinkAccount,
           Bot!Unlink, Bot!Browse, Bot!Refuse, Bot!Order, Bot!ChooseType, Bot!Permitted,
           Bot!TypeTarget, Bot!TypeTooMuch, Bot!Expire
<1>3. forms' \subseteq Linkable \X SUBSET Chats
    BY DEF Bot!Next, Bot!vars, Bot!Restart, Bot!ReadPreferences, Bot!SavePreferences, Bot!LinkAccount,
           Bot!Unlink, Bot!Browse, Bot!Refuse, Bot!Order, Bot!ChooseType,
           Bot!TypeTarget, Bot!TypeTooMuch, Bot!Expire
<1>4. scan' \in [by : Bot!Someone, apart : BOOLEAN, excused : BOOLEAN]
    <2>1. ASSUME NEW c \in Chats, Bot!Order(c)
          PROVE  scan' \in [by : Bot!Someone, apart : BOOLEAN, excused : BOOLEAN]
        <3>1. Bot!Resolved(c) \in Bot!Someone
            BY ResolvedLinked
        <3> QED
            BY <2>1, <3>1 DEF Bot!Order, Bot!Launch
    <2>2. ASSUME NEW c \in Chats, Bot!TypeTarget(c)
          PROVE  scan' \in [by : Bot!Someone, apart : BOOLEAN, excused : BOOLEAN]
        BY <2>2 DEF Bot!TypeTarget, Bot!Launch
    <2> QED
        BY <2>1, <2>2 DEF Bot!Next, Bot!vars, Bot!Restart, Bot!ReadPreferences, Bot!SavePreferences,
             Bot!LinkAccount, Bot!Unlink, Bot!Browse, Bot!Refuse, Bot!ChooseType, Bot!TypeTooMuch, Bot!Expire
<1> QED
    BY <1>1, <1>2, <1>3, <1>4

-----------------------------------------------------------------------------
(* The three side by side: a step of one leaves the others as they are.    *)

AccessVars == <<part, vars, signing, chatting>>

\* A behaviour of the three is one of the accounts, ...
LEMMA AccountsAside == AccessSpec => Spec
<1>1. AccessInit => Init
    BY DEF AccessInit
<1>2. [AccessNext]_AccessVars => [Next]_vars
    BY DEF AccessNext, AccessVars
<1> QED
    BY <1>1, <1>2, PTL DEF AccessSpec, Spec, AccessVars

\* ... one of the sign-in, ...
LEMMA SignInAside == AccessSpec => One!Spec
<1>1. AccessInit => One!Init
    BY DEF AccessInit
<1>2. [AccessNext]_AccessVars => [One!Next]_One!vars
    BY DEF AccessNext, AccessVars, signing, One!vars, One!confirming
<1> QED
    BY <1>1, <1>2, PTL DEF AccessSpec, One!Spec, AccessVars

\* ... and one of the chats.
LEMMA ChatsAside == AccessSpec => Bot!Spec
<1>1. AccessInit => Bot!Init
    BY DEF AccessInit
<1>2. [AccessNext]_AccessVars => [Bot!Next]_Bot!vars
    BY DEF AccessNext, AccessVars, chatting, Bot!vars
<1> QED
    BY <1>1, <1>2, PTL DEF AccessSpec, Bot!Spec, AccessVars

\* Every variable of the three keeps its type.
THEOREM AccessTyped ==
    ASSUME Limits, Names
    PROVE  AccessSpec => []AccessTypeOK
<1>1. One!Spec => []One!TypeOK
    <2>1. One!Init => One!TypeOK
        <3>1. One!NoChallenge \in One!Challenges /\ 0 \in 0 .. LoginMax /\ 0 \in 0 .. MailCap
            BY DEF One!NoChallenge, One!Challenges, Limits
        <3> SUFFICES ASSUME One!Init PROVE One!TypeOK
            OBVIOUS
        <3>2. mfa \in BOOLEAN /\ chat \in BOOLEAN /\ codes \in BOOLEAN /\ link \in BOOLEAN
            BY DEF One!Init
        <3>3. session \in [Browsers -> One!How]
            BY DEF One!Init, One!How
        <3>4. /\ confirm \in [Browsers -> {"none", "enabled", "ending"}]
              /\ found \in [Browsers -> SUBSET Browsers] /\ left \subseteq Browsers
            BY DEF One!Init
        <3> QED
            BY <3>1, <3>2, <3>3, <3>4 DEF One!Init, One!TypeOK
    <2>2. One!TypeOK /\ [One!Next]_One!vars => One!TypeOK'
        BY SignInTyped
    <2> QED
        BY <2>1, <2>2, PTL DEF One!Spec
<1>2. Bot!Spec => []Bot!TypeOK
    <2>1. Bot!Init => ChatInv /\ Bot!TypeOK
        BY DEF Bot!Init, ChatInv, Linked, Remembers, Bot!LaunchExplained, Bot!NoScan, Bot!Someone,
               Names, Bot!TypeOK
    <2>2. ChatInv /\ Bot!TypeOK /\ [Bot!Next]_Bot!vars => ChatInv' /\ Bot!TypeOK'
        BY ChatNext, ChatsTyped
    <2> QED
        BY <2>1, <2>2, PTL DEF Bot!Spec
<1> QED
    BY <1>1, <1>2, TypeCorrect, AccountsAside, SignInAside, ChatsAside, PTL DEF AccessTypeOK

\* With the second factor on, a session that a password alone opened has mfa_confirm's
\* being at work, or its death, as cause: so in every behaviour of the three
\* (auth_login, mfa_confirm).
THEOREM AccessSecondFactor == AccessSpec => []SecondFactor
BY NoPasswordSession, SignInAside, PTL DEF SecondFactor

\* A scan from a chat is in the name of the account permitted to ask for it, unless
\* links changed: so in every behaviour of the three (resolve_user_cached, wg_user).
THEOREM AccessLaunchExplained ==
    ASSUME Names
    PROVE  AccessSpec => []LaunchExplained
BY LaunchIsExplained, ChatsAside, PTL DEF LaunchExplained
=============================================================================
