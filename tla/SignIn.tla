------------------------------- MODULE SignIn -------------------------------
(***************************************************************************)
(* Signing in to one account of the portal (auth_views.py): the password,  *)
(* the code sent over Telegram, backup codes, the recovery link of the     *)
(* bot's /unlock, turning the second factor on and off, and sessions.      *)
(*                                                                         *)
(* A handler is one step, but for two.  auth_login reads the second        *)
(* factor's setting and opens the session later.  mfa_confirm turns the    *)
(* setting on, ends the other sessions one by one and writes the backup    *)
(* codes, without a transaction: it may die in between.  A browser has one *)
(* such request at a time.  Whoever is signed in can confirm the password  *)
(* again, which the setting's handlers ask for.                            *)
(*                                                                         *)
(* The account has one challenge for signing in and one for the setting    *)
(* outstanding: a new one is another key of the cache, here it takes the   *)
(* place of the old.  A code is right or wrong; the right one can be given *)
(* only if it was sent.                                                    *)
(***************************************************************************)
EXTENDS Naturals, FiniteSets

CONSTANTS
    Browsers,
    LoginMax,      \* _LOGIN_USER_MAX
    MaxAttempts,   \* MFA_MAX_ATTEMPTS
    MaxResends,    \* MFA_MAX_RESENDS
    MailCap        \* MFA_HOURLY_EMAIL_CAP

VARIABLES
    mfa,           \* UserMfaConfig.enabled
    chat,          \* the preferences have a telegram_chat_id
    codes,         \* some backup code is unused
    session,       \* per browser, how it signed in
    challenge,     \* mfa_pending of the cache
    setup,         \* mfa_setup of the cache
    link,          \* unlock_token of the cache
    fails, mailed, \* login_user_attempts and mfa_otp of the cache
    confirm,       \* per browser, how far its mfa_confirm is
    found,         \* per browser, the sessions this has still to end
    left           \* history: the sessions that one has left when it died, since
                   \* the setting was last turned on

confirming == <<confirm, found, left>>
vars == <<mfa, chat, codes, session, challenge, setup, link, fails, mailed, confirming>>

\* "opening": the password was right and no second factor was asked for; "crossed":
\* the setting was turned on before that session was opened; "granted": with a code, a
\* backup code or a link.
How == {"out", "opening", "password", "crossed", "granted", "confirmed"}
Challenges == [open : BOOLEAN, attempts : 0 .. MaxAttempts, resends : 0 .. MaxResends, sent : BOOLEAN]
NoChallenge == [open |-> FALSE, attempts |-> 0, resends |-> 0, sent |-> FALSE]

Signed(b) == session[b] \notin {"out", "opening"}
Enter(b, how) == session' = [session EXCEPT ![b] = how]

Init ==
    /\ mfa = FALSE /\ codes = FALSE
    /\ chat = FALSE
    /\ session = [b \in Browsers |-> "out"]
    /\ challenge = NoChallenge /\ setup = NoChallenge
    /\ link = FALSE
    /\ fails = 0 /\ mailed = 0
    /\ confirm = [b \in Browsers |-> "none"] /\ found = [b \in Browsers |-> {}]
    /\ left = {}

\* A fresh code; at the hour's cap it is stored and not sent.
Sent == mailed < MailCap
Mail == mailed' = IF Sent THEN mailed + 1 ELSE mailed
Fresh(resends) == [open |-> TRUE, attempts |-> 0, resends |-> resends, sent |-> Sent]

WrongPassword ==
    /\ fails < LoginMax
    /\ fails' = fails + 1
    /\ UNCHANGED <<mfa, chat, codes, session, challenge, setup, link, mailed, confirming>>

\* auth_login with the right password.  With the second factor on and no chat the
\* answer is 403.
Login(b) ==
    /\ session[b] = "out"
    /\ fails < LoginMax
    /\ fails' = 0
    /\ \/ ~mfa /\ Enter(b, "opening") /\ UNCHANGED <<challenge, mailed>>
       \/ mfa /\ chat /\ challenge' = Fresh(0) /\ Mail /\ UNCHANGED session
       \/ mfa /\ ~chat /\ UNCHANGED <<session, challenge, mailed>>
    /\ UNCHANGED <<mfa, chat, codes, setup, link, confirming>>

OpenSession(b) ==
    /\ session[b] = "opening"
    /\ Enter(b, IF mfa THEN "crossed" ELSE "password")
    /\ UNCHANGED <<mfa, chat, codes, challenge, setup, link, fails, mailed, confirming>>

\* auth_mfa_verify.
Wrong(c) == [c EXCEPT !.attempts = @ + 1]
VerifyFails ==
    /\ challenge.open
    /\ challenge' = IF challenge.attempts >= MaxAttempts THEN NoChallenge ELSE Wrong(challenge)
    /\ UNCHANGED <<mfa, chat, codes, session, setup, link, fails, mailed, confirming>>

Verify(b, how) ==
    /\ session[b] = "out"
    /\ challenge.open /\ challenge.attempts < MaxAttempts
    /\ \/ how = "code" /\ challenge.sent /\ codes' = codes
       \/ how = "backup" /\ codes /\ codes' \in BOOLEAN
    /\ challenge' = NoChallenge
    /\ Enter(b, "granted")
    /\ UNCHANGED <<mfa, chat, setup, link, fails, mailed, confirming>>

\* auth_mfa_resend: the old code is gone whether or not the new one is sent.
Resend ==
    /\ challenge.open /\ challenge.resends < MaxResends
    /\ challenge' = [Fresh(challenge.resends + 1) EXCEPT !.sent = Sent /\ chat]
    /\ mailed' = IF Sent /\ chat THEN mailed + 1 ELSE mailed
    /\ UNCHANGED <<mfa, chat, codes, session, setup, link, fails, confirming>>

\* mfa_setup, only with a linked Telegram account.
StartSetup ==
    /\ \E b \in Browsers : Signed(b)
    /\ chat
    /\ setup' = Fresh(0)
    /\ Mail
    /\ UNCHANGED <<mfa, chat, codes, session, challenge, link, fails, confirming>>

\* mfa_confirm.
ConfirmFails(b) ==
    /\ Signed(b) /\ setup.open
    /\ setup' = IF setup.attempts >= MaxAttempts THEN NoChallenge ELSE Wrong(setup)
    /\ UNCHANGED <<mfa, chat, codes, session, challenge, link, fails, mailed, confirming>>

\* The code is right: the setting is on from here.
Confirm(b) ==
    /\ Signed(b) /\ confirm[b] = "none"
    /\ setup.open /\ setup.attempts < MaxAttempts /\ setup.sent
    /\ setup' = NoChallenge
    /\ mfa' = TRUE
    /\ Enter(b, "confirmed")
    /\ confirm' = [confirm EXCEPT ![b] = "enabled"] /\ left' = {}
    /\ UNCHANGED <<chat, codes, challenge, link, fails, mailed, found>>

\* The account's other sessions; b's own is the one that has confirmed.
Others(b) == {c \in Browsers : Signed(c)} \ IF session[b] = "confirmed" THEN {b} ELSE {}

\* Mutant: the account's other sessions go on.
FindNone(b) ==
    /\ confirm[b] = "enabled"
    /\ confirm' = [confirm EXCEPT ![b] = "ending"]
    /\ UNCHANGED <<mfa, chat, codes, session, challenge, setup, link, fails, mailed, found, left>>

\* ... looks up the sessions that are there,
FindSessions(b) ==
    /\ confirm[b] = "enabled"
    /\ confirm' = [confirm EXCEPT ![b] = "ending"] /\ found' = [found EXCEPT ![b] = Others(b)]
    /\ UNCHANGED <<mfa, chat, codes, session, challenge, setup, link, fails, mailed, left>>

\* c's session is over, and nobody has it to end any more.
Over(c) ==
    /\ Enter(c, "out")
    /\ found' = [b \in Browsers |-> found[b] \ {c}] /\ left' = left \ {c}

\* ... ends each of them,
EndOther(b) ==
    /\ confirm[b] = "ending"
    /\ \E c \in found[b] : Over(c)
    /\ UNCHANGED <<mfa, chat, codes, challenge, setup, link, fails, mailed, confirm>>

\* ... and hands out backup codes.
Confirmed(b) ==
    /\ confirm[b] = "ending" /\ found[b] = {}
    /\ codes' = TRUE
    /\ confirm' = [confirm EXCEPT ![b] = "none"]
    /\ UNCHANGED <<mfa, chat, session, challenge, setup, link, fails, mailed, found, left>>

\* The worker is killed, or the database is away.
ConfirmDies(b) ==
    /\ confirm[b] # "none"
    /\ confirm' = [confirm EXCEPT ![b] = "none"] /\ found' = [found EXCEPT ![b] = {}]
    /\ left' = left \cup IF confirm[b] = "enabled" THEN Others(b) ELSE found[b]
    /\ UNCHANGED <<mfa, chat, codes, session, challenge, setup, link, fails, mailed>>

\* mfa_disable, also as a management command.
Disable ==
    /\ mfa' = FALSE /\ codes' = FALSE
    /\ UNCHANGED <<chat, session, challenge, setup, link, fails, mailed, confirming>>

\* mfa_backup_codes does not ask whether the second factor is on.
Regenerate ==
    /\ \E b \in Browsers : Signed(b)
    /\ codes' = TRUE
    /\ UNCHANGED <<mfa, chat, session, challenge, setup, link, fails, mailed, confirming>>

\* The bot's /link and /unlink, and the preferences.
Chat ==
    /\ chat' = ~chat
    /\ UNCHANGED <<mfa, codes, session, challenge, setup, link, fails, mailed, confirming>>

\* /unlock clears the account's lockout and hands out a link ...
Unlock ==
    /\ chat
    /\ link' = TRUE /\ fails' = 0
    /\ UNCHANGED <<mfa, chat, codes, session, challenge, setup, mailed, confirming>>

\* ... that auth_token_login takes once.
LinkLogin(b) ==
    /\ session[b] = "out" /\ link
    /\ link' = FALSE /\ fails' = 0
    /\ Enter(b, "granted")
    /\ UNCHANGED <<mfa, chat, codes, challenge, setup, mailed, confirming>>

\* auth_logout, revoke_session, IdleTimeoutMiddleware; revoke_all_sessions is
\* several of these.
EndSession(b) ==
    /\ Signed(b)
    /\ Over(b)
    /\ UNCHANGED <<mfa, chat, codes, challenge, setup, link, fails, mailed, confirm>>

\* What the cache holds runs out, each at its own time.
Expire ==
    /\ \/ challenge' = NoChallenge /\ UNCHANGED <<setup, link, fails, mailed>>
       \/ setup' = NoChallenge /\ UNCHANGED <<challenge, link, fails, mailed>>
       \/ link' = FALSE /\ UNCHANGED <<challenge, setup, fails, mailed>>
       \/ fails' = 0 /\ UNCHANGED <<challenge, setup, link, mailed>>
       \/ mailed' = 0 /\ UNCHANGED <<challenge, setup, link, fails>>
    /\ UNCHANGED <<mfa, chat, codes, session, confirming>>

Next ==
    \/ WrongPassword \/ VerifyFails \/ Resend \/ StartSetup \/ Disable \/ Regenerate
    \/ Chat \/ Unlock \/ Expire
    \/ \E b \in Browsers :
         \/ Login(b) \/ OpenSession(b) \/ ConfirmFails(b) \/ Confirm(b)
         \/ FindSessions(b) \/ EndOther(b) \/ Confirmed(b) \/ ConfirmDies(b)
         \/ LinkLogin(b) \/ EndSession(b)
         \/ \E how \in {"code", "backup"} : Verify(b, how)

Spec == Init /\ [][Next]_vars

-----------------------------------------------------------------------------
(* Properties.                                                             *)

TypeOK ==
    /\ {mfa, chat, codes, link} \subseteq BOOLEAN
    /\ session \in [Browsers -> How]
    /\ {challenge, setup} \subseteq Challenges
    /\ fails \in 0 .. LoginMax /\ mailed \in 0 .. MailCap
    /\ confirm \in [Browsers -> {"none", "enabled", "ending"}]
    /\ found \in [Browsers -> SUBSET Browsers] /\ left \subseteq Browsers

\* With the second factor on, a session that a password alone opened is one that a
\* mfa_confirm at work has yet to look up or to end, or that one has left when it
\* died: the others from before the setting was turned on are over, and a sign-in
\* that was answered while it was is known.
SecondFactor ==
    mfa => \A b \in Browsers : session[b] = "password" =>
        \/ \E c \in Browsers : confirm[c] = "enabled" \/ b \in found[c]
        \/ b \in left
=============================================================================
