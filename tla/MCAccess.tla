------------------------------ MODULE MCAccess ------------------------------
(***************************************************************************)
(* Who may act: the accounts, signing in to one of them, and the chats of  *)
(* the bot.  The three keep their rows and cache entries apart and are     *)
(* checked side by side: a behaviour belongs to one of them, "part".       *)
(***************************************************************************)
EXTENDS Accounts

LOCAL INSTANCE TLC

CONSTANTS Browsers, LoginMax, MaxAttempts, MaxResends, MailCap, Chats, Linkable, Engineers

\* The browsers are alike.
Symmetry == Permutations(Browsers)

VARIABLES
    part,
    mfa, chat, codes, session, challenge, setup, link, fails, mailed, confirm, found, left,
    linked, cached, known, asked, forms, stale, changed, scan

signing == <<mfa, chat, codes, session, challenge, setup, link, fails, mailed, confirm, found, left>>
chatting == <<linked, cached, known, asked, forms, stale, changed, scan>>

One == INSTANCE SignIn
Bot == INSTANCE BotChat WITH Accounts <- Linkable, Nobody <- "nobody"

AccessInit ==
    /\ part \in {"accounts", "sign-in", "chats"}
    /\ Init /\ One!Init /\ Bot!Init

AccessNext ==
    \/ part = "accounts" /\ Next /\ UNCHANGED <<part, signing, chatting>>
    \/ part = "sign-in" /\ One!Next /\ UNCHANGED <<part, vars, chatting>>
    \/ part = "chats" /\ Bot!Next /\ UNCHANGED <<part, vars, signing>>

AccessSpec == AccessInit /\ [][AccessNext]_<<part, vars, signing, chatting>>

-----------------------------------------------------------------------------
\* Every variable of the three keeps its type.
AccessTypeOK == TypeOK /\ One!TypeOK /\ Bot!TypeOK

\* With the second factor on, a session that a password alone opened is one that
\* mfa_confirm has yet to end, or has left when it died (auth_login beside it).
SecondFactor == One!SecondFactor

\* A scan from a chat is in the name of the account that was permitted to ask for
\* it, unless links were changed meanwhile (resolve_user_cached, wg_user).
LaunchExplained == Bot!LaunchExplained
=============================================================================
