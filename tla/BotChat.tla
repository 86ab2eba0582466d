------------------------------- MODULE BotChat ------------------------------
(***************************************************************************)
(* The Telegram bot's chats (bot/auth.py, handlers.py, callbacks): which   *)
(* account a chat is linked to, the account the bot takes it for, and the  *)
(* conversation that launches a scan: a type chosen by button, then the    *)
(* target as a text.                                                       *)
(*                                                                         *)
(* The bot handles one update after the other, so a handler is one step.   *)
(* It knows a chat's account from the row, from a cache of 60 s, or from   *)
(* the user_data of the chat, which lasts as long as the process.  The     *)
(* portal's preferences form writes the same row.                          *)
(*                                                                         *)
(* Roles do not change here; whether a role has a permission is cached too *)
(* (120 s).  Rate limits that refuse an update only leave it without       *)
(* effect.                                                                 *)
(***************************************************************************)
EXTENDS Naturals, FiniteSets

CONSTANTS
    Chats,        \* Telegram users
    Accounts,
    Engineers,    \* accounts whose role has scan:write
    Nobody        \* no account

VARIABLES
    linked,     \* UserPreference.telegram_user_id: the account of a chat
    cached,     \* tg:user:<chat>: an account, Nobody, or nothing
    known,      \* user_data["wg_user"]
    asked,      \* user_data["_newscan_type"] is set; history: for which account
    forms,      \* preferences read by requests to the portal: account and its chat
    stale,      \* history: chats whose link has changed from elsewhere meanwhile
    changed,    \* history: chats that changed hands since they were rightly asked
    scan        \* the last scan launched from a chat

vars == <<linked, cached, known, asked, forms, stale, changed, scan>>

Someone == Accounts \cup {Nobody}
Empty == "empty"
NoScan == [by |-> Nobody, apart |-> FALSE, excused |-> FALSE]

Init ==
    /\ linked = [c \in Chats |-> Nobody]
    /\ cached = [c \in Chats |-> Empty]
    /\ known = [c \in Chats |-> Nobody]
    /\ asked = [c \in Chats |-> Nobody]
    /\ forms = {} /\ stale = {} /\ changed = {}
    /\ scan = NoScan

\* resolve_user_cached: the account the bot takes the chat for.
Resolved(c) == IF cached[c] \in Someone THEN cached[c] ELSE linked[c]

\* ... and remembers for a while, "not linked" included.
Resolve(c) == cached' = [cached EXCEPT ![c] = Resolved(c)]

\* Mutant: the cache keeps what it has.
Keep(c) == UNCHANGED <<cached, stale>>

\* invalidate_user_cache, of the chat that asked for the change.
Forget(c) ==
    /\ cached' = [cached EXCEPT ![c] = Empty]
    /\ stale' = stale \ {c}

\* /link with a code of account u: the chat's former account and the account's
\* former chat lose their link; only this chat's cache entry is dropped.
LinkAccount(c, u) ==
    /\ linked' = [d \in Chats |-> IF d = c THEN u ELSE IF linked[d] = u THEN Nobody ELSE linked[d]]
    /\ cached' = [cached EXCEPT ![c] = Empty]
    /\ stale' = (stale \ {c}) \cup {d \in Chats \ {c} : linked[d] = u}
    /\ changed' = changed \cup {d \in Chats : linked'[d] # linked[d]}
    /\ UNCHANGED <<known, asked, forms, scan>>

\* /unlink, behind require_permission.
Unlink(c) ==
    /\ Resolved(c) # Nobody
    /\ known' = [known EXCEPT ![c] = Resolved(c)]
    /\ IF linked[c] = Nobody
       THEN Resolve(c) /\ UNCHANGED <<linked, stale, changed>>
       ELSE /\ linked' = [linked EXCEPT ![c] = Nobody]
            /\ Forget(c)
            /\ changed' = changed \cup {c}
    /\ UNCHANGED <<asked, forms, scan>>

\* A PUT of the portal's user_preferences reads the row ...
ReadPreferences(u) ==
    /\ \A f \in forms : f[1] # u
    /\ forms' = forms \cup {<<u, {c \in Chats : linked[c] = u}>>}
    /\ UNCHANGED <<linked, cached, known, asked, stale, changed, scan>>

\* ... and saves all its columns, the chat among them, which is unique.
SavePreferences(f) ==
    /\ forms' = forms \ {f}
    /\ linked' = IF \E c \in f[2] : linked[c] \notin {f[1], Nobody} THEN linked
                 ELSE [c \in Chats |-> IF c \in f[2] THEN f[1]
                                       ELSE IF linked[c] = f[1] THEN Nobody ELSE linked[c]]
    /\ stale' = stale \cup {c \in Chats : linked'[c] # linked[c]}
    /\ changed' = changed \cup {c \in Chats : linked'[c] # linked[c]}
    /\ UNCHANGED <<cached, known, asked, scan>>

\* What a command, a button or /start does first.  In a permitted one, and /start,
\* user_data learns the account; the buttons "mn" and "hp" of a known chat skip it.
Meet(c) ==
    /\ Resolve(c)
    /\ known' = [known EXCEPT ![c] = IF Resolved(c) = Nobody THEN @ ELSE Resolved(c)]

Permitted(c) == Resolved(c) \in Engineers

\* /start, and every command and button that only reads; the scan type waits on.
Browse(c) == Meet(c) /\ UNCHANGED <<linked, asked, forms, stale, changed, scan>>

\* An update without the permission it needs, or of a chat that is not linked.
Refuse(c) ==
    /\ ~Permitted(c)
    /\ Resolve(c)
    /\ UNCHANGED <<linked, known, asked, forms, stale, changed, scan>>

Launch(u, apart, excused) ==
    scan' = [by |-> u, apart |-> apart, excused |-> excused]

\* /newscan, or the button of a recent target: the index of that button is looked up
\* in the list the chat was shown last.  A type that waits for its target waits on.
Order(c) ==
    /\ Permitted(c)
    /\ Meet(c)
    /\ Launch(Resolved(c), Resolved(c) # linked[c], c \in stale)
    /\ UNCHANGED <<linked, asked, forms, stale, changed>>

\* The button of a scan type, with or without the list of recent targets.
ChooseType(c) ==
    /\ Permitted(c)
    /\ Meet(c)
    /\ asked' = [asked EXCEPT ![c] = Resolved(c)]
    /\ changed' = changed \ ({c} \ stale)
    /\ UNCHANGED <<linked, forms, stale, scan>>

\* A text that has the form of a target: the account is the one user_data has.  The
\* button Cancel did not take the question back.
TypeTarget(c) ==
    /\ asked[c] # Nobody
    /\ known[c] # Nobody
    /\ asked' = [asked EXCEPT ![c] = Nobody]
    /\ Launch(known[c], known[c] # asked[c], c \in changed \cup stale)
    /\ UNCHANGED <<linked, cached, known, forms, stale, changed>>

\* The limit of five scans an hour drops the question with the text.
TypeTooMuch(c) ==
    /\ asked[c] # Nobody
    /\ asked' = [asked EXCEPT ![c] = Nobody]
    /\ UNCHANGED <<linked, cached, known, forms, stale, changed, scan>>

Expire(c) ==
    /\ Forget(c)
    /\ UNCHANGED <<linked, known, asked, forms, changed, scan>>

\* user_data is not kept over a restart of the bot.
Restart ==
    /\ known' = [c \in Chats |-> Nobody]
    /\ asked' = [c \in Chats |-> Nobody]
    /\ UNCHANGED <<linked, cached, forms, stale, changed, scan>>

Next ==
    \/ Restart
    \/ \E u \in Accounts : ReadPreferences(u)
    \/ \E f \in forms : SavePreferences(f)
    \/ \E c \in Chats :
         \/ \E u \in Accounts : LinkAccount(c, u)
         \/ Unlink(c) \/ Browse(c) \/ Refuse(c) \/ Order(c) \/ ChooseType(c)
         \/ TypeTarget(c) \/ TypeTooMuch(c) \/ Expire(c)

Spec == Init /\ [][Next]_vars

-----------------------------------------------------------------------------
(* Properties.                                                             *)

TypeOK ==
    /\ linked \in [Chats -> Someone]
    /\ \A c \in Chats : cached[c] = Empty \/ cached[c] \in Someone
    /\ known \in [Chats -> Someone] /\ asked \in [Chats -> Engineers \cup {Nobody}]
    /\ forms \subseteq Accounts \X SUBSET Chats
    /\ stale \subseteq Chats /\ changed \subseteq Chats
    /\ scan \in [by : Someone, apart : BOOLEAN, excused : BOOLEAN]

\* A scan launched by a command is in the name of the account the chat is linked to,
\* unless that link has just been changed from elsewhere; one launched by a text
\* is in the name of the account that was permitted to ask for it, unless the chat
\* has changed hands since.
LaunchExplained == scan.apart => scan.excused
=============================================================================
