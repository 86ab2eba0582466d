------------------------------ MODULE Notices ------------------------------
(***************************************************************************)
(* Telegram notices: notify() (notifications.py), called by tasks at their *)
(* end and by check_for_updates, and the bot's Redis listener              *)
(* (telegrambot.py), which sends what notify() publishes once more.  The   *)
(* Owner changes the shared chat, the creator of the scans the chat of     *)
(* their own, while notices are on their way; the bot keeps what it read   *)
(* when it started.                                                        *)
(*                                                                         *)
(* Texts and keyboards are left out.  A token that is not set is a shared  *)
(* chat that is not there either: nothing is sent.                         *)
(* Bounds: the notices, and the changes from outside.                      *)
(***************************************************************************)
EXTENDS Naturals, Sequences

CONSTANTS
    Chat,      \* chats the Owner or the creator may name
    Named,     \* those that are given by @name and not by number
    NoChat,
    Notices,   \* bound: calls of notify
    Changes    \* bound: changes of chats, and losses of cache entries

VARIABLES
    shared,    \* SiteConfig.telegram_shared_chat_id
    own,       \* the creator's chat, if enabled, with the toggle of the event
    bot,       \* the bot: is it listening, and the chat it has read
    inbox,     \* what it has received and not sent
    notice,    \* the calls of notify
    got,       \* history: who was sent each notice, and by which way
    latest,    \* the latest release
    marked,    \* cache entry: the release that was announced last
    changes,   \* history: changes so far
    excused,   \* history: calls of notify that lost a message
    unsure     \* history: checks met, or the entry was lost

vars == <<shared, own, bot, inbox, notice, got, latest, marked, changes, excused, unsure>>

Notice == 1 .. Notices
Idle == [at |-> "none", kind |-> "scan", chat |-> NoChat, rev |-> 0, release |-> 0]
Checking == {n \in Notice : notice[n].kind = "release" /\ notice[n].at \notin {"none", "over"}}

At(n, at) == notice' = [notice EXCEPT ![n].at = at]
Sent(n, way, chat, rev) ==
    got' = [got EXCEPT ![n] = @ \cup {[way |-> way, chat |-> chat, rev |-> rev]}]
Lose(n) == excused' = excused \cup {n}

\* Where a call stands after notify.
Returned(n) == IF notice[n].kind = "scan" THEN "over" ELSE "marking"

\* Notices are numbered in the order they come.
IsNext(n) == notice[n].at = "none" /\ \A m \in 1 .. n - 1 : notice[m].at # "none"

-----------------------------------------------------------------------------
(* Callers.                                                                *)

\* A task of a scan has saved its results.
ScanEnds(n) ==
    /\ IsNext(n)
    /\ At(n, "asked")
    /\ UNCHANGED <<shared, own, bot, inbox, got, latest, marked, changes, excused, unsure>>

\* Mutant: every check announces what it has found.
NewsAlways(release) == release > 0

\* A release is announced unless it is the one that was announced last.
News(release) == release > 0 /\ marked # release

\* check_for_updates asks GitHub, without the cached answer.
CheckForUpdates(n) ==
    /\ IsNext(n) /\ News(latest)
    /\ notice' = [notice EXCEPT ![n] = [Idle EXCEPT !.at = "asked", !.kind = "release",
                                                    !.release = latest]]
    /\ unsure' = (unsure \/ Checking # {})
    /\ UNCHANGED <<shared, own, bot, inbox, got, latest, marked, changes, excused>>

\* The entry is set after notify, which never raises.
Mark(n) ==
    /\ notice[n].at = "marking"
    /\ marked' = notice[n].release
    /\ At(n, "over")
    /\ UNCHANGED <<shared, own, bot, inbox, got, latest, changes, excused, unsure>>

-----------------------------------------------------------------------------
(* notify.                                                                 *)

ReadConfig(n) ==
    /\ notice[n].at = "asked"
    /\ \/ /\ notice' = [notice EXCEPT ![n] = [@ EXCEPT !.at = "shared", !.chat = shared.chat,
                                                       !.rev = shared.rev]]
          /\ UNCHANGED excused
       \/ At(n, Returned(n)) /\ Lose(n)       \* the database raises, notify does not
    /\ UNCHANGED <<shared, own, bot, inbox, got, latest, marked, changes, unsure>>

\* send_telegram: an error is logged, and the call goes on; after a timeout the
\* message may have arrived.
Send(n, way, chat) ==
    IF chat = NoChat THEN UNCHANGED <<got, excused>>
    ELSE \/ Sent(n, way, chat, notice[n].rev) /\ UNCHANGED excused
         \/ Lose(n) /\ (UNCHANGED got \/ Sent(n, way, chat, notice[n].rev))

SendShared(n) ==
    /\ notice[n].at = "shared"
    /\ Send(n, "direct", notice[n].chat)
    /\ At(n, IF notice[n].kind = "scan" THEN "creator" ELSE "publish")
    /\ UNCHANGED <<shared, own, bot, inbox, latest, marked, changes, unsure>>

\* The creator's preferences are read now.
SendToCreator(n) ==
    /\ notice[n].at = "creator"
    /\ Send(n, "own", own)
    /\ At(n, "publish")
    /\ UNCHANGED <<shared, own, bot, inbox, latest, marked, changes, unsure>>

\* Redis hands a message to those that listen and keeps none.
Publish(n) ==
    /\ notice[n].at = "publish"
    /\ \/ bot.listens /\ inbox' = Append(inbox, n) /\ UNCHANGED excused
       \/ UNCHANGED inbox /\ Lose(n)
    /\ At(n, Returned(n))
    /\ UNCHANGED <<shared, own, bot, got, latest, marked, changes, unsure>>

\* The worker is lost.
Crash(n) ==
    /\ notice[n].at \notin {"none", "over"}
    /\ At(n, "over")
    /\ Lose(n)
    /\ unsure' = (unsure \/ notice[n].kind = "release")
    /\ UNCHANGED <<shared, own, bot, inbox, got, latest, marked, changes>>

-----------------------------------------------------------------------------
(* The bot.                                                                *)

\* It reads the configuration once and subscribes.
Start ==
    /\ ~bot.up
    /\ bot' = [up |-> TRUE, listens |-> TRUE, chat |-> shared.chat, rev |-> shared.rev]
    /\ UNCHANGED <<shared, own, inbox, notice, got, latest, marked, changes, excused, unsure>>

\* The process ends, or only the connection to Redis, which it sets up again.
Stop ==
    /\ bot.up
    /\ \E up \in BOOLEAN : bot' = [bot EXCEPT !.up = up, !.listens = FALSE]
    /\ inbox' = <<>>
    /\ excused' = excused \cup {inbox[i] : i \in DOMAIN inbox}
    /\ UNCHANGED <<shared, own, notice, got, latest, marked, changes, unsure>>

Reconnect ==
    /\ bot.up /\ ~bot.listens
    /\ bot' = [bot EXCEPT !.listens = TRUE]
    /\ UNCHANGED <<shared, own, inbox, notice, got, latest, marked, changes, excused, unsure>>

\* Published messages name no chat, so it is the one the bot has read; int() of a
\* name raises.
Relay ==
    /\ inbox # <<>>
    /\ LET n == Head(inbox) IN
         \/ /\ bot.chat \notin Named \cup {NoChat}
            /\ Sent(n, "bot", bot.chat, bot.rev) /\ UNCHANGED excused
         \/ Lose(n) /\ UNCHANGED got
    /\ inbox' = Tail(inbox)
    /\ UNCHANGED <<shared, own, bot, notice, latest, marked, changes, unsure>>

-----------------------------------------------------------------------------
(* From outside.                                                           *)

Changed == changes < Changes /\ changes' = changes + 1

\* notifications_config, by the Owner.
SetShared ==
    /\ Changed
    /\ \E c \in (Chat \cup {NoChat}) \ {shared.chat} :
          shared' = [chat |-> c, rev |-> shared.rev + 1]
    /\ UNCHANGED <<own, bot, inbox, notice, got, latest, marked, excused, unsure>>

SetOwn ==
    /\ Changed
    /\ own' \in (Chat \cup {NoChat}) \ {own}
    /\ UNCHANGED <<shared, bot, inbox, notice, got, latest, marked, excused, unsure>>

Release ==
    /\ Changed
    /\ latest' = latest + 1
    /\ UNCHANGED <<shared, own, bot, inbox, notice, got, marked, excused, unsure>>

\* After 30 days, or when Redis is emptied.
Forget ==
    /\ Changed /\ marked # 0
    /\ marked' = 0 /\ unsure' = TRUE
    /\ UNCHANGED <<shared, own, bot, inbox, notice, got, latest, excused>>

Init ==
    /\ shared \in [chat : Chat, rev : {0}]
    /\ own = NoChat
    /\ bot = [up |-> FALSE, listens |-> FALSE, chat |-> NoChat, rev |-> 0]
    /\ inbox = <<>> /\ notice = [n \in Notice |-> Idle] /\ got = [n \in Notice |-> {}]
    /\ latest = 0 /\ marked = 0 /\ changes = 0 /\ excused = {} /\ unsure = FALSE

Next ==
    \/ \E n \in Notice :
         \/ ScanEnds(n) \/ CheckForUpdates(n) \/ Mark(n) \/ ReadConfig(n)
         \/ SendShared(n) \/ SendToCreator(n) \/ Publish(n) \/ Crash(n)
    \/ Start \/ Stop \/ Reconnect \/ Relay
    \/ SetShared \/ SetOwn \/ Release \/ Forget

Spec == Init /\ [][Next]_vars

-----------------------------------------------------------------------------
(* Properties.                                                             *)

TypeOK ==
    /\ shared.chat \in Chat \cup {NoChat} /\ own \in Chat \cup {NoChat}
    /\ bot.chat \in Chat \cup {NoChat} /\ {bot.up, bot.listens, unsure} \subseteq BOOLEAN
    /\ \A n \in Notice :
         /\ notice[n].at \in {"none", "asked", "shared", "creator", "publish", "marking", "over"}
         /\ got[n] \subseteq [way : {"direct", "own", "bot"}, chat : Chat, rev : 0 .. Changes]
    /\ marked \in 0 .. latest /\ excused \subseteq Notice
    /\ ~bot.listens => inbox = <<>>

\* A notice that lost nothing reaches the shared chat twice, from the task and from
\* the bot; it reaches another chat through the bot only if the Owner has changed
\* the chat since the bot was started, or since the task read it.
NoticesExplained ==
    \A n \in Notice :
      /\ \A x, y \in {g \in got[n] : g.way # "own"} : x.chat # y.chat => x.rev # y.rev
      /\ notice[n].at = "over" /\ n \notin excused /\ notice[n].chat # NoChat =>
           /\ [way |-> "direct", chat |-> notice[n].chat, rev |-> notice[n].rev] \in got[n]
           /\ \/ \E i \in DOMAIN inbox : inbox[i] = n
              \/ \E g \in got[n] : g.way = "bot"

\* A release is announced once, unless two checks met, a worker was lost between
\* the notice and the entry, or the entry was lost.
OncePerRelease ==
    \A m, n \in Notice :
      notice[m].kind = "release" /\ notice[n].kind = "release" /\ m # n /\ ~unsure =>
        notice[m].release # notice[n].release
=============================================================================
