----------------------------- MODULE PriceFeed ------------------------------
(***************************************************************************)
(* utils/price-feed: the service the oracle's off-chain workers ask for    *)
(* prices.  Its tasks run concurrently: the Binance feed and the blocking  *)
(* event loop it spawns write to a bounded channel, the backend moves what *)
(* the channel holds to a cache, the frontend answers from the cache, and  *)
(* main takes them down one after the other, once the backend ends by a    *)
(* signal or because no feed is left.                                      *)
(*                                                                         *)
(* A price is the time at which its trade was received.                    *)
(***************************************************************************)
EXTENDS Naturals, Sequences, FiniteSets

CONSTANTS
    FeedAssets,       \* assets the feed subscribes to
    ChannelSize,      \* CHANNEL_BUFFER_SIZE
    CacheDuration,    \* how long a price may be served
    MaxTime           \* bound: seconds

ASSUME FeedTypes ==
    ChannelSize \in Nat \ {0} /\ CacheDuration \in Nat /\ MaxTime \in Nat \ {0}

Notice(kind) == [kind |-> kind, asset |-> "none", time |-> 0]
PriceOf(a, time) == [kind |-> "price", asset |-> a, time |-> time]
NoPrice == Notice("none")

VARIABLES
    clock,        \* Utc::now, in seconds
    channel,      \* notifications on their way, in order
    receiving,    \* the backend still holds the receiver
    feed_task,    \* opening, waiting, closing, stopping, ended
    to_notify,    \* assets still to be opened or closed by the feed task
    event_loop,   \* none, connecting, checking, reading, sending, ended
    update,       \* the price the event loop is sending
    latest_trade, \* history: asset -> time of the last trade received
    keep_running,
    signalled,    \* SIGTERM, SIGINT or SIGQUIT was received
    backend,      \* running or ended
    prices_cache, \* asset -> time of the cached price; 0 for none
    answered,     \* history: asset -> time of the price last served
    main,         \* backend, feeds, frontend (awaited), ended
    frontend      \* serving, told, ended

feedVars == <<clock, channel, receiving, feed_task, to_notify, event_loop, update, latest_trade,
              keep_running, signalled, backend, prices_cache, answered, main, frontend>>

FeedInit ==
    /\ clock = 1
    /\ channel = <<Notice("started")>>
    /\ receiving = TRUE
    /\ feed_task = "opening"
    /\ to_notify = FeedAssets
    /\ event_loop = "none"
    /\ update = NoPrice
    /\ latest_trade = [a \in FeedAssets |-> 0]
    /\ keep_running = TRUE
    /\ signalled = FALSE
    /\ backend = "running"
    /\ prices_cache = [a \in FeedAssets |-> 0]
    /\ answered = [a \in FeedAssets |-> 0]
    /\ main = "backend"
    /\ frontend = "serving"

-----------------------------------------------------------------------------
(* The feed's task.  A send waits for room, and fails once the receiver is *)
(* gone, which ends the task at once.                                      *)

HasRoom == Len(channel) < ChannelSize

Sends(m) == receiving /\ HasRoom /\ channel' = Append(channel, m)

taskFrame == <<clock, receiving, update, latest_trade, keep_running, signalled, backend,
               prices_cache, answered, main, frontend>>

NotifyAsset(a, state) ==
    /\ feed_task = state
    /\ a \in to_notify
    /\ Sends(Notice(state))
    /\ to_notify' = to_notify \ {a}
    /\ UNCHANGED <<taskFrame, feed_task, event_loop>>

OpenAsset(a) == NotifyAsset(a, "opening")
CloseAsset(a) == NotifyAsset(a, "closing")

(* The task spawns the blocking event loop and waits for it.               *)
SpawnEventLoop ==
    /\ feed_task = "opening" /\ to_notify = {}
    /\ feed_task' = "waiting"
    /\ event_loop' = "connecting"
    /\ UNCHANGED <<taskFrame, channel, to_notify>>

(* However the event loop ended, the assets are closed.                    *)
EventLoopJoined ==
    /\ feed_task = "waiting" /\ event_loop = "ended"
    /\ feed_task' = "closing"
    /\ to_notify' = FeedAssets
    /\ UNCHANGED <<taskFrame, channel, event_loop>>

StopFeed ==
    /\ feed_task = "closing" /\ to_notify = {}
    /\ Sends(Notice("stopped"))
    /\ feed_task' = "ended"
    /\ UNCHANGED <<taskFrame, to_notify, event_loop>>

ChannelIsBroken ==
    /\ feed_task = "closing" \/ (feed_task = "opening" /\ to_notify # {})
    /\ ~ receiving
    /\ feed_task' = "ended"
    /\ UNCHANGED <<taskFrame, channel, to_notify, event_loop>>

FeedTask ==
    \/ \E a \in FeedAssets : OpenAsset(a) \/ CloseAsset(a)
    \/ SpawnEventLoop \/ EventLoopJoined \/ StopFeed \/ ChannelIsBroken

-----------------------------------------------------------------------------
(* The event loop looks at keep_running between two events only; an error  *)
(* of the network, or a price that cannot be parsed, ends it.              *)

loopFrame == <<clock, receiving, feed_task, to_notify, keep_running, signalled,
               backend, prices_cache, answered, main, frontend>>

LoopTo(from, to) ==
    /\ event_loop = from
    /\ event_loop' = to
    /\ UNCHANGED <<loopFrame, channel, update, latest_trade>>

Connect == LoopTo("connecting", "checking")
CheckRunning == LoopTo("checking", IF keep_running THEN "reading" ELSE "ended")
OtherEvent == LoopTo("reading", "checking")
NetworkFailure == LoopTo("connecting", "ended") \/ LoopTo("reading", "ended")

(* The price is stamped when the trade arrives, before the send waits.     *)
TradeEvent(a) ==
    /\ event_loop = "reading"
    /\ event_loop' = "sending"
    /\ update' = PriceOf(a, clock)
    /\ latest_trade' = [latest_trade EXCEPT ![a] = clock]
    /\ UNCHANGED <<loopFrame, channel>>

(* blocking_send; its result is ignored.                                   *)
(* mutant: a full channel drops the price                                  *)
TrySendUpdate ==
    /\ event_loop = "sending"
    /\ IF receiving /\ HasRoom THEN Sends(update) ELSE UNCHANGED channel
    /\ event_loop' = "checking"
    /\ update' = NoPrice
    /\ UNCHANGED <<loopFrame, latest_trade>>
SendUpdate ==
    /\ event_loop = "sending"
    /\ IF receiving THEN Sends(update) ELSE UNCHANGED channel
    /\ event_loop' = "checking"
    /\ update' = NoPrice
    /\ UNCHANGED <<loopFrame, latest_trade>>

EventLoop ==
    \/ Connect \/ CheckRunning \/ SendUpdate
    \/ OtherEvent \/ NetworkFailure \/ \E a \in FeedAssets : TradeEvent(a)

-----------------------------------------------------------------------------
(* The backend selects between the signals and the channel, either one     *)
(* when both are ready; the channel ends when no sender is left.           *)

backendFrame == <<clock, feed_task, to_notify, event_loop, update, latest_trade, keep_running,
                  signalled, answered, main, frontend>>

TakenUpdate(m) ==
    IF m.kind = "price" THEN [prices_cache EXCEPT ![m.asset] = m.time] ELSE prices_cache

(* mutant: the newest notification is taken first                          *)
TakeNewestFirst ==
    /\ backend = "running"
    /\ channel # <<>>
    /\ prices_cache' = TakenUpdate(channel[Len(channel)])
    /\ channel' = SubSeq(channel, 1, Len(channel) - 1)
    /\ UNCHANGED <<backendFrame, receiving, backend>>
TakeNotification ==
    /\ backend = "running"
    /\ channel # <<>>
    /\ prices_cache' = TakenUpdate(Head(channel))
    /\ channel' = Tail(channel)
    /\ UNCHANGED <<backendFrame, receiving, backend>>

NoSender == feed_task = "ended" /\ event_loop \in {"none", "ended"}

(* The receiver is dropped with the task, and what it holds is lost.       *)
EndBackend ==
    /\ backend = "running"
    /\ signalled \/ (channel = <<>> /\ NoSender)
    /\ backend' = "ended"
    /\ receiving' = FALSE
    /\ channel' = <<>>
    /\ UNCHANGED <<backendFrame, prices_cache>>

BackendTask == TakeNotification \/ EndBackend

-----------------------------------------------------------------------------
(* main, after everything is started.                                      *)

mainFrame == <<clock, channel, receiving, feed_task, to_notify, event_loop, update, latest_trade,
               signalled, backend, prices_cache, answered>>

(* mutant: the event loop is not told to stop                              *)
BackendJoinedQuietly ==
    /\ main = "backend" /\ backend = "ended"
    /\ main' = "feeds"
    /\ UNCHANGED <<mainFrame, keep_running, frontend>>
BackendJoined ==
    /\ main = "backend" /\ backend = "ended"
    /\ keep_running' = FALSE
    /\ main' = "feeds"
    /\ UNCHANGED <<mainFrame, frontend>>

FeedsJoined ==
    /\ main = "feeds" /\ feed_task = "ended"
    /\ main' = "frontend"
    /\ frontend' = "told"
    /\ UNCHANGED <<mainFrame, keep_running>>

FrontendEnds ==
    /\ frontend = "told"
    /\ frontend' = "ended"
    /\ UNCHANGED <<mainFrame, keep_running, main>>

FrontendJoined ==
    /\ main = "frontend" /\ frontend = "ended"
    /\ main' = "ended"
    /\ UNCHANGED <<mainFrame, keep_running, frontend>>

MainTask == BackendJoined \/ FeedsJoined \/ FrontendJoined

Signal ==
    /\ ~ signalled
    /\ signalled' = TRUE
    /\ UNCHANGED <<clock, channel, receiving, feed_task, to_notify, event_loop, update,
                   latest_trade, keep_running, backend, prices_cache, answered, main,
                   frontend>>

Tick ==
    /\ clock < MaxTime
    /\ clock' = clock + 1
    /\ UNCHANGED <<channel, receiving, feed_task, to_notify, event_loop, update, latest_trade,
                   keep_running, signalled, backend, prices_cache, answered, main,
                   frontend>>

(* get_price answers with a price that is younger than the cache duration. *)
GetPrice(a) ==
    /\ frontend = "serving"
    /\ prices_cache[a] # 0
    /\ clock - prices_cache[a] < CacheDuration
    /\ answered' = [answered EXCEPT ![a] = prices_cache[a]]
    /\ UNCHANGED <<clock, channel, receiving, feed_task, to_notify, event_loop, update,
                   latest_trade, keep_running, signalled, backend, prices_cache, main,
                   frontend>>

FeedNext ==
    \/ FeedTask \/ EventLoop \/ BackendTask \/ MainTask \/ FrontendEnds
    \/ Signal \/ Tick \/ \E a \in FeedAssets : GetPrice(a)

(* The scheduler runs every task that can run, and the websocket delivers  *)
(* something, if only a ping or an error, again and again.                 *)
FeedFairness ==
    /\ WF_feedVars(FeedTask)
    /\ WF_feedVars(EventLoop)
    /\ WF_feedVars(TakeNotification)
    /\ WF_feedVars(EndBackend)
    /\ WF_feedVars(MainTask)
    /\ WF_feedVars(FrontendEnds)

FeedSpec == FeedInit /\ [][FeedNext]_feedVars /\ FeedFairness

-----------------------------------------------------------------------------
(* Properties.                                                             *)

Notifications ==
    {Notice(kind) : kind \in {"started", "opening", "closing", "stopped"}}
        \cup [kind: {"price"}, asset: FeedAssets, time: 1..MaxTime]

(* Types of the tasks' states; the channel never holds more than its size. *)
FeedTypeOK ==
    /\ clock \in 1..MaxTime
    /\ channel \in Seq(Notifications)
    /\ Len(channel) <= ChannelSize
    /\ feed_task \in {"opening", "waiting", "closing", "ended"}
    /\ to_notify \subseteq FeedAssets
    /\ event_loop \in {"none", "connecting", "checking", "reading", "sending", "ended"}
    /\ backend \in {"running", "ended"}
    /\ main \in {"backend", "feeds", "frontend", "ended"}
    /\ frontend \in {"serving", "told", "ended"}
    /\ {prices_cache, answered, latest_trade} \subseteq [FeedAssets -> 0..MaxTime]

(* As long as the backend runs, the last trade of an asset is cached, on   *)
(* its way or being sent: a full channel holds the event loop back, and    *)
(* loses no price.                                                         *)
NoTradeLost ==
    backend = "running" => \A a \in FeedAssets :
        \/ prices_cache[a] = latest_trade[a]
        \/ PriceOf(a, latest_trade[a]) \in
               {channel[k] : k \in DOMAIN channel} \cup {update}

(* Those who ask for a price again are never answered with one of an       *)
(* earlier trade, whatever waits in the channel.                           *)
AnswersNeverOlder ==
    [][\A a \in FeedAssets : answered'[a] >= answered[a]]_feedVars

(* A signal, or the loss of the feed, takes the whole service down: with   *)
(* the channel full, an asset half opened or a send in progress, every     *)
(* task ends and main with them.                                           *)
ServiceStops ==
    signalled \/ event_loop = "ended"
        ~> main = "ended" /\ feed_task = "ended" /\ frontend = "ended"
              /\ event_loop \in {"none", "ended"}
=============================================================================
