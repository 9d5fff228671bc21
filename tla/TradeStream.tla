----------------------------- MODULE TradeStream -----------------------------
(***************************************************************************)
(* The websocket consumers (pmi_ingest/streams/polymarket_ws.py and        *)
(* kalshi_ws.py): one process that loads the open markets, subscribes to   *)
(* them, stores the trades it is sent and asks for the re-evaluation of    *)
(* index components; and the scoring it sets off (OnDemand).  venue says   *)
(* which of the two consumers runs; Kalshi's asks for no re-evaluation and *)
(* idles without a key.  What a heartbeat writes is RestPoller's           *)
(* record_poll; here it matters only that it needs the database.           *)
(*                                                                         *)
(* A message is the set of markets whose trades it carries.  Its rows and  *)
(* jobs are one transaction: when a statement of it fails, later ones fail *)
(* with it and the commit is a rollback, though the exceptions are caught  *)
(* one by one.  Nothing but a message makes the consumer look at its       *)
(* timers.                                                                 *)
(***************************************************************************)
EXTENDS OnDemand

CONSTANTS Cap,       \* ws_max_tokens, in markets
          Debounce,  \* PMI_WS_REEVAL_DEBOUNCE_SEC, in the unit of Old
          Setups     \* the consumers considered: venue, markets open at the
                     \* start, how often each bounded thing may happen

Venues == {"polymarket", "kalshi", "kalshi without key"}

ASSUME StreamAssumption ==
    /\ Cap \in Nat \ {0} /\ Debounce \in Nat \ {0}
    /\ \A s \in Setups : s.venue \in Venues /\ s.open \subseteq Markets

VARIABLES venue,
          open,        \* markets that the token query returns before its cap
          db,          \* "up" or "down"
          pc,          \* where the consumer is
          tokens,      \* self._tokens
          components,  \* self._component_market_ids
          clock,       \* self._reeval_last_enqueue, as ages
          due,         \* has the refresh interval run out
          subscribed   \* what the server sends on this connection

memory  == <<tokens, components, clock>>
stream  == <<venue, open, db, pc, memory, due, subscribed>>
vars    == <<demand, stream>>

StreamTypeOK ==
    /\ DemandTypeOK
    /\ venue \in Venues
    /\ open \subseteq Markets /\ tokens \subseteq Markets
    /\ components \subseteq Markets /\ subscribed \subseteq Markets
    /\ db \in {"up", "down"}
    /\ pc \in {"connecting", "idle", "reading", "lost", "waiting", "exited"}
    /\ clock \in [Markets -> 0 .. Debounce]
    /\ due \in BOOLEAN

Cool == [m \in Markets |-> Debounce]

Init ==
    /\ DemandInit
    /\ \E s \in Setups : venue = s.venue /\ open = s.open /\ left = s.left
    /\ db = "up" /\ pc = "connecting"
    /\ tokens = {} /\ components = {} /\ clock = Cool
    /\ due = FALSE /\ subscribed = {}

-----------------------------------------------------------------------------
(* Around the consumer *)

MarketOpens(m) ==
    /\ m \notin open /\ Spend("listings")
    /\ open' = open \cup {m}
    /\ UNCHANGED <<age, comps, reeval, affected, score, tick, cron, ask, wasted>>
    /\ UNCHANGED <<venue, db, pc, memory, due, subscribed>>

MarketCloses(m) ==
    /\ m \in open /\ Spend("listings")
    /\ open' = open \ {m}
    /\ UNCHANGED <<age, comps, reeval, affected, score, tick, cron, ask, wasted>>
    /\ UNCHANGED <<venue, db, pc, memory, due, subscribed>>

DatabaseFails ==
    /\ db = "up" /\ Spend("outages")
    /\ db' = "down"
    /\ UNCHANGED <<age, comps, reeval, affected, score, tick, cron, ask, wasted>>
    /\ UNCHANGED <<venue, open, pc, memory, due, subscribed>>

DatabaseReturns ==
    /\ db = "down"
    /\ db' = "up"
    /\ UNCHANGED <<demand, venue, open, pc, memory, due, subscribed>>

TimePasses ==
    /\ Elapse
    /\ clock' = [m \in Markets |-> IF clock[m] < Debounce THEN clock[m] + 1 ELSE Debounce]
    /\ UNCHANGED <<venue, open, db, pc, tokens, components, due, subscribed>>

RefreshDue ==
    /\ pc = "reading" /\ ~due
    /\ due' = TRUE
    /\ UNCHANGED <<demand, venue, open, db, pc, memory, subscribed>>

-----------------------------------------------------------------------------
(* Connecting *)

\* _load_active_tokens, _load_active_tickers: the first Cap open markets (in
\* an order that is left open).
ActiveTokens ==
    {T \in SUBSET open : T = open \/ Cardinality(T) = Cap}
       \ {T \in SUBSET open : Cardinality(T) > Cap}

\* _load_component_market_ids
ComponentMarkets == IF venue = "polymarket" THEN UNION {comps[i] : i \in Indexes} ELSE {}

NoKey ==
    /\ pc = "connecting" /\ venue = "kalshi without key"
    /\ pc' = "idle"
    /\ UNCHANGED <<demand, venue, open, db, memory, due, subscribed>>

\* Refresh, then connect and subscribe; with nothing to subscribe to, idle.
Connect(T) ==
    /\ pc = "connecting" /\ venue # "kalshi without key" /\ db = "up"
    /\ T \in ActiveTokens
    /\ tokens' = T
    /\ components' = ComponentMarkets
    /\ pc' = IF T = {} THEN "idle" ELSE "reading"
    /\ subscribed' = T
    /\ due' = FALSE
    /\ UNCHANGED <<demand, venue, open, db, clock>>

\* The refresh raises, or the server refuses.
ConnectFails ==
    /\ pc = "connecting" /\ venue # "kalshi without key"
    /\ IF db = "down" THEN UNCHANGED left ELSE Spend("drops")
    /\ pc' = "lost"
    /\ UNCHANGED <<age, comps, reeval, affected, score, tick, cron, ask, wasted>>
    /\ UNCHANGED <<venue, open, db, memory, due, subscribed>>

\* _connect_and_consume returned after its sleep.
StopIdling ==
    /\ pc = "idle"
    /\ pc' = "connecting"
    /\ UNCHANGED <<demand, venue, open, db, memory, due, subscribed>>

Drop ==
    /\ pc = "reading" /\ Spend("drops")
    /\ pc' = "lost" /\ subscribed' = {} /\ due' = FALSE
    /\ UNCHANGED <<age, comps, reeval, affected, score, tick, cron, ask, wasted>>
    /\ UNCHANGED <<venue, open, db, memory>>

\* run_forever's handler records the failure, then backs off.
Report ==
    /\ pc = "lost" /\ db = "up"
    /\ pc' = "waiting"
    /\ UNCHANGED <<demand, venue, open, db, memory, due, subscribed>>

BackedOff ==
    /\ pc = "waiting"
    /\ pc' = "connecting"
    /\ UNCHANGED <<demand, venue, open, db, memory, due, subscribed>>

\* The process ends; Docker will start another.
Exit ==
    /\ pc' = "exited" /\ subscribed' = {} /\ due' = FALSE
    /\ tokens' = {} /\ components' = {} /\ clock' = Cool

\* It records the failure in the database: if that is down the exception
\* leaves run_forever.
ReportFails ==
    /\ pc = "lost" /\ db = "down"
    /\ Exit
    /\ UNCHANGED <<demand, venue, open, db>>

Crash ==
    /\ pc # "exited" /\ Spend("drops")
    /\ Exit
    /\ UNCHANGED <<age, comps, reeval, affected, score, tick, cron, ask, wasted>>
    /\ UNCHANGED <<venue, open, db>>

Restart ==
    /\ pc = "exited"
    /\ pc' = "connecting"
    /\ UNCHANGED <<demand, venue, open, db, memory, due, subscribed>>

-----------------------------------------------------------------------------
(* Reading *)

\* Trades of tokens it no longer knows are dropped.
Known(E) == E \cap tokens

\* Mutation of Clocked: a suppressed trade sets the clock, too.
ClockedByAnyTrade(E) == Known(E) \cap components

\* _maybe_enqueue_reeval: component markets whose clock has run out.
Clocked(E) == {m \in Known(E) \cap components : clock[m] = Debounce}

Fired(E) == {m \in Known(E) \cap components : clock[m] = Debounce}

SetClock(S) == clock' = [m \in Markets |-> IF m \in S THEN 0 ELSE clock[m]]

\* Mutation of Resubscribed: only when the list has become shorter.
ResubscribedIfRemoved(T) == IF tokens \ T # {} THEN subscribed \cup T ELSE subscribed

\* What is subscribed to after a refresh: everything again, if the list has
\* changed.
Resubscribed(T) == IF T # tokens THEN subscribed \cup T ELSE subscribed

\* After a message the timers are looked at; the heartbeat writes its poll
\* record in between.
CheckTimers ==
    IF due
    THEN \E T \in ActiveTokens :
            /\ tokens' = T
            /\ components' = ComponentMarkets
            /\ subscribed' = Resubscribed(T)
            /\ due' = FALSE
    ELSE UNCHANGED <<tokens, components, subscribed, due>>

Message(E) ==
    /\ pc = "reading" /\ db = "up"
    /\ E \subseteq subscribed /\ E # {}
    /\ SetClock(Clocked(E))
    /\ reeval' = [m \in Markets |->
                    IF m \in Fired(E) /\ reeval[m] = "none" THEN "queued" ELSE reeval[m]]
    /\ CheckTimers
    /\ UNCHANGED <<age, comps, affected, score, tick, cron, ask, wasted, left>>
    /\ UNCHANGED <<venue, open, db, pc>>

\* A statement fails: no trade and no job of the message is left, but the
\* clocks that had been set by then are.
MessageLost(E) ==
    /\ pc = "reading" /\ db = "up" /\ Spend("fails")
    /\ E \subseteq subscribed /\ E # {}
    /\ \E S \in SUBSET Clocked(E) : SetClock(S)
    /\ CheckTimers
    /\ UNCHANGED <<age, comps, reeval, affected, score, tick, cron, ask, wasted>>
    /\ UNCHANGED <<venue, open, db, pc>>

\* Without the database every statement fails and is skipped.  A heartbeat or
\* a refresh is not: when they are due the connection is given up.
MessageInOutage ==
    /\ pc = "reading" /\ db = "down" /\ subscribed # {} /\ due
    /\ pc' = "lost" /\ subscribed' = {} /\ due' = FALSE
    /\ UNCHANGED <<demand, venue, open, db, memory>>

-----------------------------------------------------------------------------
ConsumerStep ==
    \/ NoKey \/ ConnectFails \/ StopIdling \/ Report \/ ReportFails \/ BackedOff \/ Restart
    \/ \E T \in SUBSET Markets : Connect(T)

Environment ==
    \/ \E m \in Markets : MarketOpens(m) \/ MarketCloses(m)
    \/ \E E \in SUBSET Markets : Message(E) \/ MessageLost(E)
    \/ RefreshDue \/ MessageInOutage
    \/ DatabaseFails \/ DatabaseReturns \/ Drop \/ Crash

Next ==
    \/ ConsumerStep
    \/ Environment
    \/ TimePasses
    \/ db = "up" /\ DemandStep /\ UNCHANGED stream

Spec == Init /\ [][Next]_vars

Work(A) == db = "up" /\ A /\ UNCHANGED stream

\* The consumer is one task and always runs on; workers claim the oldest row
\* when a slot is free; time passes, the refresh interval too, the database returns.
FairSpec ==
    /\ Spec
    /\ WF_vars(ConsumerStep)
    /\ WF_vars(DatabaseReturns) /\ WF_vars(TimePasses)
    /\ WF_vars(RefreshDue)
    /\ \A m \in Markets : SF_vars(Work(ReevalReads(m))) /\ WF_vars(Work(ReevalEnqueues(m)))
    /\ \A i \in Indexes :
          /\ SF_vars(Work(TickStarts(i)))
          /\ WF_vars(Work(TickCompletes(i)))
          /\ WF_vars(Work(\E C \in Portfolios : TickCommits(i, C)))

-----------------------------------------------------------------------------
(* Properties *)

Trades(m) == \E E \in SUBSET Markets : m \in E /\ Message(E) /\ m \in tokens

\* An index with a component market that keeps trading is scored again and
\* again (and is fresh if a tick takes less than the floor): neither the
\* debounce, nor the dedupe, nor the freshness floor, nor a lost message loses
\* the request for good.
HotMarketRescored ==
    venue = "polymarket" =>
        \A m \in Markets, i \in Indexes :
            []<><<Trades(m)>>_vars /\ <>[](m \in comps[i]) =>
                []<>(age[i] < Old \/ score[i] = "scored")

\* A market that stays open, in a list that fits, is in the end sent by the
\* server, through listings, reconnects, outages and restarts.  The consumer
\* looks at its timers only after a message: if the markets it has subscribed
\* to fall silent, it never learns of others.
OpenMarketFollowed ==
    venue # "kalshi without key" =>
        \A m \in Markets :
            /\ <>[](m \in open /\ Cardinality(open) =< Cap)
            /\ []<>(pc # "reading") \/ []<><<\E E \in SUBSET Markets : Message(E)>>_vars
            => <>[](m \in subscribed)
=============================================================================
