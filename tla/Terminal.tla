------------------------------ MODULE Terminal ------------------------------
(***************************************************************************)
(* The merchant terminal (terminal/src) and the price and currency feeds   *)
(* it reads (watcher/src/feed.ts, fx.ts, money.ts).  Requests run          *)
(* concurrently in one event loop: each holds what it read before an await *)
(* and uses it after.  They share the cached state, the day files kept by  *)
(* the feed, and the cached list of payments.  Time is counted in ticks of *)
(* Stockholm time.                                                         *)
(***************************************************************************)
EXTENDS Money, Calendar, FiniteSets, FiniteSetsExt

CONSTANTS
    Requests,          \* requests that can be open at one time
    LastTick,          \* bound: the clock stops here
    MaxAsked,          \* bound: requests in all
    DAY, SLOT,         \* ticks of a day and of a charge slot (a quarter of an hour)
    STATE_TTL, PAYMENTS_TTL,
    FirstDate,         \* the date of tick 0
    DayBodies(_),      \* what the price source may answer for a day
    FxDocs,            \* what the ECB may answer
    Currencies,        \* settings of quoteCurrency to explore
    KwhMilli, MintDecimals,
    MaxPayments,       \* bound: payments that land
    PAGE_LIMIT         \* signatures asked of the node

VARIABLES
    now,
    currency,          \* cfg.quoteCurrency
    asks,              \* what the clients of this behaviour ask for, and how many have
    days,              \* EnergySpotFeed.cache: day -> {} or {[body, readAt]}
    stateCache,        \* {} or {[fetched, state]}
    paymentsCache,     \* {} or {[fetched, payments, balance, error, okAt, lost]}
    landed,            \* when each payment to the merchant landed, oldest first
    req                \* the open requests

terminalVars == <<now, currency, asks, days, stateCache, paymentsCache, landed, req>>

DayOf(t) == t \div DAY
DateOf(t) == FoldLeft(LAMBDA date, i : NextDay(date), FirstDate, [i \in 1 .. DayOf(t) |-> i])

-----------------------------------------------------------------------------
(* The price source                                                        *)

\* quotedPriceIsDecimal and sekFromParsed: a quoted price must parse as written, a number is
\* taken by its own digits.
Readable(entry) == ~ entry.quoted \/ SekPerKwhToScaled(entry.price) # {}

\* topLevelArraySpans and topLevelSekToken: the walk over the text of the array finds for
\* each entry the price token of that entry alone, digits as written.
OwnTokens(body) == body.entries

\* parseFeedBody: a body that is no JSON array has no windows, an unreadable entry is left out.
ParseFeedBody(body) == IF body.array THEN SelectSeq(OwnTokens(body), Readable) ELSE <<>>

\* windowContaining: the window that starts at the instant, else the first that contains it.
WindowContaining(windows, t) ==
    LET starting == {i \in DOMAIN windows : windows[i].start = t}
        holding  == {i \in DOMAIN windows : windows[i].start <= t /\ t < windows[i].end}
    IN IF starting # {} THEN {windows[Min(starting)]}
       ELSE IF holding # {} THEN {windows[Min(holding)]} ELSE {}

\* isMalformedDayBody: an empty array is understood, an array of unreadable entries is not.
IsMalformedDayBody(body) ==
    ~ body.array \/ (body.entries # <<>> /\ ParseFeedBody(body) = <<>>)

NoPrice(status, failed) == [status |-> status, readAt |-> {}, refreshFailed |-> failed, window |-> {}]

\* classifyDayBody
ClassifyDayBody(body, at, readAt, failed) ==
    LET windows == ParseFeedBody(body)
        window  == WindowContaining(windows, at)
    IN IF windows = <<>>
       THEN NoPrice(IF IsMalformedDayBody(body) THEN "malformed" ELSE "missing_window", failed)
       ELSE IF window = {} THEN NoPrice("missing_window", failed)
       ELSE [status |-> "ok", readAt |-> {readAt}, refreshFailed |-> failed, window |-> window]

-----------------------------------------------------------------------------
(* The ECB document                                                        *)

\* currencyRate and scaledRate: the same currency may not carry two rates.
CurrencyRate(rates) ==
    IF rates = {} THEN "missing"
    ELSE IF Cardinality(rates) > 1 \/ \E r \in rates : r <= 0 THEN "bad" ELSE "ok"

\* parseEcbDailyXml: one valid date and one positive rate for each of the two currencies.
ParseEcbDailyXml(doc) ==
    IF \/ Cardinality(doc.dates) # 1
       \/ \E date \in doc.dates : ~ ValidDate(date)
       \/ CurrencyRate(doc.usd) # "ok" \/ CurrencyRate(doc.sek) # "ok"
    THEN {}
    ELSE {[date |-> CHOOSE date \in doc.dates : TRUE,
           usd |-> CHOOSE r \in doc.usd : TRUE,
           sek |-> CHOOSE r \in doc.sek : TRUE]}

-----------------------------------------------------------------------------
(* The quote                                                               *)

\* nonceFromSlot
NonceFromSlot(t) == (t \div SLOT) * SLOT

\* quoteForWindow: no quote for a negative price or a zero amount. Only a window that starts
\* on the slot of the instant carries that slot's nonce.
QuoteForWindow(window, at, fx) ==
    LET price  == CHOOSE p \in SekPerKwhToScaled(window.price) : TRUE
        amount == IF fx = {} THEN AmountBaseUnits(KwhMilli, price, MintDecimals)
                  ELSE AmountBaseUnitsUsd(KwhMilli, price, CHOOSE f \in fx : TRUE, MintDecimals)
        slot   == NonceFromSlot(at)
    IN IF price < 0 \/ amount = 0 THEN {}
       ELSE {[window |-> window, amount |-> amount, fx |-> fx,
              nonce |-> IF NonceFromSlot(window.start) = slot /\ window.start = slot
                        THEN {slot} ELSE {}]}

\* The state a request builds: TerminalState without its notes.
State(read, quote) ==
    [feed |-> read.status, fetchedAt |-> read.readAt, refreshFailed |-> read.refreshFailed,
     window |-> read.window, quote |-> quote]

\* A price that does not parse is reported as a malformed feed.
Unreadable(read) == State([read EXCEPT !.status = "malformed", !.readAt = {}, !.window = {}], {})

\* buildState after the feed was read, when no rate is needed.
QuotedInSek(read, at) ==
    IF read.window = {} THEN State(read, {})
    ELSE LET window == CHOOSE w \in read.window : TRUE
         IN IF SekPerKwhToScaled(window.price) = {} THEN Unreadable(read)
            ELSE State(read, QuoteForWindow(window, at, {}))

\* The price needs a rate: a positive price under USD.
NeedsRate(read) ==
    /\ currency = "USD"
    /\ \E w \in read.window : \E p \in SekPerKwhToScaled(w.price) : p > 0

\* buildState after the rate was read: no rate, or a fixing that is not fresh, no quote.
QuotedInUsd(read, at, fx) ==
    State(read, IF \E f \in fx : FixingIsFresh(f.date, DateOf(at))
                THEN QuoteForWindow(CHOOSE w \in read.window : TRUE, at, fx) ELSE {})

-----------------------------------------------------------------------------
(* Requests                                                                *)

NoRequest == [open |-> FALSE, at |-> 0, phase |-> "done", cached |-> {}, read |-> {}, state |-> {},
         pay |-> "done", balance |-> {}, list |-> {}, lost |-> FALSE, snap |-> {}]

TerminalInit ==
    /\ now = 0
    /\ currency \in Currencies /\ asks \in [what : {"quote", "payments"}, count : {0}]
    /\ asks.what = "payments" => currency = "SEK"    \* no payment depends on it
    /\ days = [d \in 0 .. DayOf(LastTick) |-> {}]
    /\ stateCache = {} /\ paymentsCache = {}
    /\ landed = <<>>
    /\ req = [r \in Requests |-> NoRequest]

\* Mutant: the cached state outlives its window.
MutCacheValidUntil(entry) == entry.fetched + STATE_TTL

\* cacheValidUntil: the shorter of the time to live and the end of the window.
CacheValidUntil(entry) ==
    Min({entry.fetched + STATE_TTL} \union {w.end : w \in entry.state.window})

\* The handler of a quote up to its first await: currentState serves the cache or asks the
\* feed, holding the day file it has now.
AskQuote(r) ==
    /\ ~ req[r].open /\ asks.what = "quote" /\ asks.count < MaxAsked
    /\ asks' = [asks EXCEPT !.count = @ + 1]
    /\ LET fresh == {c \in stateCache : now < CacheValidUntil(c)}
       IN req' = [req EXCEPT ![r] =
            [NoRequest EXCEPT !.open = TRUE, !.at = now,
                !.phase  = IF fresh = {} THEN "feed" ELSE "done",
                !.cached = IF fresh = {} THEN days[DayOf(now)] ELSE {},
                !.state  = {c.state : c \in fresh}]]
    /\ UNCHANGED <<now, currency, days, stateCache, paymentsCache, landed>>

\* A page awaits currentState and currentPayments together. The two share no state, so the
\* second is followed on its own.
AskPayments(r) ==
    /\ ~ req[r].open /\ asks.what = "payments" /\ asks.count < MaxAsked
    /\ asks' = [asks EXCEPT !.count = @ + 1]
    /\ LET fresh == {p \in paymentsCache : now - p.fetched < PAYMENTS_TTL}
       IN req' = [req EXCEPT ![r] =
            [NoRequest EXCEPT !.open = TRUE, !.at = now,
                !.pay = IF fresh = {} THEN "rpc" ELSE "done", !.snap = fresh]]
    /\ UNCHANGED <<now, currency, days, stateCache, paymentsCache, landed>>

\* currentState's last step: the built state replaces the cache, whoever else wrote it since.
Built(r, state) ==
    /\ stateCache' = {[fetched |-> req[r].at, state |-> state]}
    /\ req' = [req EXCEPT ![r].phase = "done", ![r].cached = {}, ![r].read = {},
                          ![r].state = {state}]

\* buildState goes on with what the feed said.
Continue(r, read) ==
    IF NeedsRate(read)
    THEN req' = [req EXCEPT ![r].phase = "fx", ![r].read = {read}] /\ UNCHANGED stateCache
    ELSE Built(r, QuotedInSek(read, req[r].at))

\* EnergySpotFeed.readWindow: the source answered. A day file that can be read is kept.
FeedAnswers(r, body) ==
    /\ req[r].phase = "feed"
    /\ Continue(r, ClassifyDayBody(body, req[r].at, req[r].at, FALSE))
    /\ days' = IF IsMalformedDayBody(body) THEN days
               ELSE [days EXCEPT ![DayOf(req[r].at)] = {[body |-> body, readAt |-> req[r].at]}]
    /\ UNCHANGED <<now, currency, asks, paymentsCache, landed>>

\* The source failed or answered an error: the file held since before the call is used.
FeedFails(r, status) ==
    /\ req[r].phase = "feed"
    /\ Continue(r, IF req[r].cached = {} THEN NoPrice(status, TRUE)
                   ELSE LET day == CHOOSE c \in req[r].cached : TRUE
                        IN ClassifyDayBody(day.body, req[r].at, day.readAt, TRUE))
    /\ UNCHANGED <<now, currency, asks, days, paymentsCache, landed>>

\* EcbFxFeed.read and readFxOrUnreachable: no document and one that does not parse are alike.
FxAnswers(r, fx) ==
    /\ req[r].phase = "fx"
    /\ LET read == CHOOSE x \in req[r].read : TRUE
       IN Built(r, QuotedInUsd(read, req[r].at, fx))
    /\ UNCHANGED <<now, currency, asks, days, paymentsCache, landed>>

\* fetchBalance
ReadBalance(r) ==
    /\ req[r].pay = "rpc" /\ req[r].balance = {}
    /\ req' = [req EXCEPT ![r].balance = {Len(landed)}]
    /\ UNCHANGED <<now, currency, asks, days, stateCache, paymentsCache, landed>>

\* fetchPayments: the newest signatures; one whose transaction the node does not return is
\* left out of the list.
ListPayments(r, missing) ==
    /\ req[r].pay = "rpc" /\ req[r].list = {}
    /\ LET newest == {p \in DOMAIN landed : p > Len(landed) - PAGE_LIMIT}
       IN /\ missing \subseteq newest
          /\ req' = [req EXCEPT ![r].list = {newest \ missing}, ![r].lost = missing # {}]
    /\ UNCHANGED <<now, currency, asks, days, stateCache, paymentsCache, landed>>

\* currentPayments when both calls came back.
PaymentsRead(r) ==
    LET snap == [fetched |-> req[r].at, payments |-> UNION req[r].list, balance |-> req[r].balance,
                 error |-> FALSE, okAt |-> {req[r].at}, lost |-> req[r].lost]
    IN /\ req[r].pay = "rpc" /\ req[r].balance # {} /\ req[r].list # {}
       /\ paymentsCache' = {snap}
       /\ req' = [req EXCEPT ![r].pay = "done", ![r].snap = {snap}, ![r].balance = {},
                             ![r].list = {}, ![r].lost = FALSE]
       /\ UNCHANGED <<now, currency, asks, days, stateCache, landed>>

Empty == [fetched |-> 0, payments |-> {}, balance |-> {}, error |-> TRUE, okAt |-> {}, lost |-> FALSE]

\* currentPayments when either call failed: the list stays as of its last good read.
PaymentsFail(r) ==
    LET old  == IF paymentsCache = {} THEN Empty ELSE CHOOSE p \in paymentsCache : TRUE
        snap == [old EXCEPT !.fetched = req[r].at, !.error = TRUE]
    IN /\ req[r].pay = "rpc"
       /\ paymentsCache' = {snap}
       /\ req' = [req EXCEPT ![r].pay = "done", ![r].snap = {snap}, ![r].balance = {},
                             ![r].list = {}, ![r].lost = FALSE]
       /\ UNCHANGED <<now, currency, asks, days, stateCache, landed>>

\* The handler writes its answer and the request is over.
Reply(r) ==
    /\ req[r].open /\ req[r].phase = "done" /\ req[r].pay = "done"
    /\ req' = [req EXCEPT ![r] = NoRequest]
    /\ UNCHANGED <<now, currency, asks, days, stateCache, paymentsCache, landed>>

Tick ==
    /\ now < LastTick
    /\ now' = now + 1
    /\ UNCHANGED <<currency, asks, days, stateCache, paymentsCache, landed, req>>

\* A payment lands on the merchant's token account.
Land ==
    /\ Len(landed) < MaxPayments /\ asks.what = "payments"
    /\ landed' = Append(landed, now)
    /\ UNCHANGED <<now, currency, asks, days, stateCache, paymentsCache, req>>

TerminalNext ==
    \/ \E r \in Requests :
        \/ AskQuote(r) \/ AskPayments(r)
        \/ \E body \in DayBodies(DayOf(req[r].at)) : FeedAnswers(r, body)
        \/ \E status \in {"unreachable", "http_error"} : FeedFails(r, status)
        \/ \E fx \in {{}} \union {ParseEcbDailyXml(doc) : doc \in FxDocs} : FxAnswers(r, fx)
        \/ ReadBalance(r)
        \/ \E missing \in SUBSET DOMAIN landed : ListPayments(r, missing)
        \/ PaymentsRead(r) \/ PaymentsFail(r) \/ Reply(r)
    \/ Tick \/ Land

TerminalSpec == TerminalInit /\ [][TerminalNext]_terminalVars

-----------------------------------------------------------------------------
(* Properties                                                              *)

\* quoteResponse answers 200.
Offered(r) == {s \in req[r].state : s.feed = "ok" /\ s.quote # {}}
Offers(r) == UNION {s.quote : s \in Offered(r)}

\* The caches and the requests hold what their types say.
TypeOK ==
    /\ now \in 0 .. LastTick
    /\ \A d \in DOMAIN days : Cardinality(days[d]) <= 1
    /\ Cardinality(stateCache) <= 1 /\ Cardinality(paymentsCache) <= 1
    /\ \A r \in Requests :
        /\ req[r].phase \in {"feed", "fx", "done"} /\ req[r].pay \in {"rpc", "done"}
        /\ asks.what = "quote" /\ req[r].open /\ req[r].phase = "done" => Cardinality(req[r].state) = 1

\* currentState: whatever cache it came from and however its awaits interleaved, a quote is
\* for a window that contains the instant the request asked at, taken from a file the source
\* served for that day, and its nonce is the start of that window.
QuoteIsForItsInstant ==
    \A r \in Requests : \A q \in Offers(r) :
        /\ q.window.start <= req[r].at /\ req[r].at < q.window.end
        /\ \E body \in DayBodies(DayOf(req[r].at)) : q.window \in Range(body.entries)
        /\ \A n \in q.nonce : n = q.window.start

\* The number of days from one date to a later one, by counting them.
WithinDays(date, later, n) ==
    \E k \in 0 .. n : FoldLeft(LAMBDA d, i : NextDay(d), date, [i \in 1 .. k |-> i]) = later

\* quoteForWindow and amountBaseUnitsQuoted: the amount is the published decimal price times
\* the volume times the rate, rounded down: exactly so when the price is no finer than
\* PRICE_SCALE, never above it otherwise. A converted quote names a fixing of this date or of
\* the last FX_MAX_CALENDAR_DAYS days by the calendar.
QuoteIsExact ==
    \A r \in Requests : \A q \in Offers(r) :
        LET price == Fraction(q.window.price)
            rate  == IF q.fx = {} THEN [usd |-> 1, sek |-> 1] ELSE CHOOSE f \in q.fx : TRUE
            num   == price.num * KwhMilli * rate.usd * Pow10(MintDecimals)
            den   == price.den * Pow10(KWH_MILLI_SCALE) * rate.sek
        IN /\ ~ q.window.price.neg
           /\ q.amount > 0 /\ q.amount * den <= num
           /\ Pow10(PRICE_SCALE) % price.den = 0 => num < (q.amount + 1) * den
           /\ q.fx # {} <=> currency = "USD"
           /\ \A f \in q.fx : WithinDays(f.date, DateOf(req[r].at), FX_MAX_CALENDAR_DAYS)

\* currentPayments: the list on a page is no older than the time it is said to be from. Every
\* payment that landed before that time is on it, up to the page's limit, unless the node
\* withheld its transaction, and the balance counts at least as many.
PaymentsAreAsOldAsSaid ==
    \A r \in Requests : \A s \in req[r].snap : \A t \in s.okAt :
        LET before == {p \in DOMAIN landed : landed[p] < t}
            oldest == IF s.payments = {} THEN Len(landed) + 1 ELSE Min(s.payments)
        IN /\ \A n \in s.balance : Cardinality(before) <= n
           /\ ~ s.lost => \A p \in before : p \in s.payments \/ (p < oldest /\ s.payments # {})

=============================================================================
