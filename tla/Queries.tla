------------------------------ MODULE Queries ------------------------------
(***************************************************************************)
(* The requests the methods of packages marketdata and trade make of their *)
(* arguments.  A query is the set of its <<key, value>> pairs.             *)
(*                                                                         *)
(* The arguments of a call are a record: `set` gives the values of the     *)
(* fields that are not zero, by the key they are sent under (a list counts *)
(* as one value, a NullDecimal is there if it is valid), and `flags` names *)
(* the boolean fields that are true.                                       *)
(***************************************************************************)
EXTENDS Integers

\* Params.Set, SetList, SetInt and SetBool leave out a value that is not set.
Opts(a, keys) == {<<k, a.set[k]>> : k \in keys \cap DOMAIN a.set}

\* strconv.FormatBool
Truth(b) == IF b THEN "true" ELSE "false"

\* A flag that is sent when it is true, and one that is always sent.
Flag(a, flag, key) == IF flag \in a.flags THEN {<<key, "true">>} ELSE {}
Always(a, flag, key) == {<<key, Truth(flag \in a.flags)>>}

Fixed(category) == {<<"category", category>>}
Category(a) ==
  Fixed(IF "category" \in DOMAIN a.set THEN a.set["category"] ELSE "US_STOCK")

-----------------------------------------------------------------------------
(* marketdata: stocks. *)

SnapshotsQuery(a) ==
  Opts(a, {"symbols"}) \cup Category(a)
    \cup Flag(a, "extendedHours", "extend_hour_required")
    \cup Flag(a, "overnight", "overnight_required")

DepthQuery(a) ==
  Opts(a, {"symbol", "depth"}) \cup Category(a) \cup Always(a, "overnight", "overnight_required")

TicksQuery(a) == Opts(a, {"symbol", "count", "trading_sessions"}) \cup Category(a)

\* The fields of a JSON body that are sent also when they are zero.
Required(a, keys) ==
  {<<k, IF k \in DOMAIN a.set THEN a.set[k] ELSE "zero">> : k \in keys}

\* RealTimeRequired points to false, or is omitted.
BarsBody(a) ==
  Required(a, {"symbols", "timespan"}) \cup Category(a)
    \cup Opts(a, {"count", "trading_sessions", "start_time", "end_time"})
    \cup IF "completed" \in a.flags THEN {<<"real_time_required", "false">>} ELSE {}

FootprintParams(a, category) ==
  Opts(a, {"symbols", "timespan", "count", "trading_sessions"}) \cup category
    \cup {<<"real_time_required", Truth("completed" \notin a.flags)>>}

ImbalanceParams(a) == Opts(a, {"symbol", "imbalance_action_type"}) \cup Category(a)

(* marketdata: the other asset classes. *)

\* Faulty variant of AssetBarsParams: the flag is sent as it is named.
CompletedAsRealTime(a, category) ==
  Opts(a, {"symbols", "timespan", "count"}) \cup Fixed(category)
    \cup Always(a, "completed", "real_time_required")

AssetBarsParams(a, category) ==
  Opts(a, {"symbols", "timespan", "count"}) \cup Fixed(category)
    \cup CASE category \in {"US_CRYPTO", "US_EVENT"} ->
                {<<"real_time_required", Truth("completed" \notin a.flags)>>}
           [] category = "US_OPTION" /\ "completed" \in a.flags ->
                {<<"real_time_required", "false">>}
           [] OTHER -> {}

AssetParams(a, keys, category) == Opts(a, keys) \cup Fixed(category)

\* Faulty variant of FuturesQuery: footprints are asked for as those of stocks.
AsStocks(operation, a) ==
  IF operation = "FuturesFootprints" THEN FootprintParams(a, Category(a))
  ELSE AssetParams(a, {"symbol", "symbols", "count", "depth"}, "US_FUTURES")

FuturesQuery(operation, a) ==
  CASE operation = "FuturesSnapshots" -> AssetParams(a, {"symbols"}, "US_FUTURES")
    [] operation = "FuturesTicks" -> AssetParams(a, {"symbol", "count"}, "US_FUTURES")
    [] operation = "FuturesDepth" -> AssetParams(a, {"symbol", "depth"}, "US_FUTURES")
    [] operation = "FuturesBars" -> AssetBarsParams(a, "US_FUTURES")
    [] operation = "FuturesFootprints" -> FootprintParams(a, Fixed("US_FUTURES"))

OptionQuery(operation, a) ==
  CASE operation = "OptionSnapshots" -> AssetParams(a, {"symbols"}, "US_OPTION")
    [] operation = "OptionTicks" -> AssetParams(a, {"symbol", "count"}, "US_OPTION")
    [] operation = "OptionBars" -> AssetBarsParams(a, "US_OPTION")

CryptoQuery(operation, a) ==
  CASE operation = "CryptoSnapshots" -> AssetParams(a, {"symbols"}, "US_CRYPTO")
    [] operation = "CryptoBars" -> AssetBarsParams(a, "US_CRYPTO")

EventQuery(operation, a) ==
  CASE operation = "EventSnapshots" -> AssetParams(a, {"symbols"}, "US_EVENT")
    [] operation = "EventTicks" -> AssetParams(a, {"symbol", "count"}, "US_EVENT")
    [] operation = "EventDepth" -> AssetParams(a, {"symbol", "depth"}, "US_EVENT")
    [] operation = "EventBars" -> AssetBarsParams(a, "US_EVENT")

(* marketdata: fundamentals, funds, statements and screeners. *)

SymbolParams(a) == Opts(a, {"symbol"}) \cup Category(a)

FundamentalsQuery(operation, a) ==
  CASE operation = "CapitalFlows" -> SymbolParams(a) \cup Opts(a, {"count"})
    [] operation = "IndustryComparison" -> SymbolParams(a) \cup Opts(a, {"sort_by"})
    [] operation \in {"CompanyProfile", "AnalystRating", "TargetPrice", "DividendCalendar",
                      "EarningsCalendar", "Filings", "ForecastEPS"} -> SymbolParams(a)

FundQuery(operation, a) ==
  CASE operation = "FundDividends" -> SymbolParams(a) \cup Opts(a, {"pagination_key"})
    [] operation = "FundNetValues" -> SymbolParams(a) \cup Opts(a, {"last_date", "count"})
    [] operation \in {"FundBrief", "FundAllocations", "FundFiles", "FundHoldings",
                      "FundPerformance", "FundRatings", "FundSplits"} -> SymbolParams(a)

FinancialsParams(a) == SymbolParams(a) \cup Opts(a, {"type", "count"})

StatementQuery(operation, a) ==
  IF operation = "FinancialAlert" THEN SymbolParams(a) ELSE FinancialsParams(a)

ScreenerQuery(operation, a) ==
  Category(a) \cup
    CASE operation \in {"GainersLosers", "TopActive", "Week52HighLow"} ->
           Opts(a, {"rank_type", "sort_by", "direction"})
      [] operation = "HighDividend" -> Opts(a, {"sort_by", "direction"})
      [] operation = "MarketSectors" ->
           Opts(a, {"agg_type", "period", "direction", "pagination_key"})
      [] operation = "SectorDetail" ->
           Opts(a, {"sector_id", "period", "sort_by", "direction", "pagination_key"})

-----------------------------------------------------------------------------
(* trade *)

CashActivitiesQuery(a) ==
  Opts(a, {"account_id", "activity_types", "start_time", "end_time", "last_activity_id",
           "page_size"})

ProfilesQuery(operation, a) ==
  Opts(a, {"symbols", "status", "pagination_key"}) \cup
    CASE operation = "StockProfiles" -> Fixed("US_STOCK") \cup Opts(a, {"sub_category"})
      [] operation = "CryptoProfiles" -> Fixed("US_CRYPTO")

OptionContractsQuery(a) ==
  Opts(a, {"option_symbols", "underlying_symbols", "status", "start_date", "end_date",
           "root_symbol", "option_type", "style", "strike_price_gte", "strike_price_lte",
           "ppind", "pagination_key"})
    \cup Fixed("US_OPTION")
    \cup IF "showDeliverables" \in a.flags THEN {<<"show_deliverables", "TRUE">>} ELSE {}

FuturesReferenceQuery(operation, a) ==
  Fixed("US_FUTURES") \cup
    CASE operation = "FuturesProductClasses" -> {}
      [] operation = "FuturesProducts" -> Opts(a, {"product_class_id"})
      [] operation = "FuturesContracts" -> Opts(a, {"symbols", "code", "status"})

EventReferenceQuery(operation, a) ==
  CASE operation = "EventCategories" -> {}
    [] operation = "EventSeries" -> Opts(a, {"category", "symbols", "pagination_key"})
    [] operation = "Events" -> Opts(a, {"series_symbol", "symbols", "status"})
    [] operation = "EventMarkets" ->
         Opts(a, {"series_symbol", "event_symbol", "symbols", "expiration_date_after",
                  "pagination_key"})

\* The dates apply to the history only.
OrdersParams(operation, a) ==
  Opts(a, {"account_id", "page_size", "last_client_order_id"})
    \cup IF operation = "OrderHistory" THEN Opts(a, {"start_date", "end_date"}) ELSE {}

-----------------------------------------------------------------------------
(* Methods.  Everything else is a GET. *)

WatchlistPosts ==
  {"CreateWatchlist", "UpdateWatchlist", "DeleteWatchlist", "AddWatchlistInstruments",
   "RemoveWatchlistInstruments", "UpdateWatchlistInstruments"}
OrderPosts == {"PreviewOrder", "PlaceOrder", "PlaceOrders", "ReplaceOrder", "CancelOrder"}
ComboPosts == {"PreviewCombo", "PlaceCombo"}
StreamPosts == {"Subscribe", "Unsubscribe"}
TokenPosts == {"CreateAccessToken", "CheckAccessToken"}
GrantPosts == {"ExchangeCode", "Refresh"}

\* Faulty variant of Method: an order operation is sent like the look-ups of orders.
OrdersByGet(operation) ==
  IF operation \in {"Bars"} \cup WatchlistPosts \cup ComboPosts \cup StreamPosts
       \cup TokenPosts \cup GrantPosts
    THEN "POST" ELSE "GET"

Method(operation) ==
  IF operation \in {"Bars"} \cup WatchlistPosts \cup OrderPosts \cup ComboPosts
       \cup StreamPosts \cup TokenPosts \cup GrantPosts
    THEN "POST" ELSE "GET"

\* What changes something at Webull: an order, a watchlist, a subscription, or
\* the tokens of the user.
Effects ==
  WatchlistPosts \cup ((OrderPosts \cup ComboPosts) \ {"PreviewOrder", "PreviewCombo"})
    \cup StreamPosts \cup {"CreateAccessToken"} \cup GrantPosts

-----------------------------------------------------------------------------
(* Properties. *)

\* The operations that return bars or footprints, and their queries.
BarQueries(a) ==
  [Bars |-> BarsBody(a),
   Footprints |-> FootprintParams(a, Category(a)),
   OptionBars |-> OptionQuery("OptionBars", a),
   CryptoBars |-> CryptoQuery("CryptoBars", a),
   EventBars |-> EventQuery("EventBars", a),
   FuturesFootprints |-> FuturesQuery("FuturesFootprints", a)]

\* "Completed omits the bar still forming": it is asked for by a false
\* real_time_required, and by nothing else, whichever way the asset class takes
\* the parameter.
CompletedIsHonoured(calls) ==
  \A a \in calls : \A operation \in DOMAIN BarQueries(a) :
    "completed" \in a.flags <=>
      <<"real_time_required", "false">> \in BarQueries(a)[operation]

\* An operation of one asset class asks for that class, whatever category its
\* arguments share with an operation of stocks.
AssetIsFixed(calls) ==
  \A a \in calls :
    LET asked(query) == {pair[2] : pair \in {p \in query : p[1] = "category"}} IN
      /\ \A operation \in {"FuturesSnapshots", "FuturesTicks", "FuturesDepth", "FuturesBars",
                            "FuturesFootprints"} :
           asked(FuturesQuery(operation, a)) = {"US_FUTURES"}
      /\ \A operation \in {"CryptoSnapshots", "CryptoBars"} :
           asked(CryptoQuery(operation, a)) = {"US_CRYPTO"}
      /\ \A operation \in {"OptionSnapshots", "OptionTicks", "OptionBars"} :
           asked(OptionQuery(operation, a)) = {"US_OPTION"}
      /\ asked(ImbalanceParams(a)) = asked(SymbolParams(a))

=============================================================================
