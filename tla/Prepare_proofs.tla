-------------------------- MODULE Prepare_proofs --------------------------
(***************************************************************************)
(* Proofs about the way from the price board and the spreadsheets to the   *)
(* staged rows: how old prices can be, what a browser reads of the board,  *)
(* what imports leave in the database, and how many rows prepares of a     *)
(* campaign stage.                                                         *)
(***************************************************************************)
EXTENDS MCPrepare, Lemmas

---------------------------------------------------------------------------
(* Prices.                                                                 *)

RefreshPcs == {"idle", "api", "static", "launch", "collect", "content", "wait", "merge",
               "write", "done", "failed"}

\* What the cache holds until some time was fetched before now, and so were what a
\* snapshot request holds and what a refresh is about to write.
PriceInv ==
    /\ now \in 0..MaxTime
    /\ board \in Boards
    /\ refresh = [r \in Refreshes |-> refresh[r]]
    /\ \A r \in Refreshes :
         /\ DOMAIN refresh[r] = DOMAIN Idle
         /\ refresh[r].pc \in RefreshPcs
         /\ refresh[r].pc = "write" => refresh[r].fetched \in 0..now
    /\ DOMAIN cache = DOMAIN NoPrices
    /\ cache.until \in -1..(MaxTime + TTL)
    /\ cache.until # -1 => cache.fetched \in 0..now
    /\ creator = [c \in Creators |-> creator[c]]
    /\ \A c \in Creators :
         /\ DOMAIN creator[c] = {"pc", "held"}
         /\ creator[c].pc = "insert" => creator[c].held.fetched \in 0..now
    /\ Len(snapshots) \in Nat /\ DOMAIN snapshots = 1..Len(snapshots)
    /\ snapshots \in Seq(Range(snapshots))
    /\ \A i \in 1..Len(snapshots) :
         /\ snapshots[i].fetched \in 0..now
         /\ snapshots[i].expires = snapshots[i].fetched + TTL

\* Whatever a sequence holds, Append adds one element at its end.
LEMMA AppendAny ==
    ASSUME NEW seq, seq \in Seq(Range(seq)), NEW x
    PROVE  /\ Append(seq, x) \in Seq(Range(Append(seq, x)))
           /\ Len(Append(seq, x)) = Len(seq) + 1 /\ Len(seq) \in Nat
           /\ DOMAIN Append(seq, x) = 1..(Len(seq) + 1)
           /\ \A i \in 1..Len(seq) : Append(seq, x)[i] = seq[i]
           /\ Append(seq, x)[Len(seq) + 1] = x
<1> DEFINE S == Range(seq) \cup {x}
<1>1. seq \in Seq(S)
    BY SeqMonotonic
<1> HIDE DEF S
<1>2. /\ Append(seq, x) \in Seq(S) /\ Len(Append(seq, x)) = Len(seq) + 1
      /\ \A i \in 1..Len(seq) : Append(seq, x)[i] = seq[i]
      /\ Append(seq, x)[Len(seq) + 1] = x
    BY <1>1, AppendProperties, x \in S DEF S
<1>3. Len(seq) \in Nat /\ DOMAIN Append(seq, x) = 1..(Len(seq) + 1)
    BY <1>1, <1>2
<1>4. Append(seq, x) \in Seq(Range(Append(seq, x)))
    BY <1>2, SeqOfRange
<1> QED BY <1>2, <1>3, <1>4

LEMMA PriceInvInit ==
    PriceInit => PriceInv
<1> SUFFICES ASSUME PriceInit PROVE PriceInv
    OBVIOUS
<1>1. Len(snapshots) = 0 /\ DOMAIN snapshots = 1..0 /\ snapshots \in Seq(Range(snapshots))
    BY DEF PriceInit, Range
<1>2. MaxTime \in Nat /\ TTL \in Nat
    BY PriceAssumption
<1> QED BY <1>1, <1>2 DEF PriceInit, PriceInv, Idle, NoPrices, RefreshPcs

\* One refresh moves, to a time it has not passed.
LEMMA RefreshMoves ==
    ASSUME PriceInv, NEW r \in Refreshes, NEW rec, Set(r, rec),
           DOMAIN rec = DOMAIN Idle, rec.pc \in RefreshPcs, rec.pc = "write" => rec.fetched \in 0..now,
           BoardSame,
           \/ cache' = cache
           \/ /\ DOMAIN cache' = DOMAIN NoPrices
              /\ cache'.until \in 0..(MaxTime + TTL) /\ cache'.fetched \in 0..now
    PROVE  PriceInv'
<1>1. refresh' = [q \in Refreshes |-> refresh'[q]] /\ refresh'[r] = rec
      /\ \A q \in Refreshes : q # r => refresh'[q] = refresh[q]
    BY DEF PriceInv, Set
<1>2. \A q \in Refreshes : /\ DOMAIN refresh'[q] = DOMAIN Idle
                           /\ refresh'[q].pc \in RefreshPcs
                           /\ refresh'[q].pc = "write" => refresh'[q].fetched \in 0..now
    BY <1>1 DEF PriceInv
<1>3. /\ DOMAIN cache' = DOMAIN NoPrices
      /\ cache'.until \in -1..(MaxTime + TTL)
      /\ cache'.until # -1 => cache'.fetched \in 0..now
    BY PriceAssumption DEF PriceInv
<1>4. now' = now /\ board' = board /\ snapshots' = snapshots /\ creator' = creator
    BY DEF BoardSame
<1> HIDE DEF Idle, NoPrices, RefreshPcs
<1> QED BY <1>1, <1>2, <1>3, <1>4 DEF PriceInv

LEMMA RefreshKeepsPrices ==
    ASSUME PriceInv, NEW r \in Refreshes, RefreshStep(r) \/ BrowserStep(r)
    PROVE  PriceInv'
<1> DEFINE f == refresh[r]
<1>1. /\ DOMAIN f = {"pc", "since", "items", "fetched", "source", "page", "view", "label", "before",
                     "rows", "skus", "seen", "smooth"}
      /\ DOMAIN Idle = DOMAIN f
      /\ f.pc \in RefreshPcs
      /\ f.pc = "write" => f.fetched \in 0..now
      /\ now \in 0..MaxTime
    BY DEF PriceInv, Idle
<1>2. ASSUME NEW items, NEW source, normalize_payload(r, items, source), BoardSame, cache' = cache
      PROVE  PriceInv'
  <2> DEFINE rec == [f EXCEPT !.pc = "write", !.items = items, !.fetched = now, !.source = source]
  <2>1. DOMAIN rec = DOMAIN Idle /\ rec.pc = "write" /\ rec.fetched = now
      BY <1>1
  <2>2. Set(r, rec)
      BY <1>2 DEF normalize_payload
  <2> HIDE DEF rec
  <2>3. now \in 0..now
      BY <1>1, PriceAssumption
  <2> QED BY <1>2, <2>1, <2>2, <2>3, RefreshMoves DEF RefreshPcs
<1>3. CASE BeginRefresh(r)
  <2> DEFINE rec == [Idle EXCEPT !.pc = "api", !.since = now]
  <2>1. DOMAIN rec = DOMAIN Idle /\ rec.pc = "api"
      BY DEF Idle
  <2>2. Set(r, rec) /\ BoardSame /\ cache' = cache
      BY <1>3 DEF BeginRefresh
  <2> HIDE DEF rec
  <2> QED BY <2>1, <2>2, RefreshMoves DEF RefreshPcs
<1>4. CASE fetch_pricing_from_api(r)
  <2>1. BoardSame /\ cache' = cache
      BY <1>4 DEF fetch_pricing_from_api
  <2>2. CASE \E items \in {FlattenSeq(board), <<>>} : normalize_payload(r, items, "pricing_api")
      BY <1>2, <2>1, <2>2
  <2>3. CASE Set(r, [f EXCEPT !.pc = "static"])
    <3> DEFINE rec == [f EXCEPT !.pc = "static"]
    <3>1. DOMAIN rec = DOMAIN Idle /\ rec.pc = "static"
        BY <1>1
    <3> HIDE DEF rec
    <3> QED BY <2>1, <2>3, <3>1, RefreshMoves DEF RefreshPcs, rec
  <2> QED BY <1>4, <2>2, <2>3 DEF fetch_pricing_from_api
<1>5. CASE scrape_pricing_page(r)
  <2>1. BoardSame /\ cache' = cache
      BY <1>5 DEF scrape_pricing_page
  <2>2. \/ \E items : normalize_payload(r, items, "html_scraper")
        \/ Set(r, [f EXCEPT !.pc = "launch"])
      BY <1>5 DEF scrape_pricing_page
  <2>3. CASE Set(r, [f EXCEPT !.pc = "launch"])
    <3> DEFINE rec == [f EXCEPT !.pc = "launch"]
    <3>1. DOMAIN rec = DOMAIN Idle /\ rec.pc = "launch"
        BY <1>1
    <3> HIDE DEF rec
    <3> QED BY <2>1, <2>3, <3>1, RefreshMoves DEF RefreshPcs, rec
  <2> QED BY <1>2, <2>1, <2>2, <2>3
<1>6. CASE _write_pricing_cache(r)
  <2>1. BoardSame /\ f.pc = "write"
      BY <1>6 DEF _write_pricing_cache
  <2>2. CASE /\ cache' = [items |-> f.items, fetched |-> f.fetched, until |-> now + TTL,
                          source |-> f.source, since |-> f.since, smooth |-> f.smooth]
             /\ Set(r, [Idle EXCEPT !.pc = "done"])
    <3> DEFINE rec == [Idle EXCEPT !.pc = "done"]
    <3>1. DOMAIN rec = DOMAIN Idle /\ rec.pc = "done"
        BY DEF Idle
    <3>2. DOMAIN cache' = DOMAIN NoPrices /\ cache'.until = now + TTL /\ cache'.fetched = f.fetched
        BY <2>2 DEF NoPrices
    <3>3. cache'.until \in 0..(MaxTime + TTL) /\ cache'.fetched \in 0..now
        BY <1>1, <2>1, <3>2, PriceAssumption
    <3>4. Set(r, rec)
        BY <2>2
    <3> HIDE DEF rec
    <3> QED BY <2>1, <3>1, <3>2, <3>3, <3>4, RefreshMoves DEF RefreshPcs
  <2>3. CASE /\ Set(r, [Idle EXCEPT !.since = f.since,
                                    !.pc = IF f.source = "pricing_api" THEN "static" ELSE "failed"])
             /\ UNCHANGED cache
    <3> DEFINE rec == [Idle EXCEPT !.since = f.since,
                                   !.pc = IF f.source = "pricing_api" THEN "static" ELSE "failed"]
    <3>1. DOMAIN rec = DOMAIN Idle /\ rec.pc \in {"static", "failed"}
        BY DEF Idle
    <3>2. Set(r, rec)
        BY <2>3
    <3> HIDE DEF rec
    <3> QED BY <2>1, <2>3, <3>1, <3>2, RefreshMoves DEF RefreshPcs
  <2> QED BY <1>6, <2>2, <2>3 DEF _write_pricing_cache
\* With the browser a refresh only moves to another step of the reading.
<1>7. ASSUME NEW rec, Set(r, rec), DOMAIN rec = DOMAIN f, rec.pc \in RefreshPcs \ {"write"},
             BoardSame, cache' = cache
      PROVE  PriceInv'
    BY <1>1, <1>7, RefreshMoves
<1>8. CASE LaunchBrowser(r)
  <2>1. BoardSame /\ cache' = cache
      BY <1>8 DEF LaunchBrowser
  <2>2. \E rec : Set(r, rec) /\ DOMAIN rec = DOMAIN f /\ rec.pc \in {"collect", "failed"}
    <3>1. CASE \E rows \in {board[1], <<>>} :
                 Set(r, [f EXCEPT !.pc = "collect", !.page = 1, !.view = 1,
                                  !.label = 1, !.rows = rows])
      <4>1. PICK rows : Set(r, [f EXCEPT !.pc = "collect", !.page = 1, !.view = 1,
                                         !.label = 1, !.rows = rows])
          BY <3>1
      <4> DEFINE rec == [f EXCEPT !.pc = "collect", !.page = 1, !.view = 1, !.label = 1, !.rows = rows]
      <4>2. DOMAIN rec = DOMAIN f /\ rec.pc = "collect"
          BY <1>1
      <4> QED BY <4>1, <4>2
    <3>2. CASE Set(r, [f EXCEPT !.pc = "failed"])
        BY <1>1, <3>2
    <3> QED BY <1>8, <3>1, <3>2 DEF LaunchBrowser
  <2> QED BY <1>7, <2>1, <2>2 DEF RefreshPcs
<1>9. CASE CollectSkus(r)
  <2> DEFINE signature == RowSkus(f.rows)
             next == IF signature # {} /\ signature \in f.seen THEN "merge" ELSE "content"
             rec == [f EXCEPT !.pc = next, !.skus = signature,
                              !.seen = @ \union ({signature} \ {{}}),
                              !.smooth = @ /\ Rendered(f)]
  <2>1. Set(r, rec) /\ BoardSame /\ cache' = cache
      BY <1>9 DEF CollectSkus
  <2>2. DOMAIN rec = DOMAIN f /\ rec.pc = next
      BY <1>1
  <2>3. next \in RefreshPcs \ {"write"}
      BY DEF RefreshPcs
  <2> HIDE DEF rec, next
  <2> QED BY <1>7, <2>1, <2>2, <2>3
<1>10. CASE ReadContent(r)
  <2> DEFINE read == [f EXCEPT !.items = @ \o scrape_pricing_from_html(f.rows, FALSE)]
  <2>1. BoardSame /\ cache' = cache
      BY <1>10 DEF ReadContent
  <2>2. DOMAIN read = DOMAIN f
      OBVIOUS
  <2>3. \/ Set(r, [read EXCEPT !.pc = "wait", !.before = f.label, !.view = _click_next_page(f)])
        \/ Set(r, [read EXCEPT !.pc = "merge", !.smooth = FALSE])
        \/ Set(r, [read EXCEPT !.pc = "merge"])
      BY <1>10 DEF ReadContent
  <2> HIDE DEF read
  <2>4. \E rec : Set(r, rec) /\ DOMAIN rec = DOMAIN f /\ rec.pc \in {"wait", "merge"}
    <3>1. CASE Set(r, [read EXCEPT !.pc = "wait", !.before = f.label, !.view = _click_next_page(f)])
      <4> DEFINE rec == [read EXCEPT !.pc = "wait", !.before = f.label, !.view = _click_next_page(f)]
      <4>1. DOMAIN rec = DOMAIN f /\ rec.pc = "wait"
          BY <1>1, <2>2
      <4> QED BY <3>1, <4>1
    <3>2. CASE Set(r, [read EXCEPT !.pc = "merge", !.smooth = FALSE])
      <4> DEFINE rec == [read EXCEPT !.pc = "merge", !.smooth = FALSE]
      <4>1. DOMAIN rec = DOMAIN f /\ rec.pc = "merge"
          BY <1>1, <2>2
      <4> QED BY <3>2, <4>1
    <3>3. CASE Set(r, [read EXCEPT !.pc = "merge"])
      <4> DEFINE rec == [read EXCEPT !.pc = "merge"]
      <4>1. DOMAIN rec = DOMAIN f /\ rec.pc = "merge"
          BY <1>1, <2>2
      <4> QED BY <3>3, <4>1
    <3> QED BY <2>3, <3>1, <3>2, <3>3
  <2> QED BY <1>7, <2>1, <2>4 DEF RefreshPcs
<1>11. CASE Render(r)
  <2>1. /\ BoardSame /\ cache' = cache
        /\ f.pc \in {"collect", "content", "wait"}
      BY <1>11 DEF Render
  <2>2. \/ Set(r, [f EXCEPT !.label = f.view])
        \/ Set(r, [f EXCEPT !.rows = board[f.view]])
      BY <1>11 DEF Render
  <2>3. \E rec : Set(r, rec) /\ DOMAIN rec = DOMAIN f /\ rec.pc = f.pc
    <3>1. CASE Set(r, [f EXCEPT !.label = f.view])
      <4> DEFINE rec == [f EXCEPT !.label = f.view]
      <4>1. DOMAIN rec = DOMAIN f /\ rec.pc = f.pc
          BY <1>1
      <4> QED BY <3>1, <4>1
    <3>2. CASE Set(r, [f EXCEPT !.rows = board[f.view]])
      <4> DEFINE rec == [f EXCEPT !.rows = board[f.view]]
      <4>1. DOMAIN rec = DOMAIN f /\ rec.pc = f.pc
          BY <1>1
      <4> QED BY <3>2, <4>1
    <3> QED BY <2>2, <3>1, <3>2
  <2> QED BY <1>7, <2>1, <2>3 DEF RefreshPcs
<1>12. CASE _wait_for_table_change(r)
  <2> DEFINE next == [f EXCEPT !.pc = "collect", !.page = @ + 1]
  <2>1. BoardSame /\ cache' = cache
      BY <1>12 DEF _wait_for_table_change
  <2>2. DOMAIN next = DOMAIN f /\ next.pc = "collect"
      BY <1>1
  <2>3. \/ Set(r, next)
        \/ Set(r, [next EXCEPT !.smooth = FALSE])
        \/ Set(r, [f EXCEPT !.pc = "merge", !.smooth = FALSE])
      BY <1>12 DEF _wait_for_table_change
  <2> HIDE DEF next
  <2>4. \E rec : Set(r, rec) /\ DOMAIN rec = DOMAIN f /\ rec.pc \in {"collect", "merge"}
    <3>1. CASE Set(r, [next EXCEPT !.smooth = FALSE])
      <4> DEFINE rec == [next EXCEPT !.smooth = FALSE]
      <4>1. DOMAIN rec = DOMAIN f /\ rec.pc = "collect"
          BY <1>1, <2>2
      <4> QED BY <3>1, <4>1
    <3>2. CASE Set(r, [f EXCEPT !.pc = "merge", !.smooth = FALSE])
      <4> DEFINE rec == [f EXCEPT !.pc = "merge", !.smooth = FALSE]
      <4>1. DOMAIN rec = DOMAIN f /\ rec.pc = "merge"
          BY <1>1
      <4> QED BY <3>2, <4>1
    <3> QED BY <2>2, <2>3, <3>1, <3>2
  <2> QED BY <1>7, <2>1, <2>4 DEF RefreshPcs
<1>13. CASE MergePages(r)
  <2>1. BoardSame /\ cache' = cache
      BY <1>13 DEF MergePages
  <2>2. \/ \E items : normalize_payload(r, items, "playwright_html_scraper")
        \/ Set(r, [f EXCEPT !.pc = "failed"])
      BY <1>13 DEF MergePages
  <2>3. CASE Set(r, [f EXCEPT !.pc = "failed"])
    <3> DEFINE rec == [f EXCEPT !.pc = "failed"]
    <3>1. DOMAIN rec = DOMAIN f /\ rec.pc = "failed"
        BY <1>1
    <3> HIDE DEF rec
    <3> QED BY <1>7, <2>1, <2>3, <3>1 DEF RefreshPcs, rec
  <2> QED BY <1>2, <2>1, <2>2, <2>3
<1> QED BY <1>3, <1>4, <1>5, <1>6, <1>8, <1>9, <1>10, <1>11, <1>12, <1>13 DEF RefreshStep, BrowserStep

LEMMA SnapshotKeepsPrices ==
    ASSUME PriceInv, NEW c \in Creators, SnapshotStep(c)
    PROVE  PriceInv'
<1>1. CASE get_cached_pricing(c)
  <2>1. /\ now' = now /\ board' = board /\ cache' = cache /\ snapshots' = snapshots
        /\ refresh' = refresh
      BY <1>1 DEF get_cached_pricing
  <2>2. CASE /\ cache # NoPrices /\ now < cache.until
             /\ creator' = [creator EXCEPT ![c] = [pc |-> "insert", held |-> cache]]
    <3>1. cache.fetched \in 0..now
        BY <2>2, PriceAssumption DEF PriceInv
    <3>2. /\ creator' = [d \in Creators |-> creator'[d]]
          /\ creator'[c] = [pc |-> "insert", held |-> cache]
          /\ \A d \in Creators : d # c => creator'[d] = creator[d]
        BY <2>2 DEF PriceInv
    <3>3. \A d \in Creators :
            /\ DOMAIN creator'[d] = {"pc", "held"}
            /\ creator'[d].pc = "insert" => creator'[d].held.fetched \in 0..now
        BY <3>1, <3>2 DEF PriceInv
    <3> QED BY <2>1, <3>2, <3>3 DEF PriceInv
  <2>3. CASE creator' = [creator EXCEPT ![c].pc = "failed"]
    <3>1. creator' = [creator EXCEPT ![c] = [creator[c] EXCEPT !.pc = "failed"]]
        BY <2>3
    <3>2. /\ creator' = [d \in Creators |-> creator'[d]]
          /\ creator'[c] = [creator[c] EXCEPT !.pc = "failed"]
          /\ \A d \in Creators : d # c => creator'[d] = creator[d]
        BY <3>1 DEF PriceInv
    <3>3. DOMAIN creator'[c] = {"pc", "held"} /\ creator'[c].pc = "failed"
        BY <3>2 DEF PriceInv
    <3>4. \A d \in Creators :
            /\ DOMAIN creator'[d] = {"pc", "held"}
            /\ creator'[d].pc = "insert" => creator'[d].held.fetched \in 0..now
        BY <3>2, <3>3 DEF PriceInv
    <3> QED BY <2>1, <3>2, <3>4 DEF PriceInv
  <2> QED BY <1>1, <2>2, <2>3 DEF get_cached_pricing
<1>2. CASE create_product_snapshot_from_cached_pricing(c)
  <2> DEFINE s == ProductSnapshot(creator[c].held)
             more == Append(snapshots, s)
  <2>1. /\ now' = now /\ board' = board /\ cache' = cache /\ refresh' = refresh
        /\ snapshots' = more
        /\ creator[c].pc = "insert"
        /\ creator' = [creator EXCEPT ![c] = [pc |-> "done", held |-> NoPrices]]
      BY <1>2 DEF create_product_snapshot_from_cached_pricing
  <2>2. s.fetched \in 0..now /\ s.expires = s.fetched + TTL
      BY <2>1 DEF PriceInv, ProductSnapshot, compute_expires_at
  <2>3. /\ creator' = [d \in Creators |-> creator'[d]]
        /\ creator'[c] = [pc |-> "done", held |-> NoPrices]
        /\ \A d \in Creators : d # c => creator'[d] = creator[d]
      BY <2>1 DEF PriceInv
  <2>4. \A d \in Creators :
          /\ DOMAIN creator'[d] = {"pc", "held"}
          /\ creator'[d].pc = "insert" => creator'[d].held.fetched \in 0..now
      BY <2>3 DEF PriceInv
  <2> HIDE DEF s
  <2>5. /\ more \in Seq(Range(more)) /\ Len(more) = Len(snapshots) + 1 /\ Len(snapshots) \in Nat
        /\ DOMAIN more = 1..(Len(snapshots) + 1)
        /\ \A i \in 1..Len(snapshots) : more[i] = snapshots[i]
        /\ more[Len(snapshots) + 1] = s
      BY AppendAny DEF PriceInv
  <2> HIDE DEF more
  <2>6. \A i \in 1..Len(more) : more[i].fetched \in 0..now /\ more[i].expires = more[i].fetched + TTL
      BY <2>2, <2>5 DEF PriceInv
  <2>7. Len(more) \in Nat /\ DOMAIN more = 1..Len(more)
      BY <2>5
  <2> QED BY <2>1, <2>3, <2>4, <2>5, <2>6, <2>7 DEF PriceInv
<1> QED BY <1>1, <1>2 DEF SnapshotStep

LEMMA WorldKeepsPrices ==
    ASSUME PriceInv, Tick \/ EditBoard
    PROVE  PriceInv'
<1>1. CASE Tick
  <2>1. /\ now' = now + 1 /\ now < MaxTime
        /\ board' = board /\ cache' = cache /\ snapshots' = snapshots /\ refresh' = refresh
        /\ creator' = creator
      BY <1>1 DEF Tick
  <2>2. now' \in 0..MaxTime /\ \A n \in 0..now : n \in 0..now'
      BY <2>1, PriceAssumption DEF PriceInv
  <2> QED BY <2>1, <2>2 DEF PriceInv
<1>2. CASE EditBoard
  <2>1. /\ now' = now /\ board' \in Boards /\ snapshots' = snapshots /\ creator' = creator
        /\ refresh' = [r \in Refreshes |-> [refresh[r] EXCEPT !.smooth = @ /\ refresh[r].pc = "idle"]]
        /\ cache' = [cache EXCEPT !.smooth = FALSE]
      BY <1>2 DEF EditBoard
  <2>2. ASSUME NEW r \in Refreshes
        PROVE  /\ DOMAIN refresh'[r] = DOMAIN Idle
               /\ refresh'[r].pc = refresh[r].pc /\ refresh'[r].fetched = refresh[r].fetched
    <3>1. refresh'[r] = [refresh[r] EXCEPT !.smooth = @ /\ refresh[r].pc = "idle"]
        BY <2>1
    <3>2. DOMAIN refresh[r] = DOMAIN Idle /\ {"pc", "fetched"} \subseteq DOMAIN Idle
        BY DEF PriceInv, Idle
    <3> QED BY <3>1, <3>2
  <2>3. refresh' = [r \in Refreshes |-> refresh'[r]]
      BY <2>1
  <2>4. /\ DOMAIN cache' = DOMAIN NoPrices
        /\ cache'.until = cache.until /\ cache'.fetched = cache.fetched
    <3>1. DOMAIN cache = DOMAIN NoPrices /\ {"until", "fetched"} \subseteq DOMAIN NoPrices
        BY DEF PriceInv, NoPrices
    <3> QED BY <2>1, <3>1
  <2> QED BY <2>1, <2>2, <2>3, <2>4 DEF PriceInv
<1> QED BY <1>1, <1>2

LEMMA PriceInvStutter ==
    ASSUME PriceInv, UNCHANGED priceVars
    PROVE  PriceInv'
BY DEF PriceInv, priceVars

LEMMA PriceInvTypes ==
    ASSUME PriceInv
    PROVE  PriceTypeOK
<1>1. \A i \in DOMAIN snapshots : snapshots[i].expires \in 0..(MaxTime + TTL)
    BY PriceAssumption DEF PriceInv
<1> QED BY <1>1 DEF PriceInv, PriceTypeOK, RefreshPcs

---------------------------------------------------------------------------
(* What the browser reads.                                                 *)

\* The n-th number of a set is one of its numbers, and each is the n-th for some n.
LEMMA NthOfSet ==
    ASSUME NEW S, S \subseteq Nat, IsFiniteSet(S)
    PROVE  /\ \A k \in 1..Cardinality(S) : Nth(S, k - 1) \in S
           /\ \A k, l \in 1..Cardinality(S) : Nth(S, k - 1) = Nth(S, l - 1) => k = l
           /\ \A j \in S : \E k \in 1..Cardinality(S) : Nth(S, k - 1) = j
<1> DEFINE n == Cardinality(S)
           Below(a) == {b \in S : b < a}
           Rank(a) == Cardinality(Below(a))
<1>1. n \in Nat
    BY FS_CardinalityType
<1>2. ASSUME NEW k \in Nat, k < n
      PROVE  Nth(S, k) \in S /\ Rank(Nth(S, k)) = k
  <2>1. \E a \in S : Cardinality({b \in S : b < a}) = k
      BY <1>2, NthId
  <2> QED BY <2>1, Zenon DEF Nth
<1>3. \A k \in 1..n : k - 1 \in Nat /\ k - 1 < n
    BY <1>1
<1>4. \A k \in 1..n : Nth(S, k - 1) \in S /\ Rank(Nth(S, k - 1)) = k - 1
    BY <1>2, <1>3
<1>5. \A a \in S : IsFiniteSet(Below(a)) /\ Rank(a) \in Nat
    BY FS_Subset, FS_CardinalityType
<1>6. ASSUME NEW a \in S, NEW c \in S, a < c
      PROVE  Rank(a) < Rank(c)
  <2>0. a \in Nat /\ c \in Nat /\ \A b \in S : b \in Nat
      OBVIOUS
  <2>3. \A b \in Below(a) : b \in Below(c)
      BY <1>6, <2>0
  <2>4. a \in Below(c) /\ a \notin Below(a)
      BY <1>6, <2>0
  <2>1. Below(a) \cup {a} \subseteq Below(c) /\ a \notin Below(a)
      BY <2>3, <2>4
  <2>2. IsFiniteSet(Below(a)) /\ IsFiniteSet(Below(c)) /\ Rank(a) \in Nat /\ Rank(c) \in Nat
      BY <1>5
  <2> HIDE DEF Below
  <2>5. Cardinality(Below(a) \cup {a}) = Cardinality(Below(a)) + 1
      BY <2>1, <2>2, FS_AddElement
  <2>6. Cardinality(Below(a) \cup {a}) <= Cardinality(Below(c))
      BY <2>1, <2>2, FS_Subset
  <2> QED BY <2>2, <2>5, <2>6
<1> HIDE DEF Rank
<1>7. \A a, c \in S : Rank(a) = Rank(c) => a = c
  <2> SUFFICES ASSUME NEW a \in S, NEW c \in S, Rank(a) = Rank(c), a # c PROVE FALSE
      OBVIOUS
  <2>0. a \in Nat /\ c \in Nat
      OBVIOUS
  <2>1. a < c \/ c < a
      BY <2>0
  <2>2. Rank(a) \in Nat /\ Rank(c) \in Nat
      BY <1>5
  <2>3. Rank(a) < Rank(c) \/ Rank(c) < Rank(a)
      BY <1>6, <2>1
  <2> QED BY <2>2, <2>3
<1>8. \A j \in S : Rank(j) + 1 \in 1..n
  <2> SUFFICES ASSUME NEW j \in S PROVE Rank(j) + 1 \in 1..n
      OBVIOUS
  <2>1. Below(j) \cup {j} \subseteq S /\ j \notin Below(j) /\ IsFiniteSet(Below(j))
      BY <1>5
  <2>2. Cardinality(Below(j) \cup {j}) <= n
      BY <2>1, FS_Subset
  <2>3. Cardinality(Below(j) \cup {j}) = Cardinality(Below(j)) + 1
      BY <2>1, FS_AddElement
  <2>4. Rank(j) = Cardinality(Below(j)) /\ Rank(j) \in Nat
      BY <1>5 DEF Rank
  <2>5. Rank(j) + 1 <= n
      BY <2>2, <2>3, <2>4
  <2> HIDE DEF n
  <2> QED BY <1>1, <2>4, <2>5
<1>9. \A j \in S : Nth(S, (Rank(j) + 1) - 1) = j
  <2> SUFFICES ASSUME NEW j \in S PROVE Nth(S, (Rank(j) + 1) - 1) = j
      OBVIOUS
  <2>1. Rank(j) \in Nat /\ Rank(j) + 1 \in 1..n
      BY <1>5, <1>8
  <2>2. (Rank(j) + 1) - 1 = Rank(j)
      BY <2>1
  <2>3. Nth(S, (Rank(j) + 1) - 1) \in S /\ Rank(Nth(S, (Rank(j) + 1) - 1)) = (Rank(j) + 1) - 1
      BY <1>4, <2>1
  <2> QED BY <1>7, <2>2, <2>3
<1>10. \A k, l \in 1..n : Nth(S, k - 1) = Nth(S, l - 1) => k = l
    BY <1>1, <1>4
<1> QED BY <1>4, <1>8, <1>9, <1>10

IsSequence(seq) == Len(seq) \in Nat /\ DOMAIN seq = 1..Len(seq)

\* What is picked from a sequence is what stands at the places, each once.
LEMMA PickedHas ==
    ASSUME NEW seq, IsSequence(seq), NEW places \in SUBSET DOMAIN seq
    PROVE  /\ IsSequence(Picked(seq, places)) /\ Picked(seq, places) \in Seq(Range(Picked(seq, places)))
           /\ \A k \in DOMAIN Picked(seq, places) : \E i \in places : Picked(seq, places)[k] = seq[i]
           /\ \A i \in places : \E k \in DOMAIN Picked(seq, places) : Picked(seq, places)[k] = seq[i]
           /\ \A k, l \in DOMAIN Picked(seq, places) : k # l =>
                \E i, j \in places : /\ i # j
                                     /\ Picked(seq, places)[k] = seq[i]
                                     /\ Picked(seq, places)[l] = seq[j]
<1> DEFINE n == Cardinality(places)
           p == Picked(seq, places)
<1>1. places \subseteq Nat /\ IsFiniteSet(places) /\ n \in Nat
  <2>1. DOMAIN seq = 1..Len(seq) /\ Len(seq) \in Nat
      BY DEF IsSequence
  <2>2. places \subseteq 1..Len(seq)
      BY <2>1
  <2>3. IsFiniteSet(1..Len(seq))
      BY <2>1, FS_Interval
  <2>4. IsFiniteSet(places)
      BY <2>2, <2>3, FS_Subset
  <2> QED BY <2>2, <2>4, FS_CardinalityType
<1>2. /\ \A k \in 1..n : Nth(places, k - 1) \in places
      /\ \A k, l \in 1..n : Nth(places, k - 1) = Nth(places, l - 1) => k = l
      /\ \A j \in places : \E k \in 1..n : Nth(places, k - 1) = j
    BY <1>1, NthOfSet
<1>3. DOMAIN p = 1..n /\ \A k \in 1..n : p[k] = seq[Nth(places, k - 1)]
    BY DEF Picked
<1>4. p = [k \in 1..n |-> p[k]]
    BY DEF Picked
<1> HIDE DEF p, n
<1>5. p \in [1..n -> Range(p)]
  <2>1. \A k \in 1..n : p[k] \in Range(p)
      BY <1>3 DEF Range
  <2> QED BY <1>4, <2>1
<1>6. p \in Seq(Range(p)) /\ Len(p) = n
    BY <1>1, <1>5, IsASeq
<1>7. IsSequence(p)
    BY <1>1, <1>3, <1>6 DEF IsSequence
<1>8. \A k \in DOMAIN p : \E i \in places : p[k] = seq[i]
    BY <1>2, <1>3
<1>9. \A i \in places : \E k \in DOMAIN p : p[k] = seq[i]
    BY <1>2, <1>3
<1>10. \A k, l \in DOMAIN p : k # l => \E i, j \in places : i # j /\ p[k] = seq[i] /\ p[l] = seq[j]
    BY <1>2, <1>3
<1> QED BY <1>6, <1>7, <1>8, <1>9, <1>10 DEF p

SkusOf(items) == {items[i].sku : i \in DOMAIN items}
ValidSkus(rows) == {r.sku : r \in {q \in ToSet(rows) : _parse_table_row(q)}}
Valid(items) == /\ IsSequence(items) /\ items \in Seq(Range(items))
                /\ \A i \in DOMAIN items : items[i].sku # NoSku /\ items[i].price > 0
Distinct(items) == \A i, j \in DOMAIN items : items[i].sku = items[j].sku => i = j

\* A filter that everything passes leaves everything.
LEMMA FilterKeeps ==
    ASSUME NEW items, Valid(items)
    PROVE  /\ Valid(_filter_invalid_items(items))
           /\ SkusOf(_filter_invalid_items(items)) = SkusOf(items)
<1> DEFINE places == {i \in DOMAIN items : items[i].price > 0}
           p == Picked(items, places)
<1>1. places = DOMAIN items
    BY DEF Valid
<1> HIDE DEF places
<1>2. /\ IsSequence(p) /\ p \in Seq(Range(p))
      /\ \A k \in DOMAIN p : \E i \in DOMAIN items : p[k] = items[i]
      /\ \A i \in DOMAIN items : \E k \in DOMAIN p : p[k] = items[i]
    BY <1>1, PickedHas DEF Valid
<1>3. p = _filter_invalid_items(items)
    BY DEF _filter_invalid_items, places
<1> HIDE DEF p
<1>4. Valid(p)
    BY <1>2 DEF Valid
<1>5. SkusOf(p) = SkusOf(items)
    BY <1>2 DEF SkusOf
<1> QED BY <1>3, <1>4, <1>5

\* One table: its valid rows.
LEMMA TableRead ==
    ASSUME NEW rows, IsSequence(rows)
    PROVE  /\ Valid(scrape_pricing_from_html(rows, FALSE))
           /\ SkusOf(scrape_pricing_from_html(rows, FALSE)) = ValidSkus(rows)
<1> DEFINE places == {i \in DOMAIN rows : _parse_table_row(rows[i])}
           p == Picked(rows, places)
<1>0. places \in SUBSET DOMAIN rows
    OBVIOUS
<1> HIDE DEF places
<1>1. /\ IsSequence(p) /\ p \in Seq(Range(p))
      /\ \A k \in DOMAIN p : \E i \in places : p[k] = rows[i]
      /\ \A i \in places : \E k \in DOMAIN p : p[k] = rows[i]
    BY <1>0, PickedHas
<1>2. scrape_pricing_from_html(rows, FALSE) = _filter_invalid_items(p)
    BY DEF scrape_pricing_from_html, _extract_from_pricing_table, places
<1> HIDE DEF p
<1>3. Valid(p)
    BY <1>1 DEF Valid, _parse_table_row, places
<1>4. SkusOf(p) = {rows[i].sku : i \in places}
    BY <1>1 DEF SkusOf
<1>5. {rows[i].sku : i \in places} = ValidSkus(rows)
    BY DEF ValidSkus, ToSet, places
<1> QED BY <1>2, <1>3, <1>4, <1>5, FilterKeeps

\* Two readings after each other.
LEMMA ReadOn ==
    ASSUME NEW items, Valid(items), NEW more, Valid(more)
    PROVE  Valid(items \o more) /\ SkusOf(items \o more) = SkusOf(items) \cup SkusOf(more)
<1> DEFINE S == Range(items) \cup Range(more)
           all == items \o more
<1>1. items \in Seq(S) /\ more \in Seq(S)
    BY SeqMonotonic DEF Valid
<1>2. /\ Len(items) \in Nat /\ DOMAIN items = 1..Len(items)
      /\ Len(more) \in Nat /\ DOMAIN more = 1..Len(more)
    BY DEF Valid, IsSequence
<1> HIDE DEF S
<1>3. /\ all \in Seq(S) /\ Len(all) = Len(items) + Len(more)
      /\ \A i \in 1..(Len(items) + Len(more)) : all[i] = IF i <= Len(items) THEN items[i] ELSE more[i - Len(items)]
    BY <1>1, ConcatProperties
<1>4. DOMAIN all = 1..(Len(items) + Len(more)) /\ all \in Seq(Range(all))
  <2>1. all \in Seq(S) /\ Len(all) = Len(items) + Len(more)
      BY <1>3
  <2> HIDE DEF all
  <2>2. DOMAIN all = 1..Len(all)
      BY <2>1
  <2>3. all \in Seq(Range(all))
      BY <2>1, SeqOfRange
  <2> QED BY <2>1, <2>2, <2>3
<1> HIDE DEF all
<1>5. \A i \in DOMAIN all : (\E j \in DOMAIN items : all[i] = items[j]) \/ (\E j \in DOMAIN more : all[i] = more[j])
  <2> SUFFICES ASSUME NEW i \in 1..(Len(items) + Len(more))
               PROVE  (\E j \in DOMAIN items : all[i] = items[j]) \/ (\E j \in DOMAIN more : all[i] = more[j])
      BY <1>4
  <2>1. CASE i <= Len(items)
      BY <1>2, <1>3, <2>1
  <2>2. CASE i > Len(items)
    <3>1. i - Len(items) \in 1..Len(more)
        BY <1>2, <2>2
    <3> QED BY <1>2, <1>3, <2>2, <3>1
  <2> QED BY <1>2, <2>1, <2>2
<1>6. \A j \in DOMAIN items : j \in DOMAIN all /\ all[j] = items[j]
    BY <1>2, <1>3, <1>4
<1>7. \A j \in DOMAIN more : Len(items) + j \in DOMAIN all /\ all[Len(items) + j] = more[j]
  <2> SUFFICES ASSUME NEW j \in 1..Len(more)
               PROVE  Len(items) + j \in DOMAIN all /\ all[Len(items) + j] = more[j]
      BY <1>2
  <2>1. Len(items) + j \in 1..(Len(items) + Len(more)) /\ ~ (Len(items) + j <= Len(items))
        /\ (Len(items) + j) - Len(items) = j
      BY <1>2
  <2> QED BY <1>3, <1>4, <2>1
<1>8. IsSequence(all)
    BY <1>2, <1>3, <1>4 DEF IsSequence
<1>9. Valid(all)
    BY <1>4, <1>5, <1>8 DEF Valid
<1>10. SkusOf(all) = SkusOf(items) \cup SkusOf(more)
  <2>1. SkusOf(all) \subseteq SkusOf(items) \cup SkusOf(more)
      BY <1>5 DEF SkusOf
  <2>2. SkusOf(items) \subseteq SkusOf(all)
      BY <1>6 DEF SkusOf
  <2>3. \A j \in DOMAIN more : \E i \in DOMAIN all : all[i] = more[j]
      BY <1>7
  <2>4. SkusOf(more) \subseteq SkusOf(all)
      BY <2>3 DEF SkusOf
  <2> QED BY <2>1, <2>2, <2>4
<1> QED BY <1>9, <1>10 DEF all

\* Of the rows with one SKU the first stays.
LEMMA DedupeKeepsOne ==
    ASSUME NEW items, Valid(items)
    PROVE  /\ Distinct(dedupe_pricing_items(items))
           /\ SkusOf(dedupe_pricing_items(items)) = SkusOf(items)
<1> DEFINE places == {i \in DOMAIN items : \A j \in 1..(i - 1) : ~SameItem(items[j], items[i])}
           p == Picked(items, places)
<1>0. places \in SUBSET DOMAIN items /\ IsSequence(items)
    BY DEF Valid
<1>2. p = dedupe_pricing_items(items)
    BY DEF dedupe_pricing_items
<1> HIDE DEF places
<1>1. /\ \A k \in DOMAIN p : \E i \in places : p[k] = items[i]
      /\ \A i \in places : \E k \in DOMAIN p : p[k] = items[i]
      /\ \A k, l \in DOMAIN p : k # l => \E i, j \in places : i # j /\ p[k] = items[i] /\ p[l] = items[j]
    BY <1>0, PickedHas
<1> USE DEF places
<1>3. Len(items) \in Nat /\ DOMAIN items = 1..Len(items) /\ \A i \in DOMAIN items : items[i].sku # NoSku
    BY DEF Valid, IsSequence
<1>4. \A i, j \in DOMAIN items : SameItem(items[i], items[j]) <=> items[i].sku = items[j].sku
    BY <1>3 DEF SameItem
<1>5. \A i \in places : i \in DOMAIN items /\ \A j \in 1..(i - 1) : items[j].sku # items[i].sku
  <2> SUFFICES ASSUME NEW i \in places, NEW j \in 1..(i - 1) PROVE items[j].sku # items[i].sku
      OBVIOUS
  <2>1. j \in DOMAIN items /\ ~SameItem(items[j], items[i])
      BY <1>3
  <2> QED BY <1>4, <2>1
<1>6. \A i, j \in places : items[i].sku = items[j].sku => i = j
  <2> SUFFICES ASSUME NEW i \in places, NEW j \in places, i < j, items[i].sku = items[j].sku PROVE FALSE
      BY <1>3
  <2>1. i \in 1..(j - 1)
      BY <1>3
  <2> QED BY <1>5, <2>1
<1>7. \A i \in DOMAIN items : \E j \in places : items[j].sku = items[i].sku
  <2> SUFFICES ASSUME NEW i \in DOMAIN items PROVE \E j \in places : items[j].sku = items[i].sku
      OBVIOUS
  <2> DEFINE Same == {j \in DOMAIN items : items[j].sku = items[i].sku}
  <2>1. Same \subseteq Nat /\ Same # {}
      BY <1>3
  <2> HIDE DEF Same
  <2>2. PICK j \in Same : \A k \in Same : j <= k
      BY <2>1, LeastId
  <2>3. j \in DOMAIN items /\ items[j].sku = items[i].sku
      BY DEF Same
  <2>4. ASSUME NEW k \in 1..(j - 1) PROVE ~SameItem(items[k], items[j])
    <3>1. k \in DOMAIN items /\ ~ (j <= k)
        BY <1>3, <2>3
    <3>2. items[k].sku # items[j].sku
        BY <2>2, <2>3, <3>1 DEF Same
    <3> QED BY <1>4, <2>3, <3>1, <3>2
  <2> QED BY <2>3, <2>4
<1> HIDE DEF p, places
<1>8. Distinct(p)
    BY <1>1, <1>6 DEF Distinct
<1>9. SkusOf(p) = SkusOf(items)
  <2>1. \A k \in DOMAIN p : \E i \in DOMAIN items : p[k] = items[i]
      BY <1>1, <1>5
  <2>2. \A i \in DOMAIN items : \E k \in DOMAIN p : p[k].sku = items[i].sku
      BY <1>1, <1>7
  <2> QED BY <2>1, <2>2 DEF SkusOf
<1> QED BY <1>2, <1>8, <1>9

\* The valid SKUs of the first n pages.
Shown(b, n) == UNION {ValidSkus(b[p]) : p \in 1..n}

PagesRead(b) == IF Len(b) < MaxPages THEN Len(b) ELSE MaxPages

Exact(b, items, smooth) ==
    /\ Distinct(items)
    /\ smooth => SkusOf(items) = Shown(b, PagesRead(b))

\* Where the browser is: the label follows the view.
OnPage(f, b) ==
    /\ f.page \in 1..MaxPages
    /\ f.view \in 1..Len(b)
    /\ f.label \in 1..f.view
    /\ IsSequence(f.rows)

\* No other pages than the first n were seen.
SeenUpTo(f, b, n) == \A s \in f.seen : \E p \in 1..n : s = RowSkus(b[p])

\* A refresh for which every page was there when it was read has read the pages in order.
Smooth(f, b) ==
    /\ f.pc = "collect" =>
         /\ f.page <= Len(b) + 1
         /\ f.page <= Len(b) => f.view = f.page
         /\ SkusOf(f.items) = Shown(b, f.page - 1)
         /\ SeenUpTo(f, b, f.page - 1)
    /\ f.pc = "content" =>
         /\ f.page <= Len(b) /\ f.view = f.page /\ f.rows = b[f.page]
         /\ SkusOf(f.items) = Shown(b, f.page - 1)
         /\ SeenUpTo(f, b, f.page)
    /\ f.pc = "wait" =>
         /\ f.page <= Len(b)
         /\ f.page < Len(b) => f.view = f.page + 1
         /\ SkusOf(f.items) = Shown(b, f.page)
         /\ SeenUpTo(f, b, f.page)
    /\ f.pc = "merge" => SkusOf(f.items) = Shown(b, PagesRead(b))

Reading(f, b) ==
    /\ f.pc \in {"api", "static", "launch"} => f.items = <<>> /\ f.seen = {}
    /\ f.pc \in {"collect", "content", "wait"} => OnPage(f, b)
    /\ f.pc = "wait" => f.page < MaxPages
    /\ f.pc \in {"collect", "content", "wait", "merge"} => Valid(f.items)
    /\ f.smooth => Smooth(f, b)
    /\ (f.pc = "write" /\ f.source = "playwright_html_scraper") => Exact(b, f.items, f.smooth)

ScrapeInv ==
    /\ \A r \in Refreshes : Reading(refresh[r], board)
    /\ cache.source = "playwright_html_scraper" => Exact(board, cache.items, cache.smooth)

\* One page more.
LEMMA ShownMore ==
    ASSUME NEW b, NEW n \in Nat
    PROVE  Shown(b, n + 1) = Shown(b, n) \cup ValidSkus(b[n + 1])
<1>1. 1..(n + 1) = (1..n) \cup {n + 1}
    OBVIOUS
<1> QED BY <1>1 DEF Shown

LEMMA NothingRead ==
    /\ Valid(<<>>) /\ SkusOf(<<>>) = {}
    /\ \A b : Shown(b, 0) = {}
<1>1. Len(<<>>) = 0 /\ DOMAIN <<>> = 1..0 /\ <<>> \in Seq(Range(<<>>)) /\ 1..0 = {}
    OBVIOUS
<1> QED BY <1>1 DEF Valid, IsSequence, SkusOf, Shown

LEMMA ScrapeInvInit ==
    PriceInit => ScrapeInv
BY DEF PriceInit, ScrapeInv, Idle, NoPrices, Reading, Smooth

LEMMA BoardIs ==
    ASSUME PriceInv
    PROVE  /\ Len(board) \in Nat \ {0} /\ DOMAIN board = 1..Len(board)
           /\ \A p \in 1..Len(board) : IsSequence(board[p])
           /\ \A p, q \in 1..Len(board) : p # q => RowSkus(board[p]) = {} \/ RowSkus(board[p]) # RowSkus(board[q])
<1>1. board \in Boards
    BY DEF PriceInv
<1> QED BY <1>1, BoardAssumption DEF IsSequence

LEMMA ReadingMoves ==
    ASSUME PriceInv, ScrapeInv, NEW r \in Refreshes, NEW rec, Set(r, rec), Reading(rec, board), BoardSame,
           \/ cache' = cache
           \/ cache'.source = "playwright_html_scraper" => Exact(board, cache'.items, cache'.smooth)
    PROVE  ScrapeInv'
<1>1. refresh'[r] = rec /\ \A q \in Refreshes : q # r => refresh'[q] = refresh[q]
    BY DEF PriceInv, Set
<1>2. \A q \in Refreshes : Reading(refresh'[q], board)
    BY <1>1 DEF ScrapeInv
<1>3. cache'.source = "playwright_html_scraper" => Exact(board, cache'.items, cache'.smooth)
    BY DEF ScrapeInv
<1>4. board' = board
    BY DEF BoardSame
<1> HIDE DEF Reading, Exact
<1> QED BY <1>2, <1>3, <1>4 DEF ScrapeInv

\* What a refresh that fetches something else than the browser's pages is about to write.
LEMMA NormalizedElsewhere ==
    ASSUME PriceInv, ScrapeInv, NEW r \in Refreshes, NEW items, NEW source,
           normalize_payload(r, items, source), BoardSame, cache' = cache,
           source = "playwright_html_scraper" => Exact(board, items, refresh[r].smooth)
    PROVE  ScrapeInv'
<1> DEFINE f == refresh[r]
           rec == [f EXCEPT !.pc = "write", !.items = items, !.fetched = now, !.source = source]
<1>1. Set(r, rec)
    BY DEF normalize_payload
<1>2. rec.pc = "write" /\ rec.items = items /\ rec.source = source /\ rec.smooth = f.smooth
    BY DEF PriceInv, Idle
<1> HIDE DEF rec
<1>3. Reading(rec, board)
    BY <1>2 DEF Reading, Smooth
<1> QED BY <1>1, <1>3, ReadingMoves

LEMMA RefreshKeepsScrapes ==
    ASSUME PriceInv, ScrapeInv, NEW r \in Refreshes, RefreshStep(r)
    PROVE  ScrapeInv'
<1> DEFINE f == refresh[r]
<1>1. DOMAIN f = {"pc", "since", "items", "fetched", "source", "page", "view", "label", "before",
                  "rows", "skus", "seen", "smooth"}
      /\ Reading(f, board)
    BY DEF PriceInv, Idle, ScrapeInv
<1>2. CASE BeginRefresh(r)
  <2> DEFINE rec == [Idle EXCEPT !.pc = "api", !.since = now]
  <2>1. Set(r, rec) /\ BoardSame /\ cache' = cache
      BY <1>2 DEF BeginRefresh
  <2>2. rec.pc = "api" /\ rec.items = <<>> /\ rec.seen = {}
      BY DEF Idle
  <2> HIDE DEF rec
  <2>3. Reading(rec, board)
      BY <2>2 DEF Reading, Smooth
  <2> QED BY <2>1, <2>3, ReadingMoves
<1>3. ASSUME NEW pc \in {"static", "launch"}, f.pc \in {"api", "static"},
             Set(r, [f EXCEPT !.pc = pc]), BoardSame, cache' = cache
      PROVE  ScrapeInv'
  <2> DEFINE rec == [f EXCEPT !.pc = pc]
  <2>1. rec.pc = pc /\ rec.items = <<>> /\ rec.seen = {}
      BY <1>1, <1>3 DEF Reading
  <2>2. Set(r, rec)
      BY <1>3
  <2> HIDE DEF rec
  <2>3. Reading(rec, board)
      BY <2>1 DEF Reading, Smooth
  <2> QED BY <1>3, <2>2, <2>3, ReadingMoves
<1>4. CASE fetch_pricing_from_api(r)
  <2>1. BoardSame /\ cache' = cache /\ f.pc = "api"
      BY <1>4 DEF fetch_pricing_from_api
  <2>2. CASE \E items \in {FlattenSeq(board), <<>>} : normalize_payload(r, items, "pricing_api")
      BY <2>1, <2>2, NormalizedElsewhere
  <2>3. CASE Set(r, [f EXCEPT !.pc = "static"])
      BY <1>3, <2>1, <2>3
  <2> QED BY <1>4, <2>2, <2>3 DEF fetch_pricing_from_api
<1>5. CASE scrape_pricing_page(r)
  <2>1. BoardSame /\ cache' = cache /\ f.pc = "static"
      BY <1>5 DEF scrape_pricing_page
  <2>2. \/ \E items : normalize_payload(r, items, "html_scraper")
        \/ Set(r, [f EXCEPT !.pc = "launch"])
      BY <1>5 DEF scrape_pricing_page
  <2>3. CASE Set(r, [f EXCEPT !.pc = "launch"])
      BY <1>3, <2>1, <2>3
  <2>4. CASE \E items : normalize_payload(r, items, "html_scraper")
      BY <2>1, <2>4, NormalizedElsewhere
  <2> QED BY <2>2, <2>3, <2>4
<1>6. CASE _write_pricing_cache(r)
  <2>1. BoardSame /\ f.pc = "write"
      BY <1>6 DEF _write_pricing_cache
  <2>2. CASE /\ cache' = [items |-> f.items, fetched |-> f.fetched, until |-> now + TTL,
                          source |-> f.source, since |-> f.since, smooth |-> f.smooth]
             /\ Set(r, [Idle EXCEPT !.pc = "done"])
    <3> DEFINE rec == [Idle EXCEPT !.pc = "done"]
    <3>1. rec.pc = "done"
        BY DEF Idle
    <3>2. cache'.items = f.items /\ cache'.source = f.source /\ cache'.smooth = f.smooth
        BY <2>2
    <3>3. cache'.source = "playwright_html_scraper" => Exact(board, cache'.items, cache'.smooth)
        BY <1>1, <2>1, <3>2 DEF Reading
    <3>4. Set(r, rec)
        BY <2>2
    <3> HIDE DEF rec
    <3>5. Reading(rec, board)
        BY <3>1 DEF Reading, Smooth
    <3> QED BY <2>1, <3>3, <3>4, <3>5, ReadingMoves
  <2>3. CASE /\ Set(r, [Idle EXCEPT !.since = f.since,
                                    !.pc = IF f.source = "pricing_api" THEN "static" ELSE "failed"])
             /\ UNCHANGED cache
    <3> DEFINE rec == [Idle EXCEPT !.since = f.since,
                                   !.pc = IF f.source = "pricing_api" THEN "static" ELSE "failed"]
    <3>1. rec.pc \in {"static", "failed"} /\ rec.items = <<>> /\ rec.seen = {}
        BY DEF Idle
    <3>2. Set(r, rec)
        BY <2>3
    <3> HIDE DEF rec
    <3>3. Reading(rec, board)
        BY <3>1 DEF Reading, Smooth
    <3> QED BY <2>1, <2>3, <3>2, <3>3, ReadingMoves
  <2> QED BY <1>6, <2>2, <2>3 DEF _write_pricing_cache
<1> QED BY <1>2, <1>4, <1>5, <1>6 DEF RefreshStep

LEMMA LaunchKeepsScrapes ==
    ASSUME PriceInv, ScrapeInv, NEW r \in Refreshes, LaunchBrowser(r)
    PROVE  ScrapeInv'
<1> DEFINE f == refresh[r]
<1>1. DOMAIN f = {"pc", "since", "items", "fetched", "source", "page", "view", "label", "before",
                  "rows", "skus", "seen", "smooth"}
      /\ Reading(f, board) /\ f.pc = "launch" /\ BoardSame /\ cache' = cache
    BY DEF PriceInv, Idle, ScrapeInv, LaunchBrowser
<1>2. CASE \E rows \in {board[1], <<>>} :
             Set(r, [f EXCEPT !.pc = "collect", !.page = 1, !.view = 1, !.label = 1, !.rows = rows])
  <2>1. PICK rows \in {board[1], <<>>} :
          Set(r, [f EXCEPT !.pc = "collect", !.page = 1, !.view = 1, !.label = 1, !.rows = rows])
      BY <1>2
  <2> DEFINE rec == [f EXCEPT !.pc = "collect", !.page = 1, !.view = 1, !.label = 1, !.rows = rows]
  <2>2. rec.pc = "collect" /\ rec.page = 1 /\ rec.view = 1 /\ rec.label = 1 /\ rec.rows = rows
        /\ rec.items = <<>> /\ rec.seen = {}
      BY <1>1 DEF Reading
  <2>3. Set(r, rec)
      BY <2>1
  <2> HIDE DEF rec
  <2>4. Len(board) \in Nat \ {0} /\ IsSequence(board[1])
      BY BoardIs
  <2>5. IsSequence(<<>>)
      BY NothingRead DEF Valid
  <2>6. IsSequence(rows)
      BY <2>1, <2>4, <2>5
  <2>7. OnPage(rec, board)
      BY <2>2, <2>4, <2>6, PriceAssumption DEF OnPage
  <2>8. Valid(rec.items)
      BY <2>2, NothingRead
  <2>9. SkusOf(rec.items) = Shown(board, rec.page - 1)
    <3>1. rec.page - 1 = 0
        BY <2>2
    <3> QED BY <2>2, <3>1, NothingRead
  <2>10. Smooth(rec, board)
    <3>1. rec.page <= Len(board) + 1 /\ (rec.page <= Len(board) => rec.view = rec.page)
        BY <2>2, <2>4
    <3> QED BY <2>2, <2>9, <3>1 DEF Smooth, SeenUpTo
  <2>11. Reading(rec, board)
      BY <2>2, <2>7, <2>8, <2>10 DEF Reading
  <2> QED BY <1>1, <2>3, <2>11, ReadingMoves
<1>3. CASE Set(r, [f EXCEPT !.pc = "failed"])
  <2> DEFINE rec == [f EXCEPT !.pc = "failed"]
  <2>1. rec.pc = "failed"
      BY <1>1
  <2>2. Set(r, rec)
      BY <1>3
  <2> HIDE DEF rec
  <2>3. Reading(rec, board)
      BY <2>1 DEF Reading, Smooth
  <2> QED BY <1>1, <2>2, <2>3, ReadingMoves
<1> QED BY <1>2, <1>3 DEF LaunchBrowser

LEMMA CollectKeepsScrapes ==
    ASSUME PriceInv, ScrapeInv, NEW r \in Refreshes, CollectSkus(r)
    PROVE  ScrapeInv'
<1> DEFINE f == refresh[r]
           signature == RowSkus(f.rows)
           next == IF signature # {} /\ signature \in f.seen THEN "merge" ELSE "content"
           seen == f.seen \union ({signature} \ {{}})
           smooth == f.smooth /\ Rendered(f)
           rec == [f EXCEPT !.pc = next, !.skus = signature, !.seen = @ \union ({signature} \ {{}}),
                            !.smooth = @ /\ Rendered(f)]
<1>1. DOMAIN f = {"pc", "since", "items", "fetched", "source", "page", "view", "label", "before",
                  "rows", "skus", "seen", "smooth"}
      /\ Reading(f, board) /\ f.pc = "collect" /\ BoardSame /\ cache' = cache /\ Set(r, rec)
    BY DEF PriceInv, Idle, ScrapeInv, CollectSkus
<1>2. /\ rec.pc = next /\ rec.items = f.items /\ rec.page = f.page /\ rec.view = f.view
      /\ rec.label = f.label /\ rec.rows = f.rows /\ rec.seen = seen /\ rec.smooth = smooth
    BY <1>1
<1> HIDE DEF rec
<1>3. OnPage(f, board) /\ Valid(f.items)
    BY <1>1 DEF Reading
<1>4. OnPage(rec, board) /\ Valid(rec.items)
    BY <1>2, <1>3 DEF OnPage
<1>5. next \in {"merge", "content"}
    OBVIOUS
<1>6. ASSUME smooth PROVE Smooth(rec, board)
  <2>1. f.smooth /\ f.page \in 1..Len(board) /\ f.rows = board[f.page]
      BY <1>6, BoardIs DEF Rendered
  <2>2. f.view = f.page /\ SkusOf(f.items) = Shown(board, f.page - 1) /\ SeenUpTo(f, board, f.page - 1)
      BY <1>1, <2>1 DEF Reading, Smooth
  <2>3. \A p \in 1..(f.page - 1) : p \in 1..Len(board) /\ p # f.page /\ p \in 1..f.page
      BY <2>1, BoardIs
  <2>4. signature = {} \/ signature \notin f.seen
    <3> SUFFICES ASSUME signature # {}, signature \in f.seen PROVE FALSE
        OBVIOUS
    <3>1. PICK p \in 1..(f.page - 1) : signature = RowSkus(board[p])
        BY <2>2 DEF SeenUpTo
    <3>2. p \in 1..Len(board) /\ p # f.page
        BY <2>3
    <3>3. signature = RowSkus(board[f.page])
        BY <2>1
    <3> HIDE DEF signature
    <3> QED BY <2>1, <3>1, <3>2, <3>3, BoardIs
  <2>5. next = "content"
      BY <2>4
  <2>6. SeenUpTo(rec, board, rec.page)
    <3> SUFFICES ASSUME NEW s \in seen PROVE \E p \in 1..f.page : s = RowSkus(board[p])
        BY <1>2 DEF SeenUpTo
    <3>1. CASE s \in f.seen
        BY <2>2, <2>3, <3>1 DEF SeenUpTo
    <3>2. CASE s = signature
      <4>1. f.page \in 1..f.page /\ s = RowSkus(board[f.page])
          BY <2>1, <3>2
      <4> QED BY <4>1
    <3> QED BY <3>1, <3>2
  <2> HIDE DEF next
  <2>7. rec.pc = "content" /\ rec.page <= Len(board) /\ rec.view = rec.page /\ rec.rows = board[rec.page]
        /\ SkusOf(rec.items) = Shown(board, rec.page - 1)
      BY <1>2, <2>1, <2>2, <2>5
  <2> QED BY <2>6, <2>7 DEF Smooth
<1> HIDE DEF next, smooth
<1>7. Reading(rec, board)
    BY <1>2, <1>4, <1>5, <1>6 DEF Reading
<1> QED BY <1>1, <1>7, ReadingMoves

LEMMA ReadContentKeepsScrapes ==
    ASSUME PriceInv, ScrapeInv, NEW r \in Refreshes, ReadContent(r)
    PROVE  ScrapeInv'
<1> DEFINE f == refresh[r]
           items == f.items \o scrape_pricing_from_html(f.rows, FALSE)
           read == [f EXCEPT !.items = @ \o scrape_pricing_from_html(f.rows, FALSE)]
           more == f.page < MaxPages /\ _has_next_page_button(f)
<1>1. DOMAIN f = {"pc", "since", "items", "fetched", "source", "page", "view", "label", "before",
                  "rows", "skus", "seen", "smooth"}
      /\ Reading(f, board) /\ f.pc = "content" /\ BoardSame /\ cache' = cache
    BY DEF PriceInv, Idle, ScrapeInv, ReadContent
<1>2. \/ more /\ Set(r, [read EXCEPT !.pc = "wait", !.before = f.label, !.view = _click_next_page(f)])
      \/ more /\ Set(r, [read EXCEPT !.pc = "merge", !.smooth = FALSE])
      \/ ~more /\ Set(r, [read EXCEPT !.pc = "merge"])
    BY DEF ReadContent
<1>3. /\ DOMAIN read = DOMAIN f /\ read.items = items /\ read.page = f.page /\ read.view = f.view
      /\ read.label = f.label /\ read.rows = f.rows /\ read.seen = f.seen /\ read.smooth = f.smooth
    BY <1>1
<1> HIDE DEF read
<1>4. OnPage(f, board) /\ Valid(f.items)
    BY <1>1 DEF Reading
<1>5. Valid(items) /\ SkusOf(items) = SkusOf(f.items) \cup ValidSkus(f.rows)
  <2> DEFINE rows == f.rows
             table == scrape_pricing_from_html(rows, FALSE)
  <2>1. IsSequence(rows)
      BY <1>4 DEF OnPage
  <2> HIDE DEF rows
  <2>2. Valid(table) /\ SkusOf(table) = ValidSkus(rows)
      BY <2>1, TableRead
  <2>3. Valid(f.items)
      BY <1>4
  <2> HIDE DEF f, table
  <2>4. Valid(f.items \o table) /\ SkusOf(f.items \o table) = SkusOf(f.items) \cup SkusOf(table)
      BY <2>2, <2>3, ReadOn
  <2> QED BY <2>2, <2>4 DEF table, rows
<1> HIDE DEF items
<1>6. ASSUME f.smooth
      PROVE  /\ f.page <= Len(board) /\ f.view = f.page
             /\ SkusOf(items) = Shown(board, f.page)
             /\ SeenUpTo(f, board, f.page)
  <2>1. /\ f.page <= Len(board) /\ f.view = f.page /\ f.rows = board[f.page]
        /\ SkusOf(f.items) = Shown(board, f.page - 1)
        /\ SeenUpTo(f, board, f.page)
      BY <1>1, <1>6 DEF Reading, Smooth
  <2>2. f.page - 1 \in Nat /\ (f.page - 1) + 1 = f.page
      BY <1>4, PriceAssumption DEF OnPage
  <2>3. Shown(board, (f.page - 1) + 1) = Shown(board, f.page - 1) \cup ValidSkus(board[(f.page - 1) + 1])
      BY <2>2, ShownMore
  <2> QED BY <1>5, <2>1, <2>2, <2>3
<1>7. CASE more /\ Set(r, [read EXCEPT !.pc = "wait", !.before = f.label, !.view = _click_next_page(f)])
  <2> DEFINE rec == [read EXCEPT !.pc = "wait", !.before = f.label, !.view = _click_next_page(f)]
  <2>1. /\ Set(r, rec)
        /\ rec.pc = "wait" /\ rec.items = items /\ rec.page = f.page /\ rec.view = _click_next_page(f)
        /\ rec.label = f.label /\ rec.rows = f.rows /\ rec.seen = f.seen /\ rec.smooth = f.smooth
      BY <1>1, <1>3, <1>7
  <2> HIDE DEF rec
  <2>2. f.page \in Nat /\ f.view \in 1..Len(board) /\ Len(board) \in Nat /\ f.label \in 1..f.view
      BY <1>4, BoardIs, PriceAssumption DEF OnPage
  <2>3. _click_next_page(f) \in 1..Len(board) /\ f.view <= _click_next_page(f)
        /\ (f.view < Len(board) => _click_next_page(f) = f.view + 1)
      BY <2>2 DEF _click_next_page
  <2>4. f.label \in 1.._click_next_page(f)
      BY <2>2, <2>3
  <2>5. OnPage(rec, board)
      BY <1>4, <2>1, <2>3, <2>4 DEF OnPage
  <2>6. rec.page < MaxPages
      BY <1>7, <2>1
  <2>7. ASSUME f.smooth PROVE Smooth(rec, board)
    <3>1. SeenUpTo(rec, board, rec.page)
        BY <1>6, <2>1, <2>7 DEF SeenUpTo
    <3>2. f.page < Len(board) => _click_next_page(f) = f.page + 1
        BY <1>6, <2>3, <2>7
    <3> QED BY <1>6, <2>1, <2>7, <3>1, <3>2 DEF Smooth
  <2>8. Reading(rec, board)
      BY <1>5, <2>1, <2>5, <2>6, <2>7 DEF Reading
  <2> QED BY <1>1, <2>1, <2>8, ReadingMoves
<1>8. CASE Set(r, [read EXCEPT !.pc = "merge", !.smooth = FALSE])
  <2> DEFINE rec == [read EXCEPT !.pc = "merge", !.smooth = FALSE]
  <2>1. Set(r, rec) /\ rec.pc = "merge" /\ rec.items = items /\ rec.smooth = FALSE
      BY <1>1, <1>3, <1>8
  <2> HIDE DEF rec
  <2>2. Reading(rec, board)
      BY <1>5, <2>1 DEF Reading
  <2> QED BY <1>1, <2>1, <2>2, ReadingMoves
<1>9. CASE ~more /\ Set(r, [read EXCEPT !.pc = "merge"])
  <2> DEFINE rec == [read EXCEPT !.pc = "merge"]
  <2>1. Set(r, rec) /\ rec.pc = "merge" /\ rec.items = items /\ rec.smooth = f.smooth
      BY <1>1, <1>3, <1>9
  <2> HIDE DEF rec
  <2>2. ASSUME f.smooth PROVE Smooth(rec, board)
    <3>1. /\ f.page \in 1..MaxPages /\ MaxPages \in Nat /\ Len(board) \in Nat
          /\ f.label \in 1..f.view
        BY <1>4, BoardIs, PriceAssumption DEF OnPage
    <3>2. ~ (f.page < MaxPages) \/ ~ (f.label < Len(board))
        BY <1>9 DEF _has_next_page_button
    <3>3. f.page <= Len(board) /\ f.view = f.page
        BY <1>6, <2>2
    <3>4. PagesRead(board) = f.page
      <4>1. f.label \in 1..f.page
          BY <3>1, <3>3
      <4> HIDE DEF f, more
      <4> QED BY <3>1, <3>2, <3>3, <4>1 DEF PagesRead
    <3> QED BY <1>6, <2>1, <2>2, <3>4 DEF Smooth
  <2>3. Reading(rec, board)
      BY <1>5, <2>1, <2>2 DEF Reading
  <2> QED BY <1>1, <2>1, <2>3, ReadingMoves
<1> QED BY <1>2, <1>7, <1>8, <1>9

LEMMA RenderKeepsScrapes ==
    ASSUME PriceInv, ScrapeInv, NEW r \in Refreshes, Render(r)
    PROVE  ScrapeInv'
<1> DEFINE f == refresh[r]
<1>1. DOMAIN f = {"pc", "since", "items", "fetched", "source", "page", "view", "label", "before",
                  "rows", "skus", "seen", "smooth"}
      /\ Reading(f, board) /\ f.pc \in {"collect", "content", "wait"} /\ BoardSame /\ cache' = cache
    BY DEF PriceInv, Idle, ScrapeInv, Render
<1>2. OnPage(f, board) /\ Valid(f.items)
    BY <1>1 DEF Reading
<1>3. Len(board) \in Nat /\ f.view \in 1..Len(board) /\ IsSequence(board[f.view])
    BY <1>2, BoardIs DEF OnPage
<1>4. CASE Set(r, [f EXCEPT !.label = f.view])
  <2> DEFINE rec == [f EXCEPT !.label = f.view]
  <2>1. /\ Set(r, rec) /\ rec.pc = f.pc /\ rec.items = f.items /\ rec.page = f.page /\ rec.view = f.view
        /\ rec.label = f.view /\ rec.rows = f.rows /\ rec.seen = f.seen /\ rec.smooth = f.smooth
      BY <1>1, <1>4
  <2> HIDE DEF rec
  <2>2. f.view \in 1..f.view
      BY <1>3
  <2>3. OnPage(rec, board)
      BY <1>2, <2>1, <2>2 DEF OnPage
  <2>4. f.smooth => Smooth(rec, board)
      BY <1>1, <2>1 DEF Reading, Smooth, SeenUpTo
  <2>5. Reading(rec, board)
      BY <1>1, <1>2, <2>1, <2>3, <2>4 DEF Reading
  <2> QED BY <1>1, <2>1, <2>5, ReadingMoves
<1>5. CASE Set(r, [f EXCEPT !.rows = board[f.view]])
  <2> DEFINE rec == [f EXCEPT !.rows = board[f.view]]
  <2>1. /\ Set(r, rec) /\ rec.pc = f.pc /\ rec.items = f.items /\ rec.page = f.page /\ rec.view = f.view
        /\ rec.label = f.label /\ rec.rows = board[f.view] /\ rec.seen = f.seen /\ rec.smooth = f.smooth
      BY <1>1, <1>5
  <2> HIDE DEF rec
  <2>3. OnPage(rec, board)
      BY <1>2, <1>3, <2>1 DEF OnPage
  <2>4. f.smooth => Smooth(rec, board)
      BY <1>1, <2>1 DEF Reading, Smooth, SeenUpTo
  <2>5. Reading(rec, board)
      BY <1>1, <1>2, <2>1, <2>3, <2>4 DEF Reading
  <2> QED BY <1>1, <2>1, <2>5, ReadingMoves
<1> QED BY <1>4, <1>5 DEF Render

LEMMA WaitKeepsScrapes ==
    ASSUME PriceInv, ScrapeInv, NEW r \in Refreshes, _wait_for_table_change(r)
    PROVE  ScrapeInv'
<1> DEFINE f == refresh[r]
           next == [f EXCEPT !.pc = "collect", !.page = @ + 1]
<1>1. DOMAIN f = {"pc", "since", "items", "fetched", "source", "page", "view", "label", "before",
                  "rows", "skus", "seen", "smooth"}
      /\ Reading(f, board) /\ f.pc = "wait" /\ BoardSame /\ cache' = cache
    BY DEF PriceInv, Idle, ScrapeInv, _wait_for_table_change
<1>2. \/ Set(r, next)
      \/ Set(r, [next EXCEPT !.smooth = FALSE])
      \/ Set(r, [f EXCEPT !.pc = "merge", !.smooth = FALSE])
    BY DEF _wait_for_table_change
<1>3. OnPage(f, board) /\ Valid(f.items) /\ f.page < MaxPages
    BY <1>1 DEF Reading
<1>4. f.page \in Nat /\ f.page + 1 \in 1..MaxPages /\ Len(board) \in Nat
    BY <1>3, BoardIs, PriceAssumption DEF OnPage
<1>5. ASSUME NEW rec, Set(r, rec), rec.pc = "collect", rec.page = f.page + 1,
             rec.items = f.items, rec.view = f.view, rec.label = f.label, rec.rows = f.rows,
             rec.seen = f.seen, rec.smooth \in {f.smooth, FALSE}
      PROVE  ScrapeInv'
  <2>1. OnPage(rec, board)
      BY <1>3, <1>4, <1>5 DEF OnPage
  <2>2. ASSUME rec.smooth PROVE Smooth(rec, board)
    <3>1. /\ f.page <= Len(board)
          /\ f.page < Len(board) => f.view = f.page + 1
      BY <1>1, <1>5, <2>2 DEF Reading, Smooth
    <3>2. /\ SkusOf(f.items) = Shown(board, f.page)
          /\ SeenUpTo(f, board, f.page)
      BY <1>1, <1>5, <2>2 DEF Reading, Smooth
    <3>3. rec.page - 1 = f.page
        BY <1>4, <1>5
    <3>4. rec.page <= Len(board) + 1 /\ (rec.page <= Len(board) => rec.view = rec.page)
        BY <1>4, <1>5, <3>1
    <3>5. SeenUpTo(rec, board, f.page)
        BY <1>5, <3>2 DEF SeenUpTo
    <3> QED BY <1>5, <3>2, <3>3, <3>4, <3>5 DEF Smooth
  <2>3. Reading(rec, board)
      BY <1>3, <1>5, <2>1, <2>2 DEF Reading
  <2> QED BY <1>1, <1>5, <2>3, ReadingMoves
<1>6. CASE Set(r, next)
  <2>1. /\ next.pc = "collect" /\ next.page = f.page + 1 /\ next.items = f.items /\ next.view = f.view
        /\ next.label = f.label /\ next.rows = f.rows /\ next.seen = f.seen /\ next.smooth = f.smooth
      BY <1>1
  <2> HIDE DEF next
  <2> QED BY <1>5, <1>6, <2>1
<1>7. CASE Set(r, [next EXCEPT !.smooth = FALSE])
  <2> DEFINE rec == [next EXCEPT !.smooth = FALSE]
  <2>1. /\ rec.pc = "collect" /\ rec.page = f.page + 1 /\ rec.items = f.items /\ rec.view = f.view
        /\ rec.label = f.label /\ rec.rows = f.rows /\ rec.seen = f.seen /\ rec.smooth = FALSE
      BY <1>1
  <2>2. Set(r, rec)
      BY <1>7
  <2> HIDE DEF rec
  <2> QED BY <1>5, <2>1, <2>2
<1>8. CASE Set(r, [f EXCEPT !.pc = "merge", !.smooth = FALSE])
  <2> DEFINE rec == [f EXCEPT !.pc = "merge", !.smooth = FALSE]
  <2>1. Set(r, rec) /\ rec.pc = "merge" /\ rec.items = f.items /\ rec.smooth = FALSE
      BY <1>1, <1>8
  <2> HIDE DEF rec
  <2>2. Reading(rec, board)
      BY <1>3, <2>1 DEF Reading
  <2> QED BY <1>1, <2>1, <2>2, ReadingMoves
<1> QED BY <1>2, <1>6, <1>7, <1>8

LEMMA MergeKeepsScrapes ==
    ASSUME PriceInv, ScrapeInv, NEW r \in Refreshes, MergePages(r)
    PROVE  ScrapeInv'
<1> DEFINE f == refresh[r]
           items == merge_scraped_pages(f.items)
<1>1. DOMAIN f = {"pc", "since", "items", "fetched", "source", "page", "view", "label", "before",
                  "rows", "skus", "seen", "smooth"}
      /\ Reading(f, board) /\ f.pc = "merge" /\ BoardSame /\ cache' = cache
    BY DEF PriceInv, Idle, ScrapeInv, MergePages
<1>2. \/ normalize_payload(r, items, "playwright_html_scraper")
      \/ Set(r, [f EXCEPT !.pc = "failed"])
    BY DEF MergePages
<1>3. Valid(f.items)
    BY <1>1 DEF Reading
<1>4. Distinct(items) /\ SkusOf(items) = SkusOf(f.items)
    BY <1>3, FilterKeeps, DedupeKeepsOne DEF merge_scraped_pages
<1> HIDE DEF items
<1>5. Exact(board, items, f.smooth)
    BY <1>1, <1>4 DEF Exact, Reading, Smooth
<1>6. CASE normalize_payload(r, items, "playwright_html_scraper")
    BY <1>1, <1>5, <1>6, NormalizedElsewhere
<1>7. CASE Set(r, [f EXCEPT !.pc = "failed"])
  <2> DEFINE rec == [f EXCEPT !.pc = "failed"]
  <2>1. rec.pc = "failed"
      BY <1>1
  <2>2. Set(r, rec)
      BY <1>7
  <2> HIDE DEF rec
  <2>3. Reading(rec, board)
      BY <2>1 DEF Reading, Smooth
  <2> QED BY <1>1, <2>2, <2>3, ReadingMoves
<1> QED BY <1>2, <1>6, <1>7

LEMMA WorldKeepsScrapes ==
    ASSUME PriceInv, ScrapeInv, Tick \/ EditBoard \/ (\E c \in Creators : SnapshotStep(c)) \/ UNCHANGED priceVars
    PROVE  ScrapeInv'
<1>1. CASE EditBoard
  <2>1. PICK b \in Boards : b # board /\ Len(b) = Len(board) /\ board' = b
      BY <1>1 DEF EditBoard
  <2>2. ASSUME NEW r \in Refreshes PROVE Reading(refresh'[r], b)
    <3> DEFINE f == refresh[r]
               rec == refresh'[r]
    <3> SUFFICES Reading(rec, b)
        OBVIOUS
    <3>1. rec = [f EXCEPT !.smooth = @ /\ f.pc = "idle"]
        BY <1>1 DEF EditBoard
    <3>2. DOMAIN f = {"pc", "since", "items", "fetched", "source", "page", "view", "label", "before",
                      "rows", "skus", "seen", "smooth"}
          /\ Reading(f, board)
        BY DEF PriceInv, Idle, ScrapeInv
    <3>3. /\ rec.pc = f.pc /\ rec.items = f.items /\ rec.page = f.page /\ rec.view = f.view
          /\ rec.label = f.label /\ rec.rows = f.rows /\ rec.seen = f.seen /\ rec.source = f.source
          /\ rec.smooth = (f.smooth /\ f.pc = "idle")
        BY <3>1, <3>2
    <3> HIDE DEF rec, f
    <3>4. OnPage(f, board) => OnPage(rec, b)
        BY <2>1, <3>3 DEF OnPage
    <3>5. Exact(board, f.items, f.smooth) => Distinct(rec.items)
        BY <3>3 DEF Exact
    <3>6. CASE f.pc = "idle"
      <4>1. rec.pc = "idle"
          BY <3>3, <3>6
      <4> QED BY <4>1 DEF Reading, Smooth
    <3>7. CASE f.pc # "idle"
      <4>1. ~ rec.smooth
          BY <3>3, <3>7
      <4>2. rec.pc = f.pc /\ rec.items = f.items /\ rec.seen = f.seen /\ rec.page = f.page
            /\ rec.source = f.source
          BY <3>3
      <4>3. Valid(f.items) <=> Valid(rec.items)
          BY <4>2
      <4>4. (f.pc = "write" /\ f.source = "playwright_html_scraper") => Exact(b, rec.items, rec.smooth)
          BY <3>2, <3>5, <4>1 DEF Reading, Exact
      <4> HIDE DEF Valid, Exact, OnPage, Smooth
      <4> QED BY <3>2, <3>4, <4>1, <4>2, <4>3, <4>4 DEF Reading
    <3> QED BY <3>6, <3>7
  <2>3. cache'.source = "playwright_html_scraper" => Exact(b, cache'.items, cache'.smooth)
    <3>1. cache' = [cache EXCEPT !.smooth = FALSE]
        BY <1>1 DEF EditBoard
    <3>2. cache'.source = cache.source /\ cache'.items = cache.items /\ cache'.smooth = FALSE
        BY <3>1 DEF PriceInv, NoPrices
    <3> QED BY <3>2 DEF ScrapeInv, Exact
  <2> HIDE DEF Reading, Exact
  <2> QED BY <2>1, <2>2, <2>3 DEF ScrapeInv
<1>2. CASE Tick \/ (\E c \in Creators : SnapshotStep(c)) \/ UNCHANGED priceVars
  <2>1. board' = board /\ refresh' = refresh /\ cache' = cache
      BY <1>2 DEF Tick, SnapshotStep, get_cached_pricing, create_product_snapshot_from_cached_pricing, priceVars
  <2> QED BY <2>1 DEF ScrapeInv, Reading, Smooth, Exact, OnPage
<1> QED BY <1>1, <1>2

LEMMA BrowserKeepsScrapes ==
    ASSUME PriceInv, ScrapeInv, NEW r \in Refreshes, RefreshStep(r) \/ BrowserStep(r)
    PROVE  ScrapeInv'
BY RefreshKeepsScrapes, LaunchKeepsScrapes, CollectKeepsScrapes, ReadContentKeepsScrapes,
   RenderKeepsScrapes, WaitKeepsScrapes, MergeKeepsScrapes DEF BrowserStep

LEMMA ScrapeInvExact ==
    ASSUME PriceInv, ScrapeInv
    PROVE  ScrapeIsExact
BY DEF ScrapeInv, ScrapeIsExact, Exact, Distinct, SkusOf, Shown, PagesRead, ValidSkus

---------------------------------------------------------------------------
(* Contacts.                                                               *)

Fates == {"valid", "invalid", "duplicate"}

RowsCounted(f, n) == f.count["valid"] + f.count["invalid"] + f.count["duplicate"] = n
ValidCounted(f) ==
    f.count["valid"] = Cardinality(f.flushed) + (IF f.pending = NoPhone THEN 0 ELSE 1)

\* A request that is still open has counted the rows before the one it is at, and as valid
\* those it has written and the one it is about to write; others hold nothing uncommitted.
IsImport(f) ==
    /\ DOMAIN f = DOMAIN NotStarted
    /\ f.pc \in {"idle", "rows", "commit", "committed", "failed", "refused"}
    /\ Len(f.file) \in Nat /\ DOMAIN f.file = 1..Len(f.file)
    /\ \A k \in DOMAIN f.file : ExcelPhone(f.file[k]) # NoPhone
    /\ f.row \in 0..(Len(f.file) + 1)
    /\ IsFiniteSet(f.flushed) /\ NoPhone \notin f.flushed
    /\ f.count \in [Fates -> Nat]
    /\ f.pc = "rows" => f.row # 0
    /\ f.pc = "commit" => f.row = Len(f.file) + 1
    /\ f.pc \in {"rows", "commit"} => /\ RowsCounted(f, f.row - 1) /\ f.pending \notin f.flushed
                                     /\ ValidCounted(f)
    /\ f.pc \notin {"rows", "commit"} => f.flushed = {}
    /\ f.pc \in {"committed", "failed"} => RowsCounted(f, Len(f.file))

RequestsInv ==
    /\ import = [t \in Imports |-> import[t]]
    /\ \A t \in Imports : IsImport(import[t])
    /\ json = [j \in JsonImports |-> json[j]]
    /\ \A j \in JsonImports : /\ DOMAIN json[j] = DOMAIN NoRequest
                              /\ json[j].pc \in {"idle", "item", "insert", "done"}

\* What is written and not yet committed belongs to nobody else.
HeldInv ==
    /\ \A t \in Imports : \A c \in contacts : c.e164 \notin import[t].flushed
    /\ \A t, u \in Imports : t # u => import[t].flushed \cap import[u].flushed = {}

\* A contact of a spreadsheet owns its number and is in no campaign.
OriginInv ==
    \A c \in contacts :
        \/ c.from \in Imports /\ c.e164 = c.phone /\ c.phone # NoPhone /\ c.campaign = NoCampaign
        \/ c.from = NoImport /\ c.campaign = DebugCampaign

UniqueInv ==
    \A c, d \in contacts : c # d =>
        /\ c.e164 = d.e164 => c.e164 = NoPhone
        /\ c.phone = d.phone => c.campaign # d.campaign

Made(t) == {c \in contacts : c.from = t}

MadeInv ==
    \A t \in Imports : IF import[t].pc \in {"committed", "failed"}
                       THEN Cardinality(Made(t)) = import[t].count["valid"]
                       ELSE Made(t) = {}

ContactInv ==
    RequestsInv /\ IsFiniteSet(contacts) /\ HeldInv /\ OriginInv /\ UniqueInv /\ MadeInv

\* A request starts with nothing counted.
LEMMA NothingCounted ==
    /\ NotStarted.count \in [Fates -> Nat]
    /\ NotStarted.count["valid"] = 0 /\ NotStarted.count["invalid"] = 0
    /\ NotStarted.count["duplicate"] = 0
<1>1. \A s \in Fates : {k \in DOMAIN <<>> : process_row(<<>>, k) = s} = {}
    OBVIOUS
<1>2. \A s \in Fates : build_preview(<<>>)[s] = 0
    BY <1>1, FS_EmptySet DEF build_preview, Fates
<1>3. build_preview(<<>>) \in [Fates -> Nat]
    BY <1>2 DEF build_preview, Fates
<1> HIDE DEF build_preview
<1> QED BY <1>2, <1>3 DEF NotStarted, Fates

LEMMA IdleImport ==
    IsImport(NotStarted)
<1>1. DOMAIN NotStarted.file = {} /\ Len(NotStarted.file) = 0 /\ NotStarted.pc = "idle"
      /\ NotStarted.row = 0 /\ NotStarted.flushed = {} /\ DOMAIN NotStarted.file = 1..0
    BY DEF NotStarted
<1> HIDE DEF NotStarted
<1> QED BY <1>1, NothingCounted, FS_EmptySet DEF IsImport

\* The contacts a request finds, whatever they are, are unique and nobody's import.
LEMMA ContactInvInit ==
    ASSUME import = [t \in Imports |-> NotStarted], json = [j \in JsonImports |-> NoRequest],
           NEW phones, IsFiniteSet(phones), contacts = Known(phones)
    PROVE  ContactInv
<1>1. \A c \in contacts : c.from = NoImport /\ c.campaign = DebugCampaign /\ c.e164 = c.phone
    BY DEF Known, Contact
<1>2. UniqueInv
    BY DEF UniqueInv, Known, Contact
<1>3. IsFiniteSet(contacts)
  <2> DEFINE made == [p \in phones |-> Contact(p, p, DebugCampaign, "allowed", NoImport)]
  <2>1. made \in Surjection(phones, contacts)
      BY DEF Known, Surjection
  <2> QED BY <2>1, FS_Surjection
<1>4. RequestsInv
  <2>1. \A t \in Imports : import[t] = NotStarted
      OBVIOUS
  <2> HIDE DEF NotStarted
  <2>2. \A t \in Imports : IsImport(import[t])
      BY <2>1, IdleImport
  <2>3. \A j \in JsonImports : json[j] = NoRequest
      OBVIOUS
  <2>4. NoRequest.pc = "idle"
      BY DEF NoRequest
  <2> QED BY <2>2, <2>3, <2>4 DEF RequestsInv
<1>5. \A t \in Imports : import[t].flushed = {} /\ import[t].pc = "idle"
    BY DEF NotStarted
<1>6. HeldInv
    BY <1>5 DEF HeldInv
<1>7. OriginInv
    BY <1>1 DEF OriginInv
<1>8. \A t \in Imports : Made(t) = {}
    BY <1>1, ContactNames DEF Made
<1>9. MadeInv
    BY <1>5, <1>8 DEF MadeInv
<1> QED BY <1>2, <1>3, <1>4, <1>6, <1>7, <1>9 DEF ContactInv

\* A step of one file's request that writes no contact.
LEMMA ImportMoves ==
    ASSUME ContactInv, NEW t \in Imports, NEW rec, SetImport(t, rec), IsImport(rec),
           import[t].pc \notin {"committed", "failed"}, rec.pc \notin {"committed", "failed"},
           UNCHANGED <<contacts, json>>,
           \A p \in rec.flushed \ import[t].flushed :
               /\ \A c \in contacts : c.e164 # p
               /\ \A u \in Imports \ {t} : p \notin import[u].flushed
    PROVE  ContactInv'
<1> USE DEF ContactInv
<1>1. import' = [u \in Imports |-> import'[u]] /\ import'[t] = rec
      /\ \A u \in Imports : u # t => import'[u] = import[u]
    BY DEF RequestsInv, SetImport
<1>2. contacts' = contacts /\ json' = json
    OBVIOUS
<1>3. RequestsInv'
  <2>1. \A u \in Imports : IsImport(import'[u])
      BY <1>1 DEF RequestsInv
  <2> QED BY <1>1, <1>2, <2>1 DEF RequestsInv
<1>4. HeldInv'
    BY <1>1, <1>2 DEF HeldInv
<1>5. \A u \in Imports : {c \in contacts' : c.from = u} = Made(u)
    BY <1>2 DEF Made
<1>6. MadeInv'
    BY <1>1, <1>2, <1>5 DEF MadeInv, Made
<1>7. OriginInv' /\ UniqueInv' /\ IsFiniteSet(contacts')
    BY <1>2 DEF OriginInv, UniqueInv
<1> QED BY <1>3, <1>4, <1>6, <1>7

LEMMA OneFate ==
    ASSUME NEW f, NEW k
    PROVE  /\ RowFate(f, k) \in Fates
           /\ RowFate(f, k) = "valid" => ExcelPhone(f.file[k]) \notin f.flushed
<1>1. process_row(f.file, k) \in Fates
    BY DEF process_row, Fates
<1> HIDE DEF process_row
<1> QED BY <1>1 DEF RowFate, Fates

\* Counting a row adds one to one of the counts.
LEMMA RowCounted ==
    ASSUME NEW count \in [Fates -> Nat], NEW fate \in Fates, NEW new, new = [count EXCEPT ![fate] = @ + 1]
    PROVE  /\ new \in [Fates -> Nat]
           /\ new["valid"] + new["invalid"] + new["duplicate"]
                = count["valid"] + count["invalid"] + count["duplicate"] + 1
           /\ new["valid"] = count["valid"] + (IF fate = "valid" THEN 1 ELSE 0)
<1>1. \A s \in Fates : new[s] = IF s = fate THEN count[s] + 1 ELSE count[s]
    BY DEF Fates
<1>2. count["valid"] \in Nat /\ count["invalid"] \in Nat /\ count["duplicate"] \in Nat
    BY DEF Fates
<1>3. new \in [Fates -> Nat]
    OBVIOUS
<1>4. CASE fate = "valid"
    BY <1>1, <1>2, <1>3, <1>4 DEF Fates
<1>5. CASE fate = "invalid"
    BY <1>1, <1>2, <1>3, <1>5 DEF Fates
<1>6. CASE fate = "duplicate"
    BY <1>1, <1>2, <1>3, <1>6 DEF Fates
<1> QED BY <1>4, <1>5, <1>6 DEF Fates

LEMMA RolledBack ==
    ASSUME NEW f, IsImport(f), NEW rec,
           rec = [f EXCEPT !.pc = "refused", !.pending = NoPhone, !.flushed = {}]
    PROVE  IsImport(rec) /\ rec.pc = "refused" /\ rec.flushed = {}
<1>1. DOMAIN f = {"pc", "file", "row", "pending", "flushed", "count"}
    BY DEF IsImport, NotStarted
<1>2. /\ DOMAIN rec = DOMAIN f /\ rec.pc = "refused" /\ rec.flushed = {}
      /\ rec.file = f.file /\ rec.row = f.row /\ rec.count = f.count
    BY <1>1
<1> HIDE DEF NotStarted
<1> QED BY <1>2, FS_EmptySet DEF IsImport

LEMMA BeginImportKeeps ==
    ASSUME ContactInv, NEW t \in Imports, BeginImport(t)
    PROVE  ContactInv'
<1>1. PICK file \in Files :
          SetImport(t, [NotStarted EXCEPT !.pc = "rows", !.file = file, !.row = 1])
    BY DEF BeginImport
<1> DEFINE rec == [NotStarted EXCEPT !.pc = "rows", !.file = file, !.row = 1]
<1>2. import[t].pc = "idle" /\ UNCHANGED <<contacts, json>>
    BY DEF BeginImport
<1>3. /\ DOMAIN rec = DOMAIN NotStarted /\ rec.pc = "rows" /\ rec.file = file /\ rec.row = 1
      /\ rec.pending = NoPhone /\ rec.flushed = {} /\ rec.count = NotStarted.count
    BY DEF NotStarted
<1> HIDE DEF rec, NotStarted
<1>4. /\ Len(file) \in Nat /\ DOMAIN file = 1..Len(file)
      /\ \A k \in DOMAIN file : ExcelPhone(file[k]) # NoPhone
    BY ContactFiles
<1>5. IsImport(rec)
  <2>1. RowsCounted(rec, rec.row - 1) /\ ValidCounted(rec)
      BY <1>3, NothingCounted, FS_EmptySet DEF RowsCounted, ValidCounted
  <2> QED BY <1>3, <1>4, <2>1, NothingCounted, FS_EmptySet DEF IsImport
<1> QED BY <1>1, <1>2, <1>3, <1>5, ImportMoves DEF rec

LEMMA FlushContactKeeps ==
    ASSUME ContactInv, NEW t \in Imports, FlushContact(t)
    PROVE  ContactInv'
<1> DEFINE f == import[t]
<1>1. /\ f.pc \in {"rows", "commit"} /\ f.pending # NoPhone /\ ~MustWait(t, f.pending)
      /\ UNCHANGED <<contacts, json>>
    BY DEF FlushContact
<1>2. IsImport(f)
    BY DEF ContactInv, RequestsInv
<1>3. CASE OwnsPhone(f.pending)
  <2> DEFINE rec == [f EXCEPT !.pc = "refused", !.pending = NoPhone, !.flushed = {}]
  <2>1. SetImport(t, rec)
      BY <1>3 DEF FlushContact, RollBack
  <2>2. IsImport(rec) /\ rec.pc = "refused" /\ rec.flushed = {}
      BY <1>2, RolledBack
  <2> HIDE DEF rec
  <2> QED BY <1>1, <2>1, <2>2, ImportMoves
<1>4. CASE ~OwnsPhone(f.pending)
  <2> DEFINE rec == [f EXCEPT !.pending = NoPhone, !.flushed = @ \union {f.pending}]
  <2>1. SetImport(t, rec)
      BY <1>4 DEF FlushContact
  <2>2. DOMAIN f = {"pc", "file", "row", "pending", "flushed", "count"}
      BY <1>2 DEF IsImport, NotStarted
  <2>3. /\ DOMAIN rec = DOMAIN f /\ rec.pc = f.pc /\ rec.file = f.file /\ rec.row = f.row
        /\ rec.count = f.count /\ rec.pending = NoPhone /\ rec.flushed = f.flushed \cup {f.pending}
      BY <2>2
  <2>4. f.pending \notin f.flushed /\ IsFiniteSet(f.flushed) /\ NoPhone \notin f.flushed
      BY <1>1, <1>2 DEF IsImport
  <2> HIDE DEF rec, NotStarted
  <2>5. /\ IsFiniteSet(rec.flushed) /\ NoPhone \notin rec.flushed
        /\ Cardinality(rec.flushed) = Cardinality(f.flushed) + 1 /\ Cardinality(f.flushed) \in Nat
    <3> DEFINE new == f.flushed \cup {f.pending}
    <3>1. IsFiniteSet(new) /\ Cardinality(new) = Cardinality(f.flushed) + 1
        BY <2>4, FS_AddElement
    <3>2. Cardinality(f.flushed) \in Nat
        BY <2>4, FS_CardinalityType
    <3>3. NoPhone \notin new
        BY <1>1, <2>4
    <3> QED BY <2>3, <3>1, <3>2, <3>3
  <2>6. IsImport(rec)
    <3>1. RowsCounted(rec, rec.row - 1)
        BY <1>1, <1>2, <2>3 DEF IsImport, RowsCounted
    <3>2. ValidCounted(rec)
      <4>1. ValidCounted(f)
          BY <1>1, <1>2 DEF IsImport
      <4> QED BY <1>1, <2>3, <2>5, <4>1 DEF ValidCounted
    <3> QED BY <1>1, <1>2, <2>3, <2>5, <3>1, <3>2 DEF IsImport
  <2>7. \A u \in Imports \ {t} : f.pending \notin import[u].flushed
    <3>1. ASSUME NEW u \in Imports \ {t}, f.pending \in import[u].flushed PROVE FALSE
      <4>1. import[u].pc \in {"rows", "commit"}
          BY <3>1 DEF ContactInv, RequestsInv, IsImport
      <4> QED BY <1>1, <3>1, <4>1 DEF MustWait
    <3> QED BY <3>1
  <2>8. \A c \in contacts : c.e164 # f.pending
      BY <1>4 DEF OwnsPhone
  <2>9. \A p \in rec.flushed \ f.flushed : p = f.pending
      BY <2>3
  <2>10. rec.pc \notin {"committed", "failed"} /\ f.pc \notin {"committed", "failed"}
      BY <1>1, <2>3
  <2> QED BY <1>1, <2>1, <2>6, <2>7, <2>8, <2>9, <2>10, ImportMoves
<1> QED BY <1>3, <1>4

LEMMA ImportRowKeeps ==
    ASSUME ContactInv, NEW t \in Imports, ImportRow(t)
    PROVE  ContactInv'
<1> DEFINE f == import[t]
           fate == RowFate(f, f.row)
           counted == [f EXCEPT !.count[fate] = @ + 1, !.row = @ + 1]
<1>1. f.pc = "rows" /\ UNCHANGED <<contacts, json>>
    BY DEF ImportRow
<1>2. IsImport(f)
    BY DEF ContactInv, RequestsInv
<1>3. DOMAIN f = {"pc", "file", "row", "pending", "flushed", "count"} /\ DOMAIN NotStarted = DOMAIN f
    BY <1>2 DEF IsImport, NotStarted
<1>4. /\ Len(f.file) \in Nat /\ DOMAIN f.file = 1..Len(f.file)
      /\ f.row \in 1..(Len(f.file) + 1) /\ f.count \in [Fates -> Nat]
      /\ RowsCounted(f, f.row - 1) /\ ValidCounted(f) /\ IsFiniteSet(f.flushed)
    BY <1>1, <1>2 DEF IsImport
<1> HIDE DEF NotStarted
<1>5. CASE f.row > Len(f.file) /\ SetImport(t, [f EXCEPT !.pc = "commit"])
  <2> DEFINE rec == [f EXCEPT !.pc = "commit"]
  <2>1. /\ DOMAIN rec = DOMAIN f /\ rec.pc = "commit" /\ rec.file = f.file /\ rec.row = f.row
        /\ rec.count = f.count /\ rec.pending = f.pending /\ rec.flushed = f.flushed
      BY <1>3
  <2>2. SetImport(t, rec)
      BY <1>5
  <2> HIDE DEF rec
  <2>3. IsImport(rec)
    <3>1. rec.row = Len(rec.file) + 1
        BY <1>4, <1>5, <2>1
    <3>2. RowsCounted(rec, rec.row - 1) /\ ValidCounted(rec)
        BY <1>1, <1>2, <2>1 DEF IsImport, RowsCounted, ValidCounted
    <3> QED BY <1>1, <1>2, <1>4, <2>1, <3>1, <3>2 DEF IsImport
  <2> QED BY <1>1, <2>1, <2>2, <2>3, ImportMoves
<1>6. CASE /\ f.row <= Len(f.file) /\ f.pending = NoPhone
           /\ SetImport(t, IF fate = "valid" THEN [counted EXCEPT !.pending = ExcelPhone(f.file[f.row])]
                           ELSE counted)
  <2> DEFINE phone == ExcelPhone(f.file[f.row])
             new == [f.count EXCEPT ![fate] = @ + 1]
  <2>1. fate \in Fates /\ (fate = "valid" => phone \notin f.flushed)
      BY OneFate
  <2>2. phone # NoPhone
      BY <1>2, <1>4, <1>6 DEF IsImport
  <2> HIDE DEF fate, phone
  <2>3. /\ DOMAIN counted = DOMAIN f /\ counted.pc = f.pc /\ counted.file = f.file
        /\ counted.row = f.row + 1 /\ counted.pending = f.pending /\ counted.flushed = f.flushed
        /\ counted.count = new
      BY <1>3
  <2> HIDE DEF counted
  <2>4. /\ new \in [Fates -> Nat]
        /\ new["valid"] + new["invalid"] + new["duplicate"] = f.row
        /\ new["valid"] = f.count["valid"] + (IF fate = "valid" THEN 1 ELSE 0)
    <3>1. /\ new \in [Fates -> Nat]
          /\ new["valid"] + new["invalid"] + new["duplicate"]
                = f.count["valid"] + f.count["invalid"] + f.count["duplicate"] + 1
          /\ new["valid"] = f.count["valid"] + (IF fate = "valid" THEN 1 ELSE 0)
        BY <1>4, <2>1, RowCounted
    <3> HIDE DEF new
    <3>2. /\ f.count["valid"] + f.count["invalid"] + f.count["duplicate"] = f.row - 1 /\ f.row \in Nat
          /\ f.count["valid"] \in Nat /\ f.count["invalid"] \in Nat /\ f.count["duplicate"] \in Nat
        BY <1>4 DEF Fates, RowsCounted
    <3> QED BY <3>1, <3>2
  <2>5. f.count["valid"] = Cardinality(f.flushed) /\ Cardinality(f.flushed) \in Nat
      BY <1>4, <1>6, FS_CardinalityType DEF ValidCounted
  <2> HIDE DEF new
  <2>6. CASE fate = "valid"
    <3> DEFINE rec == [counted EXCEPT !.pending = phone]
    <3>1. /\ DOMAIN rec = DOMAIN f /\ rec.pc = f.pc /\ rec.file = f.file
          /\ rec.row = f.row + 1 /\ rec.pending = phone /\ rec.flushed = f.flushed
          /\ rec.count = new
        BY <1>3, <2>3
    <3>2. SetImport(t, rec)
        BY <1>6, <2>6 DEF phone
    <3> HIDE DEF rec
    <3>3. rec.row \in 0..(Len(rec.file) + 1) /\ rec.row # 0 /\ rec.row - 1 = f.row
        BY <1>4, <1>6, <3>1
    <3>5. RowsCounted(rec, rec.row - 1)
        BY <2>4, <3>1, <3>3 DEF RowsCounted
    <3>6. ValidCounted(rec)
        BY <2>2, <2>4, <2>5, <2>6, <3>1 DEF ValidCounted
    <3>4. IsImport(rec)
        BY <1>1, <1>2, <2>1, <2>2, <2>4, <2>6, <3>1, <3>3, <1>3, <3>5, <3>6 DEF IsImport
    <3> QED BY <1>1, <3>1, <3>2, <3>4, ImportMoves
  <2>7. CASE fate # "valid"
    <3>1. SetImport(t, counted)
        BY <1>6, <2>7
    <3>2. counted.row \in 0..(Len(counted.file) + 1) /\ counted.row # 0 /\ counted.row - 1 = f.row
        BY <1>4, <1>6, <2>3
    <3>4. RowsCounted(counted, counted.row - 1)
        BY <2>3, <2>4, <3>2 DEF RowsCounted
    <3>5. ValidCounted(counted)
        BY <1>6, <2>3, <2>4, <2>5, <2>7 DEF ValidCounted
    <3>3. IsImport(counted)
        BY <1>1, <1>2, <1>6, <2>3, <2>4, <3>2, <1>3, <3>4, <3>5 DEF IsImport
    <3> QED BY <1>1, <2>3, <3>1, <3>3, ImportMoves
  <2> QED BY <2>6, <2>7
<1> QED BY <1>5, <1>6 DEF ImportRow

\* Committing makes the contacts that were written, as many as were counted valid.
LEMMA CommitImportKeeps ==
    ASSUME ContactInv, NEW t \in Imports, CommitImport(t)
    PROVE  ContactInv'
<1> USE DEF ContactInv
<1> DEFINE f == import[t]
           new(p) == Contact(p, p, NoCampaign, "allowed", t)
           New == {new(p) : p \in f.flushed}
           next == IF f.count["valid"] > 0 THEN "committed" ELSE "failed"
           rec == [f EXCEPT !.flushed = {}, !.pc = next]
<1>1. /\ f.pc = "commit" /\ f.pending = NoPhone /\ contacts' = contacts \cup New
      /\ SetImport(t, rec) /\ json' = json
    BY DEF CommitImport
<1>2. IsImport(f)
    BY DEF RequestsInv
<1>3. /\ DOMAIN rec = DOMAIN f /\ rec.pc = next /\ rec.flushed = {}
      /\ rec.file = f.file /\ rec.row = f.row /\ rec.count = f.count
  <2>1. DOMAIN f = {"pc", "file", "row", "pending", "flushed", "count"}
      BY <1>2 DEF IsImport, NotStarted
  <2> QED BY <2>1
<1>4. \A p \in f.flushed : /\ new(p).phone = p /\ new(p).e164 = p /\ new(p).from = t
                           /\ new(p).campaign = NoCampaign
    BY DEF Contact
<1>5. \A c \in New : c.phone = c.e164 /\ c.e164 \in f.flushed /\ c.from = t /\ c.campaign = NoCampaign
                     /\ c = new(c.e164)
    BY <1>4
<1>6. IsFiniteSet(New) /\ Cardinality(New) = Cardinality(f.flushed)
  <2> DEFINE made == [p \in f.flushed |-> new(p)]
  <2> HIDE DEF new
  <2>1. made \in Injection(f.flushed, New)
      BY <1>4 DEF Injection, IsInjective
  <2>2. made \in Surjection(f.flushed, New)
      BY DEF Surjection
  <2>3. IsFiniteSet(f.flushed)
      BY <1>2 DEF IsImport
  <2>4. ExistsBijection(f.flushed, New)
      BY <2>1, <2>2 DEF ExistsBijection, Bijection
  <2> QED BY <2>3, <2>4, FS_Bijection
<1> HIDE DEF New, rec, next
<1>7. next \in {"committed", "failed"}
    BY DEF next
<1>8. import' = [u \in Imports |-> import'[u]] /\ import'[t] = rec
      /\ \A u \in Imports : u # t => import'[u] = import[u]
    BY <1>1 DEF RequestsInv, SetImport
<1>9. IsImport(rec)
  <2>1. f.row = Len(f.file) + 1 /\ RowsCounted(f, f.row - 1) /\ Len(f.file) \in Nat
      BY <1>1, <1>2 DEF IsImport
  <2>2. RowsCounted(rec, Len(rec.file))
    <3>1. f.row - 1 = Len(f.file)
        BY <2>1
    <3> QED BY <1>3, <2>1, <3>1 DEF RowsCounted
  <2> QED BY <1>1, <1>2, <1>3, <1>7, <2>2, FS_EmptySet DEF IsImport
<1>10. RequestsInv'
  <2>1. \A u \in Imports : IsImport(import'[u])
      BY <1>8, <1>9 DEF RequestsInv
  <2> QED BY <1>1, <1>8, <2>1 DEF RequestsInv
<1>11. IsFiniteSet(contacts')
    BY <1>1, <1>6, FS_Union
<1>12. \A c \in New : c.e164 \notin rec.flushed /\ \A u \in Imports : u # t => c.e164 \notin import[u].flushed
    BY <1>3, <1>5 DEF HeldInv
<1>13. HeldInv'
  <2>1. \A u \in Imports : \A c \in contacts' : c.e164 \notin import'[u].flushed
      BY <1>1, <1>3, <1>8, <1>12 DEF HeldInv
  <2>2. \A u, w \in Imports : u # w => import'[u].flushed \cap import'[w].flushed = {}
      BY <1>3, <1>8 DEF HeldInv
  <2> QED BY <2>1, <2>2 DEF HeldInv
<1>14. NoPhone \notin f.flushed
    BY <1>2 DEF IsImport
<1>15. OriginInv'
    BY <1>1, <1>5, <1>14 DEF OriginInv
<1>16. \A c \in contacts : \A d \in New : c.e164 # d.e164
    BY <1>5 DEF HeldInv
<1>17. \A c \in contacts : \A d \in New : c.phone = d.phone => c.campaign # d.campaign
    BY <1>5, <1>16, ContactNames DEF OriginInv
<1>18. \A c, d \in New : c # d => c.e164 # d.e164 /\ c.phone # d.phone
    BY <1>5
<1>19. UniqueInv'
  <2> SUFFICES ASSUME NEW c \in contacts', NEW d \in contacts', c # d
               PROVE  /\ c.e164 = d.e164 => c.e164 = NoPhone
                      /\ c.phone = d.phone => c.campaign # d.campaign
      BY DEF UniqueInv
  <2>1. CASE c \in contacts /\ d \in contacts
      BY <2>1 DEF UniqueInv
  <2>2. CASE c \in contacts /\ d \in New
      BY <2>2, <1>16, <1>17
  <2>3. CASE c \in New /\ d \in contacts
      BY <2>3, <1>16, <1>17
  <2>4. CASE c \in New /\ d \in New
      BY <2>4, <1>18
  <2> QED BY <1>1, <2>1, <2>2, <2>3, <2>4
<1>20. Made(t) = {} /\ Cardinality(New) = f.count["valid"]
  <2>1. Cardinality(f.flushed) \in Nat /\ ValidCounted(f)
      BY <1>1, <1>2, FS_CardinalityType DEF IsImport
  <2> QED BY <1>1, <1>6, <2>1 DEF MadeInv, ValidCounted
<1>21. {c \in contacts' : c.from = t} = New
    BY <1>1, <1>5, <1>20 DEF Made
<1>22. \A u \in Imports : u # t => {c \in contacts' : c.from = u} = Made(u)
    BY <1>1, <1>5 DEF Made
<1>23. \A u \in Imports : IF import'[u].pc \in {"committed", "failed"}
                          THEN Cardinality({c \in contacts' : c.from = u}) = import'[u].count["valid"]
                          ELSE {c \in contacts' : c.from = u} = {}
  <2> SUFFICES ASSUME NEW u \in Imports
               PROVE  IF import'[u].pc \in {"committed", "failed"}
                      THEN Cardinality({c \in contacts' : c.from = u}) = import'[u].count["valid"]
                      ELSE {c \in contacts' : c.from = u} = {}
      OBVIOUS
  <2>1. CASE u = t
      BY <2>1, <1>3, <1>7, <1>8, <1>20, <1>21
  <2>2. CASE u # t
      BY <2>2, <1>8, <1>22 DEF MadeInv
  <2> QED BY <2>1, <2>2
<1>24. MadeInv'
    BY <1>23 DEF MadeInv, Made
<1> QED BY <1>10, <1>11, <1>13, <1>15, <1>19, <1>24

LEMMA ImportFailsKeeps ==
    ASSUME ContactInv, NEW t \in Imports, ImportFails(t)
    PROVE  ContactInv'
<1> DEFINE f == import[t]
           rec == [f EXCEPT !.pc = "refused", !.pending = NoPhone, !.flushed = {}]
<1>1. f.pc \in {"rows", "commit"} /\ SetImport(t, rec) /\ UNCHANGED <<contacts, json>>
    BY DEF ImportFails, RollBack
<1>2. IsImport(f)
    BY DEF ContactInv, RequestsInv
<1>3. IsImport(rec) /\ rec.pc = "refused" /\ rec.flushed = {}
    BY <1>2, RolledBack
<1> HIDE DEF rec
<1> QED BY <1>1, <1>3, ImportMoves

\* A step that touches neither the contacts nor the spreadsheets.
LEMMA JsonMoves ==
    ASSUME ContactInv, UNCHANGED <<contacts, import>>,
           json' = [j \in JsonImports |-> json'[j]],
           \A j \in JsonImports : /\ DOMAIN json'[j] = DOMAIN NoRequest
                                  /\ json'[j].pc \in {"idle", "item", "insert", "done"}
    PROVE  ContactInv'
<1> USE DEF ContactInv
<1>1. RequestsInv'
    BY DEF RequestsInv
<1>2. HeldInv' /\ OriginInv' /\ UniqueInv' /\ IsFiniteSet(contacts')
    BY DEF HeldInv, OriginInv, UniqueInv
<1>3. MadeInv'
    BY DEF MadeInv, Made
<1> QED BY <1>1, <1>2, <1>3

\* One of the debug requests moves.
LEMMA JsonSet ==
    ASSUME RequestsInv, NEW j \in JsonImports, NEW rec, SetJson(j, rec),
           DOMAIN rec = DOMAIN NoRequest, rec.pc \in {"item", "insert", "done"}
    PROVE  /\ json' = [k \in JsonImports |-> json'[k]]
           /\ \A k \in JsonImports : /\ DOMAIN json'[k] = DOMAIN NoRequest
                                     /\ json'[k].pc \in {"idle", "item", "insert", "done"}
<1>1. json' = [k \in JsonImports |-> json'[k]] /\ json'[j] = rec
      /\ \A k \in JsonImports : k # j => json'[k] = json[k]
    BY DEF RequestsInv, SetJson
<1> HIDE DEF NoRequest
<1> QED BY <1>1 DEF RequestsInv

JsonFields == {"pc", "list", "item", "known", "owner", "imported", "dup", "other"}

LEMMA JsonKeeps ==
    ASSUME ContactInv, NEW j \in JsonImports, BeginJson(j) \/ CheckItem(j)
    PROVE  ContactInv'
<1> DEFINE f == json[j]
<1>1. RequestsInv /\ DOMAIN f = DOMAIN NoRequest /\ DOMAIN NoRequest = JsonFields
    BY DEF ContactInv, RequestsInv, NoRequest, JsonFields
<1>2. UNCHANGED <<contacts, import>>
    BY DEF BeginJson, CheckItem
<1>3. SUFFICES \E rec : SetJson(j, rec) /\ DOMAIN rec = DOMAIN f /\ rec.pc \in {"item", "insert", "done"}
    BY <1>1, <1>2, JsonSet, JsonMoves
<1>4. CASE BeginJson(j)
  <2>1. PICK list : SetJson(j, [f EXCEPT !.pc = "item", !.list = list, !.item = 1, !.known = InCampaign])
      BY <1>4 DEF BeginJson
  <2> DEFINE rec == [f EXCEPT !.pc = "item", !.list = list, !.item = 1, !.known = InCampaign]
  <2>2. DOMAIN rec = DOMAIN f /\ rec.pc = "item"
      BY <1>1 DEF JsonFields
  <2> HIDE DEF rec
  <2> QED BY <2>1, <2>2 DEF rec
<1>5. CASE CheckItem(j)
  <2> DEFINE phone == normalize_phone(f.list[f.item].raw)
             next == [f EXCEPT !.item = @ + 1]
  <2>1. f.pc = "item"
      BY <1>5 DEF CheckItem
  <2>2. DOMAIN next = DOMAIN f /\ next.pc = "item"
      BY <1>1, <2>1 DEF JsonFields
  <2>3. \/ SetJson(j, [f EXCEPT !.pc = "done"])
        \/ SetJson(j, [next EXCEPT !.other = @ + 1])
        \/ SetJson(j, [next EXCEPT !.dup = @ \union {f.item}])
        \/ SetJson(j, [f EXCEPT !.pc = "insert", !.owner = OwnsPhone(phone)])
      BY <1>5 DEF CheckItem
  <2> HIDE DEF next, phone
  <2>4. CASE SetJson(j, [f EXCEPT !.pc = "done"])
    <3> DEFINE rec == [f EXCEPT !.pc = "done"]
    <3>1. DOMAIN rec = DOMAIN f /\ rec.pc = "done"
        BY <1>1 DEF JsonFields
    <3> QED BY <2>4, <3>1
  <2>5. CASE SetJson(j, [next EXCEPT !.other = @ + 1])
    <3> DEFINE rec == [next EXCEPT !.other = @ + 1]
    <3>1. DOMAIN rec = DOMAIN f /\ rec.pc = "item"
        BY <1>1, <2>2 DEF JsonFields
    <3> QED BY <2>5, <3>1
  <2>6. CASE SetJson(j, [next EXCEPT !.dup = @ \union {f.item}])
    <3> DEFINE rec == [next EXCEPT !.dup = @ \union {f.item}]
    <3>1. DOMAIN rec = DOMAIN f /\ rec.pc = "item"
        BY <1>1, <2>2 DEF JsonFields
    <3> QED BY <2>6, <3>1
  <2>7. CASE SetJson(j, [f EXCEPT !.pc = "insert", !.owner = OwnsPhone(phone)])
    <3> DEFINE rec == [f EXCEPT !.pc = "insert", !.owner = OwnsPhone(phone)]
    <3>1. DOMAIN rec = DOMAIN f /\ rec.pc = "insert"
        BY <1>1 DEF JsonFields
    <3> QED BY <2>7, <3>1
  <2> QED BY <2>3, <2>4, <2>5, <2>6, <2>7
<1> QED BY <1>4, <1>5

\* The two constraints refuse what would not be unique.
LEMMA InsertItemKeeps ==
    ASSUME ContactInv, NEW j \in JsonImports, InsertItem(j)
    PROVE  ContactInv'
<1> DEFINE f == json[j]
           phone == normalize_phone(f.list[f.item].raw)
           e164 == IF f.owner THEN NoPhone ELSE phone
           conflict == phone \in InCampaign \/ (~f.owner /\ OwnsPhone(phone))
           next == [f EXCEPT !.pc = "item", !.item = @ + 1]
           new == Contact(phone, e164, DebugCampaign, f.list[f.item].consent, NoImport)
<1>1. RequestsInv /\ DOMAIN f = DOMAIN NoRequest /\ DOMAIN NoRequest = JsonFields
    BY DEF ContactInv, RequestsInv, NoRequest, JsonFields
<1>2. DOMAIN next = DOMAIN f /\ next.pc = "item"
    BY <1>1 DEF JsonFields
<1>3. import' = import
    BY DEF InsertItem
<1>4. CASE conflict
  <2> DEFINE rec == [next EXCEPT !.dup = @ \union {f.item}, !.known = InCampaign]
  <2>1. SetJson(j, rec) /\ contacts' = contacts
      BY <1>4 DEF InsertItem
  <2> HIDE DEF next
  <2>2. DOMAIN rec = DOMAIN NoRequest /\ rec.pc = "item"
      BY <1>1, <1>2 DEF JsonFields
  <2> HIDE DEF rec
  <2>3. /\ json' = [k \in JsonImports |-> json'[k]]
        /\ \A k \in JsonImports : /\ DOMAIN json'[k] = DOMAIN NoRequest
                                  /\ json'[k].pc \in {"idle", "item", "insert", "done"}
      BY <1>1, <2>1, <2>2, JsonSet
  <2> QED BY <1>3, <2>1, <2>3, JsonMoves
<1>5. CASE ~conflict
  <2> DEFINE rec == [next EXCEPT !.imported = @ \union {f.item}]
  <2>1. /\ SetJson(j, rec) /\ contacts' = contacts \cup {new}
        /\ \A u \in Imports : ~(import[u].pc \in {"rows", "commit"} /\ e164 \in import[u].flushed)
      BY <1>5 DEF InsertItem
  <2> HIDE DEF next
  <2>2. DOMAIN rec = DOMAIN NoRequest /\ rec.pc = "item"
      BY <1>1, <1>2 DEF JsonFields
  <2> HIDE DEF rec
  <2>3. RequestsInv'
    <3>1. /\ json' = [k \in JsonImports |-> json'[k]]
          /\ \A k \in JsonImports : /\ DOMAIN json'[k] = DOMAIN NoRequest
                                    /\ json'[k].pc \in {"idle", "item", "insert", "done"}
        BY <1>1, <2>1, <2>2, JsonSet
    <3> QED BY <1>1, <1>3, <3>1 DEF RequestsInv
  <2>4. /\ new.phone = phone /\ new.e164 = e164 /\ new.campaign = DebugCampaign
        /\ new.from = NoImport
      BY DEF Contact
  <2>5. phone \notin InCampaign /\ (e164 = NoPhone \/ \A c \in contacts : c.e164 # e164)
      BY <1>5 DEF OwnsPhone
  <2> HIDE DEF new, phone, e164, conflict
  <2>6. \A u \in Imports : e164 \notin import[u].flushed
    <3>1. \A u \in Imports : import[u].pc \notin {"rows", "commit"} => import[u].flushed = {}
        BY <1>1 DEF RequestsInv, IsImport
    <3> QED BY <2>1, <3>1
  <2>7. HeldInv'
      BY <1>3, <2>1, <2>4, <2>6 DEF HeldInv, ContactInv
  <2>8. OriginInv'
      BY <2>1, <2>4 DEF OriginInv, ContactInv
  <2>9. \A c \in contacts : /\ c.e164 = new.e164 => c.e164 = NoPhone
                            /\ c.phone = new.phone => c.campaign # new.campaign
      BY <2>4, <2>5 DEF InCampaign
  <2>10. UniqueInv'
      BY <2>1, <2>9 DEF UniqueInv, ContactInv
  <2>11. \A u \in Imports : {c \in contacts' : c.from = u} = Made(u)
      BY <2>1, <2>4, ContactNames DEF Made
  <2>12. MadeInv'
      BY <1>3, <2>11 DEF MadeInv, Made, ContactInv
  <2>13. IsFiniteSet(contacts')
      BY <2>1, FS_AddElement DEF ContactInv
  <2> QED BY <2>3, <2>7, <2>8, <2>10, <2>12, <2>13 DEF ContactInv
<1> QED BY <1>4, <1>5

LEMMA ContactInvStutter ==
    ASSUME ContactInv, UNCHANGED <<contacts, import, json>>
    PROVE  ContactInv'
<1> QED BY JsonMoves DEF ContactInv, RequestsInv

LEMMA ContactInvNext ==
    ASSUME ContactInv, ContactNext
    PROVE  ContactInv'
<1>1. CASE \E t \in Imports : \/ BeginImport(t) \/ FlushContact(t) \/ ImportRow(t) \/ CommitImport(t)
                              \/ ImportFails(t) \/ create_campaign_from_import(t)
  <2>1. PICK t \in Imports : \/ BeginImport(t) \/ FlushContact(t) \/ ImportRow(t) \/ CommitImport(t)
                             \/ ImportFails(t) \/ create_campaign_from_import(t)
      BY <1>1
  <2>2. CASE create_campaign_from_import(t)
      BY <2>2, ContactInvStutter DEF create_campaign_from_import
  <2> QED BY <2>1, <2>2, BeginImportKeeps, FlushContactKeeps, ImportRowKeeps, CommitImportKeeps,
             ImportFailsKeeps
<1>2. CASE \E j \in JsonImports : BeginJson(j) \/ CheckItem(j) \/ InsertItem(j)
    BY <1>2, JsonKeeps, InsertItemKeeps
<1> QED BY <1>1, <1>2 DEF ContactNext

LEMMA ContactInvMeans ==
    ASSUME ContactInv
    PROVE  ContactTypeOK /\ ImportsAreWhole
<1> USE DEF ContactInv
<1>1. ContactTypeOK
    BY DEF ContactTypeOK, RequestsInv, IsImport
<1>2. \A t \in Imports : import[t].pc \in {"committed", "failed"} =>
            import[t].count["valid"] + import[t].count["invalid"] + import[t].count["duplicate"]
                = Len(import[t].file)
    BY DEF RequestsInv, IsImport, RowsCounted
<1>3. ImportsAreWhole
    BY <1>2 DEF ImportsAreWhole, UniqueInv, MadeInv, Made
<1> QED BY <1>1, <1>3

---------------------------------------------------------------------------
(* Prepares.                                                               *)

RowsIn(st, c) == {i \in DOMAIN st : st[i].contact = c}
ReadyIn(st) == {i \in DOMAIN st : st[i].status = "ready"}
ContactsIn(st) == {st[i].contact : i \in DOMAIN st}

IsStaged(st) ==
    /\ Len(st) \in Nat /\ DOMAIN st = 1..Len(st) /\ st \in Seq(Range(st))
    /\ \A i \in DOMAIN st : /\ DOMAIN st[i] = {"contact", "status", "context"}
                            /\ st[i].status \in {"ready", "pushed"}

\* With o prepares that committed over another's: the rows of a contact, the ready rows,
\* and the rows that are not the first of their contact.
AddsUp(st, o) ==
    /\ o \in Nat /\ IsStaged(st)
    /\ \A i \in DOMAIN st : Cardinality(RowsIn(st, st[i].contact)) <= 1 + o
    /\ Cardinality(ReadyIn(st)) <= MaxContacts * (1 + o)
    /\ Len(st) <= Cardinality(ContactsIn(st)) + MaxContacts * o

LEMMA Excess ==
    ASSUME NEW m \in Nat, NEW o \in Nat
    PROVE  /\ m * o \in Nat /\ m * (1 + o) \in Nat
           /\ m * (1 + o) = m * o + m
           /\ m * (1 + (o + 1)) = m * (1 + o) + m
           /\ m * (o + 1) = m * o + m
OBVIOUS

LEMMA StagedFinite ==
    ASSUME NEW st, IsStaged(st)
    PROVE  /\ \A S \in SUBSET DOMAIN st : /\ IsFiniteSet(S) /\ Cardinality(S) \in Nat
                                          /\ Cardinality(S) <= Len(st)
           /\ IsFiniteSet(DOMAIN st) /\ Cardinality(DOMAIN st) = Len(st)
           /\ IsFiniteSet(ContactsIn(st)) /\ Cardinality(ContactsIn(st)) \in Nat
<1>1. DOMAIN st = 1..Len(st) /\ Len(st) \in Nat
    BY DEF IsStaged
<1>2. IsFiniteSet(DOMAIN st) /\ Cardinality(DOMAIN st) = Len(st)
  <2>1. IsFiniteSet(1..Len(st)) /\ Cardinality(1..Len(st)) = IF 1 > Len(st) THEN 0 ELSE Len(st) - 1 + 1
      BY <1>1, FS_Interval
  <2> QED BY <1>1, <2>1
<1>3. \A S \in SUBSET DOMAIN st : /\ IsFiniteSet(S) /\ Cardinality(S) \in Nat
                                  /\ Cardinality(S) <= Len(st)
    BY <1>2, FS_Subset, FS_CardinalityType
<1>4. [i \in DOMAIN st |-> st[i].contact] \in Surjection(DOMAIN st, ContactsIn(st))
    BY DEF Surjection, ContactsIn
<1>5. IsFiniteSet(ContactsIn(st))
    BY <1>2, <1>4, FS_Surjection
<1> QED BY <1>2, <1>3, <1>5, FS_CardinalityType

\* SetToSeq lists a set once.
LEMMA Listed ==
    ASSUME NEW S, IsFiniteSet(S)
    PROVE  /\ Cardinality(S) \in Nat
           /\ SetToSeq(S) \in [1..Cardinality(S) -> S]
           /\ \A i, j \in 1..Cardinality(S) : SetToSeq(S)[i] = SetToSeq(S)[j] => i = j
           /\ \A x \in S : \E i \in 1..Cardinality(S) : SetToSeq(S)[i] = x
<1> DEFINE n == Cardinality(S)
<1>1. n \in Nat /\ ExistsBijection(1..n, S)
    BY FS_CardinalityType
<1>2. \E f \in [1..n -> S] : IsInjective(f)
    BY <1>1 DEF ExistsBijection, Bijection, Injection
<1>3. SetToSeq(S) \in [1..n -> S] /\ IsInjective(SetToSeq(S))
    BY <1>2, Zenon DEF SetToSeq
<1> HIDE DEF n
<1> DEFINE e == SetToSeq(S)
<1> HIDE DEF e
<1>4. e \in Injection(1..n, S)
    BY <1>3 DEF Injection, e
<1>5. IsFiniteSet(1..n) /\ Cardinality(1..n) = n
    BY <1>1, FS_Interval
<1>6. e \in Surjection(1..n, S)
    BY <1>4, <1>5, FS_Injection DEF n
<1>7. \A i, j \in 1..n : e[i] = e[j] => i = j
    BY <1>3 DEF IsInjective, e
<1>8. \A x \in S : \E i \in 1..n : e[i] = x
    BY <1>6 DEF Surjection
<1> QED BY <1>1, <1>3, <1>7, <1>8 DEF e, n

\* The table after a prepare has added rows for the contacts of a set.
After(st, S, context) ==
    st \o [i \in 1..Cardinality(S) |-> StagedQueueItem(SetToSeq(S)[i], context)]

LEMMA RowsAdded ==
    ASSUME NEW st, IsStaged(st), NEW S, IsFiniteSet(S), NEW context, NEW new, new = After(st, S, context)
    PROVE  /\ IsStaged(new) /\ Cardinality(S) \in Nat /\ Len(new) = Len(st) + Cardinality(S)
           /\ \A i \in 1..Len(st) : new[i] = st[i]
           /\ \A i \in 1..Cardinality(S) :
                new[Len(st) + i] = StagedQueueItem(SetToSeq(S)[i], context)
<1> DEFINE n == Cardinality(S)
           more == [i \in 1..n |-> StagedQueueItem(SetToSeq(S)[i], context)]
           T == Range(st) \cup Range(more)
<1>1. n \in Nat
    BY Listed
<1> HIDE DEF n
<1>2. st \in Seq(T)
    BY SeqMonotonic DEF IsStaged
<1>3. more \in Seq(T) /\ Len(more) = n
  <2>1. \A i \in 1..n : more[i] \in T
      BY DEF Range
  <2> HIDE DEF T
  <2>2. more \in [1..n -> T]
      BY <2>1
  <2> QED BY <1>1, <2>2, IsASeq
<1>4. new = st \o more
    BY DEF After, n
<1>5. \A i \in 1..n : more[i] = StagedQueueItem(SetToSeq(S)[i], context)
    OBVIOUS
<1> HIDE DEF more, T
<1>6. /\ new \in Seq(T) /\ Len(new) = Len(st) + n
      /\ \A i \in 1..(Len(st) + n) : new[i] = IF i <= Len(st) THEN st[i] ELSE more[i - Len(st)]
  <2>1. /\ st \o more \in Seq(T) /\ Len(st \o more) = Len(st) + Len(more)
        /\ \A i \in 1..(Len(st) + Len(more)) :
             (st \o more)[i] = IF i <= Len(st) THEN st[i] ELSE more[i - Len(st)]
      BY <1>2, <1>3, ConcatProperties
  <2> QED BY <1>3, <1>4, <2>1
<1>7. Len(st) \in Nat /\ DOMAIN st = 1..Len(st)
    BY DEF IsStaged
<1>8. \A i \in 1..Len(st) : new[i] = st[i]
    BY <1>1, <1>6, <1>7
<1>9. \A i \in 1..n : new[Len(st) + i] = more[i]
    BY <1>1, <1>6, <1>7
<1>10. Len(new) \in Nat /\ DOMAIN new = 1..Len(new) /\ new \in Seq(Range(new))
    BY <1>6, SeqOfRange
<1>11. \A i \in DOMAIN new : /\ DOMAIN new[i] = {"contact", "status", "context"}
                             /\ new[i].status \in {"ready", "pushed"}
  <2> SUFFICES ASSUME NEW i \in 1..(Len(st) + n)
               PROVE  /\ DOMAIN new[i] = {"contact", "status", "context"}
                      /\ new[i].status \in {"ready", "pushed"}
      BY <1>6, <1>10
  <2>1. CASE i <= Len(st)
      BY <1>7, <1>8, <2>1 DEF IsStaged
  <2>2. CASE i > Len(st)
    <3>1. i - Len(st) \in 1..n /\ new[i] = more[i - Len(st)]
        BY <1>1, <1>6, <1>7, <2>2
    <3>2. new[i] = StagedQueueItem(SetToSeq(S)[i - Len(st)], context)
        BY <1>5, <3>1
    <3> QED BY <3>2 DEF StagedQueueItem
  <2> QED BY <1>7, <2>1, <2>2
<1> QED BY <1>1, <1>5, <1>6, <1>8, <1>9, <1>10, <1>11 DEF IsStaged, n

\* One row for each of the contacts, all of them ready.
LEMMA RowsCount ==
    ASSUME NEW st, IsStaged(st), NEW S, IsFiniteSet(S), NEW context, NEW new, new = After(st, S, context)
    PROVE  /\ Cardinality(ReadyIn(new)) <= Cardinality(ReadyIn(st)) + Cardinality(S)
           /\ \A c \in S : Cardinality(RowsIn(new, c)) <= Cardinality(RowsIn(st, c)) + 1
           /\ \A c : c \notin S => RowsIn(new, c) = RowsIn(st, c)
           /\ ContactsIn(new) = ContactsIn(st) \cup S
<1> DEFINE n == Cardinality(S)
           e == SetToSeq(S)
           len == Len(st)
<1>1. /\ IsStaged(new) /\ n \in Nat /\ Len(new) = len + n
      /\ \A i \in 1..len : new[i] = st[i]
      /\ \A i \in 1..n : new[len + i] = StagedQueueItem(e[i], context)
  <2>1. /\ IsStaged(new) /\ Cardinality(S) \in Nat /\ Len(new) = Len(st) + Cardinality(S)
        /\ \A i \in 1..Len(st) : new[i] = st[i]
        /\ \A i \in 1..Cardinality(S) :
                new[Len(st) + i] = StagedQueueItem(SetToSeq(S)[i], context)
      BY RowsAdded
  <2> QED BY <2>1
<1>2. /\ e \in [1..n -> S]
      /\ \A i, j \in 1..n : e[i] = e[j] => i = j
      /\ \A x \in S : \E i \in 1..n : e[i] = x
    BY Listed
<1>3. /\ len \in Nat /\ DOMAIN st = 1..len /\ DOMAIN new = 1..(len + n)
    BY <1>1 DEF IsStaged
<1> HIDE DEF n, e, len
<1>4. \A i \in 1..n : len + i \in DOMAIN new /\ new[len + i].contact = e[i]
  <2> SUFFICES ASSUME NEW i \in 1..n PROVE len + i \in DOMAIN new /\ new[len + i].contact = e[i]
      OBVIOUS
  <2>1. len + i \in 1..(len + n)
      BY <1>1, <1>3
  <2>2. new[len + i] = StagedQueueItem(e[i], context)
      BY <1>1
  <2> QED BY <1>3, <2>1, <2>2 DEF StagedQueueItem
<1>5. \A i \in DOMAIN new : i \in DOMAIN st \/ \E k \in 1..n : i = len + k
  <2> SUFFICES ASSUME NEW i \in DOMAIN new, i \notin DOMAIN st PROVE \E k \in 1..n : i = len + k
      OBVIOUS
  <2>1. i - len \in 1..n /\ i = len + (i - len)   \* i is in 1..(len + n) and not in 1..len
      BY <1>1, <1>3
  <2> QED BY <2>1
<1>6. DOMAIN st \subseteq DOMAIN new /\ \A i \in DOMAIN st : new[i] = st[i]
    BY <1>1, <1>3
<1>7. Cardinality(ReadyIn(new)) <= Cardinality(ReadyIn(st)) + n
  <2> DEFINE Added == (len + 1)..(len + n)
  <2>1. IsFiniteSet(Added) /\ Cardinality(Added) = n
      BY <1>1, <1>3, FS_Interval
  <2>2. ReadyIn(new) \subseteq ReadyIn(st) \cup Added
      BY <1>1, <1>3, <1>6 DEF ReadyIn
  <2> HIDE DEF Added
  <2>3. IsFiniteSet(ReadyIn(st)) /\ Cardinality(ReadyIn(st)) \in Nat
      BY StagedFinite DEF ReadyIn
  <2>4. /\ IsFiniteSet(ReadyIn(st) \cup Added)
        /\ Cardinality(ReadyIn(st) \cup Added) <= Cardinality(ReadyIn(st)) + n
    <3>1. IsFiniteSet(ReadyIn(st) \cap Added)
        BY <2>1, FS_Subset
    <3>2. Cardinality(ReadyIn(st) \cap Added) \in Nat
        BY <3>1, FS_CardinalityType
    <3>3. /\ IsFiniteSet(ReadyIn(st) \cup Added)
          /\ Cardinality(ReadyIn(st) \cup Added)
               = Cardinality(ReadyIn(st)) + Cardinality(Added) - Cardinality(ReadyIn(st) \cap Added)
        BY <2>1, <2>3, FS_Union
    <3>4. n \in Nat
        BY <1>1
    <3> QED BY <2>1, <2>3, <3>2, <3>3, <3>4
  <2>5. Cardinality(ReadyIn(new)) <= Cardinality(ReadyIn(st) \cup Added)
      BY <2>2, <2>4, FS_Subset
  <2>6. Cardinality(ReadyIn(new)) \in Nat /\ Cardinality(ReadyIn(st) \cup Added) \in Nat
      BY <1>1, <2>4, StagedFinite, FS_CardinalityType DEF ReadyIn
  <2> QED BY <1>1, <2>3, <2>4, <2>5, <2>6
<1>8. ASSUME NEW c \in S
      PROVE  Cardinality(RowsIn(new, c)) <= Cardinality(RowsIn(st, c)) + 1
  <2>1. PICK k \in 1..n : e[k] = c
      BY <1>2
  <2>2. \A i \in RowsIn(new, c) : i \in RowsIn(st, c) \/ i = len + k
    <3> SUFFICES ASSUME NEW i \in RowsIn(new, c), i \notin DOMAIN st PROVE i = len + k
        BY <1>6 DEF RowsIn
    <3>1. PICK j \in 1..n : i = len + j
        BY <1>5 DEF RowsIn
    <3>2. e[j] = c
        BY <1>4, <3>1 DEF RowsIn
    <3> QED BY <1>2, <2>1, <3>1, <3>2
  <2>3. RowsIn(st, c) \in SUBSET DOMAIN st /\ len + k \notin RowsIn(st, c)
    <3>1. len + k \notin DOMAIN st
        BY <1>1, <1>3
    <3> QED BY <3>1 DEF RowsIn
  <2>4. IsFiniteSet(RowsIn(st, c)) /\ Cardinality(RowsIn(st, c)) \in Nat
      BY <2>3, StagedFinite
  <2> DEFINE more == RowsIn(st, c) \cup {len + k}
  <2>5. IsFiniteSet(more) /\ Cardinality(more) = Cardinality(RowsIn(st, c)) + 1
      BY <2>3, <2>4, FS_AddElement
  <2>6. RowsIn(new, c) \subseteq more
      BY <2>2
  <2> HIDE DEF more
  <2>7. Cardinality(RowsIn(new, c)) <= Cardinality(more)
      BY <2>5, <2>6, FS_Subset
  <2> QED BY <2>5, <2>7
<1>9. ASSUME NEW c, c \notin S
      PROVE  RowsIn(new, c) = RowsIn(st, c)
  <2>1. \A k \in 1..n : new[len + k].contact # c
      BY <1>2, <1>4, <1>9
  <2> QED BY <1>5, <1>6, <2>1 DEF RowsIn
<1>10. ContactsIn(new) = ContactsIn(st) \cup S
  <2>1. ContactsIn(new) \subseteq ContactsIn(st) \cup S
    <3> SUFFICES ASSUME NEW i \in DOMAIN new, i \notin DOMAIN st PROVE new[i].contact \in S
        BY <1>6 DEF ContactsIn
    <3>1. PICK k \in 1..n : i = len + k
        BY <1>5
    <3> QED BY <1>2, <1>4, <3>1
  <2>2. ContactsIn(st) \subseteq ContactsIn(new)
      BY <1>6 DEF ContactsIn
  <2>3. \A c \in S : \E i \in DOMAIN new : new[i].contact = c
      BY <1>2, <1>4
  <2>4. S \subseteq ContactsIn(new)
      BY <2>3 DEF ContactsIn
  <2> QED BY <2>1, <2>2, <2>4
<1> QED BY <1>7, <1>8, <1>9, <1>10 DEF n

\* A prepare over another's adds at most MaxContacts rows, and one to the excess ...
LEMMA StagedOver ==
    ASSUME NEW st, NEW o, AddsUp(st, o), NEW S, IsFiniteSet(S), Cardinality(S) <= MaxContacts,
           NEW context, NEW new, new = After(st, S, context)
    PROVE  AddsUp(new, o + 1)
<1>1. IsStaged(st) /\ o \in Nat
    BY DEF AddsUp
<1>2. /\ IsStaged(new) /\ Cardinality(S) \in Nat /\ Len(new) = Len(st) + Cardinality(S)
      /\ Cardinality(ReadyIn(new)) <= Cardinality(ReadyIn(st)) + Cardinality(S)
      /\ \A c \in S : Cardinality(RowsIn(new, c)) <= Cardinality(RowsIn(st, c)) + 1
      /\ \A c : c \notin S => RowsIn(new, c) = RowsIn(st, c)
      /\ ContactsIn(new) = ContactsIn(st) \cup S
    BY <1>1, RowsAdded, RowsCount
<1>3. MaxContacts \in Nat /\ Len(st) \in Nat
    BY <1>1, PrepareAssumption DEF IsStaged
<1>4. \A c : Cardinality(RowsIn(st, c)) \in Nat /\ Cardinality(RowsIn(new, c)) \in Nat
  <2>1. \A c : RowsIn(st, c) \in SUBSET DOMAIN st /\ RowsIn(new, c) \in SUBSET DOMAIN new
      BY DEF RowsIn
  <2> QED BY <1>1, <1>2, <2>1, StagedFinite
<1>5. \A c : Cardinality(RowsIn(st, c)) <= 1 + o
  <2> SUFFICES ASSUME NEW c PROVE Cardinality(RowsIn(st, c)) <= 1 + o
      OBVIOUS
  <2>1. CASE RowsIn(st, c) = {}
      BY <1>1, <2>1, FS_EmptySet
  <2>2. CASE RowsIn(st, c) # {}
    <3>1. \E i \in DOMAIN st : st[i].contact = c
        BY <2>2 DEF RowsIn
    <3> QED BY <3>1 DEF AddsUp
  <2> QED BY <2>1, <2>2
<1>6. \A c : Cardinality(RowsIn(new, c)) <= 1 + (o + 1)
  <2> SUFFICES ASSUME NEW c PROVE Cardinality(RowsIn(new, c)) <= 1 + (o + 1)
      OBVIOUS
  <2>1. Cardinality(RowsIn(new, c)) <= Cardinality(RowsIn(st, c)) + 1
      BY <1>2, <1>4
  <2>2. Cardinality(RowsIn(st, c)) <= 1 + o
      BY <1>5
  <2> QED BY <1>1, <1>4, <2>1, <2>2
<1>7. Cardinality(ReadyIn(st)) \in Nat /\ Cardinality(ReadyIn(new)) \in Nat
    BY <1>1, <1>2, StagedFinite DEF ReadyIn
<1>8. Cardinality(ReadyIn(new)) <= MaxContacts * (1 + (o + 1))
  <2>1. Cardinality(ReadyIn(st)) <= MaxContacts * (1 + o)
      BY DEF AddsUp
  <2>2. MaxContacts * (1 + o) \in Nat /\ MaxContacts * (1 + (o + 1)) = MaxContacts * (1 + o) + MaxContacts
      BY <1>1, <1>3, Excess
  <2> QED BY <1>2, <1>3, <1>7, <2>1, <2>2
<1>9. Len(new) <= Cardinality(ContactsIn(new)) + MaxContacts * (o + 1)
  <2>1. Len(st) <= Cardinality(ContactsIn(st)) + MaxContacts * o
      BY DEF AddsUp
  <2>2. MaxContacts * o \in Nat /\ MaxContacts * (o + 1) = MaxContacts * o + MaxContacts
      BY <1>1, <1>3, Excess
  <2>3. IsFiniteSet(ContactsIn(new)) /\ Cardinality(ContactsIn(new)) \in Nat
        /\ Cardinality(ContactsIn(st)) \in Nat
      BY <1>1, <1>2, StagedFinite
  <2>4. Cardinality(ContactsIn(st)) <= Cardinality(ContactsIn(new))
      BY <1>2, <2>3, FS_Subset
  <2> QED BY <1>2, <1>3, <2>1, <2>2, <2>3, <2>4
<1> QED BY <1>1, <1>2, <1>6, <1>8, <1>9 DEF AddsUp

\* ... and one that saw every row adds none to it.
LEMMA StagedAlone ==
    ASSUME NEW st, NEW o, AddsUp(st, o), NEW S, IsFiniteSet(S), \A c \in S : RowsIn(st, c) = {},
           Cardinality(ReadyIn(st)) + Cardinality(S) <= MaxContacts * (1 + o),
           NEW context, NEW new, new = After(st, S, context)
    PROVE  AddsUp(new, o)
<1>1. IsStaged(st) /\ o \in Nat
    BY DEF AddsUp
<1>2. /\ IsStaged(new) /\ Cardinality(S) \in Nat /\ Len(new) = Len(st) + Cardinality(S)
      /\ Cardinality(ReadyIn(new)) <= Cardinality(ReadyIn(st)) + Cardinality(S)
      /\ \A c \in S : Cardinality(RowsIn(new, c)) <= Cardinality(RowsIn(st, c)) + 1
      /\ \A c : c \notin S => RowsIn(new, c) = RowsIn(st, c)
      /\ ContactsIn(new) = ContactsIn(st) \cup S
    BY <1>1, RowsAdded, RowsCount
<1>3. MaxContacts \in Nat /\ Len(st) \in Nat
    BY <1>1, PrepareAssumption DEF IsStaged
<1>4. ASSUME NEW i \in DOMAIN new
      PROVE  Cardinality(RowsIn(new, new[i].contact)) <= 1 + o
  <2> DEFINE c == new[i].contact
  <2>1. CASE c \in S
    <3>1. Cardinality(RowsIn(st, c)) = 0
        BY <2>1, FS_EmptySet
    <3>2. Cardinality(RowsIn(new, c)) <= 0 + 1
        BY <1>2, <2>1, <3>1
    <3>3. Cardinality(RowsIn(new, c)) \in Nat
        BY <1>2, StagedFinite DEF RowsIn
    <3> QED BY <1>1, <3>2, <3>3
  <2>2. CASE c \notin S
    <3>1. RowsIn(new, c) = RowsIn(st, c)
        BY <1>2, <2>2
    <3>2. i \in RowsIn(new, c)
        BY DEF RowsIn
    <3>3. i \in DOMAIN st /\ st[i].contact = c
        BY <3>1, <3>2 DEF RowsIn
    <3> QED BY <3>1, <3>3 DEF AddsUp
  <2> QED BY <2>1, <2>2
<1>5. Cardinality(ReadyIn(new)) <= MaxContacts * (1 + o)
  <2>1. Cardinality(ReadyIn(st)) \in Nat /\ Cardinality(ReadyIn(new)) \in Nat
      BY <1>1, <1>2, StagedFinite DEF ReadyIn
  <2>2. MaxContacts * (1 + o) \in Nat
      BY <1>1, <1>3, Excess
  <2> QED BY <1>2, <2>1, <2>2
<1>6. Len(new) <= Cardinality(ContactsIn(new)) + MaxContacts * o
  <2>1. Len(st) <= Cardinality(ContactsIn(st)) + MaxContacts * o /\ MaxContacts * o \in Nat
      BY <1>1, <1>3, Excess DEF AddsUp
  <2>2. ContactsIn(st) \cap S = {}
      BY DEF ContactsIn, RowsIn
  <2>3. IsFiniteSet(ContactsIn(st)) /\ Cardinality(ContactsIn(st)) \in Nat
      BY <1>1, StagedFinite
  <2>4. Cardinality(ContactsIn(new)) = Cardinality(ContactsIn(st)) + Cardinality(S)
    <3>1. Cardinality(ContactsIn(st) \cup S)
            = Cardinality(ContactsIn(st)) + Cardinality(S) - Cardinality(ContactsIn(st) \cap S)
        BY <2>3, FS_Union
    <3>2. Cardinality(ContactsIn(st) \cap S) = 0
        BY <2>2, FS_EmptySet
    <3> QED BY <1>2, <2>3, <3>1, <3>2
  <2> QED BY <1>2, <1>3, <2>1, <2>3, <2>4
<1> QED BY <1>1, <1>2, <1>4, <1>5, <1>6 DEF AddsUp

\* No contact, no row.
LEMMA NoneAdded ==
    ASSUME NEW st, IsStaged(st), NEW context
    PROVE  After(st, {}, context) = st
<1> DEFINE new == After(st, {}, context)
<1>1. IsFiniteSet({}) /\ Cardinality({}) = 0
    BY FS_EmptySet
<1>2. IsStaged(new) /\ Len(new) = Len(st) + Cardinality({}) /\ \A i \in 1..Len(st) : new[i] = st[i]
    BY <1>1, RowsAdded
<1> HIDE DEF new
<1>3. Len(new) = Len(st)
    BY <1>1, <1>2 DEF IsStaged
<1>4. new \in Seq(Range(new)) /\ st \in Seq(Range(st))
    BY <1>2 DEF IsStaged
<1> QED BY <1>2, <1>3, <1>4, SeqEqual DEF new

\* Of the rows of a contact a prepare keeps one in mind, and counts it when it is ready:
\* the ready rows it does not count are rows beyond the first of their contact.
LEMMA ReadyKept ==
    ASSUME NEW st, NEW o, AddsUp(st, o), NEW kept \in [ContactsIn(st) -> DOMAIN st],
           \A c \in ContactsIn(st) : st[kept[c]].contact = c
    PROVE  LET ready == Cardinality({c \in DOMAIN kept : st[kept[c]].status = "ready"})
           IN  ready \in Nat /\ Cardinality(ReadyIn(st)) <= ready + MaxContacts * o
<1> DEFINE C == ContactsIn(st)
           counted == {c \in C : st[kept[c]].status = "ready"}
           K == {kept[c] : c \in C}
           KR == {kept[c] : c \in counted}
           Others == DOMAIN st \ K
<1>1. IsStaged(st) /\ o \in Nat /\ MaxContacts \in Nat /\ MaxContacts * o \in Nat
    BY PrepareAssumption, Excess DEF AddsUp
<1>2. IsFiniteSet(C) /\ Cardinality(C) \in Nat /\ IsFiniteSet(counted) /\ Cardinality(counted) \in Nat
    BY <1>1, StagedFinite, FS_Subset, FS_CardinalityType
<1>3. \A c, d \in C : kept[c] = kept[d] => c = d
    BY Zenon
<1>4. IsFiniteSet(K) /\ Cardinality(K) = Cardinality(C)
  <2>1. kept \in Injection(C, K)
      BY <1>3 DEF Injection, IsInjective
  <2>2. kept \in Surjection(C, K)
      BY <2>1 DEF Surjection, Injection
  <2>3. ExistsBijection(C, K)
      BY <2>1, <2>2 DEF ExistsBijection, Bijection
  <2> QED BY <1>2, <2>3, FS_Bijection
<1>5. IsFiniteSet(KR) /\ Cardinality(KR) <= Cardinality(counted) /\ Cardinality(KR) \in Nat
  <2> DEFINE g == [c \in counted |-> kept[c]]
  <2>1. g \in Surjection(counted, KR)
      BY DEF Surjection
  <2> QED BY <1>2, <2>1, FS_Surjection, FS_CardinalityType
<1>6. Cardinality(Others) = Len(st) - Cardinality(C) /\ IsFiniteSet(Others)
  <2>1. K \subseteq DOMAIN st
      OBVIOUS
  <2>2. DOMAIN st \cap K = K
      BY <2>1
  <2>3. IsFiniteSet(DOMAIN st) /\ Cardinality(DOMAIN st) = Len(st)
      BY <1>1, StagedFinite
  <2> HIDE DEF K
  <2>4. /\ IsFiniteSet(DOMAIN st \ K)
        /\ Cardinality(DOMAIN st \ K) = Cardinality(DOMAIN st) - Cardinality(DOMAIN st \cap K)
      BY <2>3, FS_Difference
  <2> QED BY <1>4, <2>2, <2>3, <2>4
<1>7. ReadyIn(st) \subseteq KR \cup Others
  <2> SUFFICES ASSUME NEW i \in ReadyIn(st), i \in K PROVE i \in KR
      BY DEF ReadyIn
  <2>1. PICK c \in C : i = kept[c]
      OBVIOUS
  <2> QED BY <2>1 DEF ReadyIn
<1> HIDE DEF counted, K, KR, Others
<1>8. Cardinality(ReadyIn(st)) <= Cardinality(KR) + Cardinality(Others)
  <2>1. /\ IsFiniteSet(KR \cup Others)
        /\ Cardinality(KR \cup Others) = Cardinality(KR) + Cardinality(Others) - Cardinality(KR \cap Others)
      BY <1>5, <1>6, FS_Union
  <2>2. Cardinality(KR \cap Others) \in Nat
      BY <1>5, FS_Subset, FS_CardinalityType
  <2>3. Cardinality(ReadyIn(st)) <= Cardinality(KR \cup Others)
      BY <1>7, <2>1, FS_Subset
  <2>4. Cardinality(ReadyIn(st)) \in Nat /\ Cardinality(Others) \in Nat
      BY <1>1, <1>6, StagedFinite, FS_CardinalityType DEF ReadyIn
  <2> QED BY <1>5, <2>1, <2>2, <2>3, <2>4
<1>9. Len(st) <= Cardinality(C) + MaxContacts * o
    BY DEF AddsUp
<1>10. Cardinality(ReadyIn(st)) <= Cardinality(counted) + MaxContacts * o
  <2>1. Cardinality(ReadyIn(st)) \in Nat /\ Len(st) \in Nat
      BY <1>1, StagedFinite DEF ReadyIn, IsStaged
  <2> QED BY <1>1, <1>2, <1>5, <1>6, <1>8, <1>9, <2>1
<1>11. {c \in DOMAIN kept : st[kept[c]].status = "ready"} = counted
    BY DEF counted
<1> QED BY <1>2, <1>10, <1>11

Recent(context) == context.enabled => context.at - context.fetched <= TTL

\* What a prepare has chosen fits the limit; while no other has committed since it read,
\* none of it has a row and it fits beside the rows that are ready.
IsPrepare(f, st, o) ==
    /\ DOMAIN f = {"pc", "context", "chosen", "ready", "stale"}
    /\ f.pc \in {"idle", "context", "read", "commit", "done", "failed", "refused"}
    /\ DOMAIN f.context = DOMAIN NoContext /\ Recent(f.context)
    /\ f.pc \in {"idle", "context"} => f.context.enabled = FALSE
    /\ f.pc = "commit" =>
         /\ IsFiniteSet(f.chosen) /\ Cardinality(f.chosen) <= MaxContacts
         /\ f.stale \/ /\ \A c \in f.chosen : RowsIn(st, c) = {}
                       /\ Cardinality(ReadyIn(st)) + Cardinality(f.chosen) <= MaxContacts * (1 + o)

Done == {p \in Prepares : prepare[p].pc = "done"}

PrepareInv ==
    /\ prepare = [p \in Prepares |-> prepare[p]]
    /\ \A p \in Prepares : IsPrepare(prepare[p], staged, overlaps)
    /\ AddsUp(staged, overlaps)
    /\ \A i \in DOMAIN staged : Recent(staged[i].context)
    /\ overlaps <= Cardinality(Done)
    /\ status \in {"draft", "prepared", "running"}

LEMMA PrepareInvInit ==
    PrepareInit => PrepareInv
<1> SUFFICES ASSUME PrepareInit PROVE PrepareInv
    OBVIOUS
<1>1. staged = <<>> /\ overlaps = 0 /\ status = "draft" /\ MaxContacts \in Nat
    BY PrepareAssumption DEF PrepareInit
<1>2. IsStaged(staged)
    BY <1>1 DEF IsStaged, Range
<1>3. ReadyIn(staged) = {} /\ ContactsIn(staged) = {} /\ DOMAIN staged = {} /\ Len(staged) = 0
    BY <1>1 DEF ReadyIn, ContactsIn
<1>4. AddsUp(staged, overlaps)
  <2>1. MaxContacts * (1 + 0) \in Nat /\ MaxContacts * 0 \in Nat
      BY <1>1
  <2>2. Cardinality(ReadyIn(staged)) = 0 /\ Cardinality(ContactsIn(staged)) = 0
      BY <1>3, FS_EmptySet
  <2> QED BY <1>1, <1>2, <1>3, <2>1, <2>2 DEF AddsUp
<1>5. \A p \in Prepares : prepare[p] = [pc |-> "idle", context |-> NoContext, chosen |-> {},
                                        ready |-> FALSE, stale |-> FALSE]
    BY DEF PrepareInit
<1>6. \A p \in Prepares : IsPrepare(prepare[p], staged, overlaps)
  <2>1. NoContext.enabled = FALSE
      BY DEF NoContext
  <2> HIDE DEF NoContext
  <2> QED BY <1>5, <2>1 DEF IsPrepare, Recent
<1>7. overlaps <= Cardinality(Done)
  <2>1. Done = {}
      BY <1>5 DEF Done
  <2> QED BY <1>1, <2>1, FS_EmptySet
<1> QED BY <1>1, <1>3, <1>4, <1>6, <1>7 DEF PrepareInv, PrepareInit

\* A prepare moves on without touching the table.
LEMMA PrepareMoves ==
    ASSUME PrepareInv, NEW p \in Prepares, NEW rec, SetPrepare(p, rec),
           prepare[p].pc # "done", IsPrepare(rec, staged, overlaps),
           UNCHANGED <<staged, status, overlaps>>
    PROVE  PrepareInv'
<1>1. prepare' = [q \in Prepares |-> prepare'[q]] /\ prepare'[p] = rec
      /\ \A q \in Prepares : q # p => prepare'[q] = prepare[q]
    BY DEF PrepareInv, SetPrepare
<1>2. \A q \in Prepares : IsPrepare(prepare'[q], staged, overlaps)
    BY <1>1 DEF PrepareInv
<1>3. overlaps <= Cardinality(Done')
  <2>1. Done \subseteq Done' /\ IsFiniteSet(Done')
      BY <1>1, PrepareAssumption, FS_Subset DEF Done
  <2>2. /\ Cardinality(Done) \in Nat /\ Cardinality(Done') \in Nat
        /\ Cardinality(Done) <= Cardinality(Done')
      BY <2>1, FS_Subset, FS_CardinalityType
  <2> QED BY <2>2 DEF PrepareInv, AddsUp
<1>4. staged' = staged /\ status' = status /\ overlaps' = overlaps
    OBVIOUS
<1>5. \A q \in Prepares : IsPrepare(prepare'[q], staged', overlaps')
    BY <1>2, <1>4
<1>6. AddsUp(staged', overlaps') /\ \A i \in DOMAIN staged' : Recent(staged'[i].context)
    BY <1>4 DEF PrepareInv
<1> QED BY <1>1, <1>3, <1>4, <1>5, <1>6 DEF PrepareInv

LEMMA BeginPrepareKeeps ==
    ASSUME PrepareInv, NEW p \in Prepares, BeginPrepare(p)
    PROVE  PrepareInv'
<1> DEFINE f == prepare[p]
           s == get_latest_valid_product_snapshot
           new == [NoContext EXCEPT !.snapshot = IF includeProducts THEN s ELSE 0]
<1>1. f.pc = "idle" /\ UNCHANGED <<staged, status, overlaps>>
    BY DEF BeginPrepare
<1>2. IsPrepare(f, staged, overlaps)
    BY DEF PrepareInv
<1>3. DOMAIN f = {"pc", "context", "chosen", "ready", "stale"}
    BY <1>2 DEF IsPrepare
<1>4. \/ SetPrepare(p, [f EXCEPT !.pc = "refused"])
      \/ SetPrepare(p, [f EXCEPT !.pc = "context", !.context = new])
    BY DEF BeginPrepare
<1>5. CASE SetPrepare(p, [f EXCEPT !.pc = "refused"])
  <2> DEFINE rec == [f EXCEPT !.pc = "refused"]
  <2>1. DOMAIN rec = DOMAIN f /\ rec.pc = "refused" /\ rec.context = f.context
      BY <1>3
  <2> HIDE DEF rec
  <2>2. IsPrepare(rec, staged, overlaps)
      BY <1>2, <2>1 DEF IsPrepare
  <2> QED BY <1>1, <1>5, <2>2, PrepareMoves DEF rec
<1>6. CASE SetPrepare(p, [f EXCEPT !.pc = "context", !.context = new])
  <2> DEFINE rec == [f EXCEPT !.pc = "context", !.context = new]
  <2>1. DOMAIN new = DOMAIN NoContext /\ new.enabled = FALSE
      BY DEF NoContext
  <2> HIDE DEF new
  <2>2. DOMAIN rec = DOMAIN f /\ rec.pc = "context" /\ rec.context = new
      BY <1>3
  <2>3. SetPrepare(p, rec)
      BY <1>6
  <2> HIDE DEF rec
  <2>4. IsPrepare(rec, staged, overlaps)
      BY <1>3, <2>1, <2>2 DEF IsPrepare, Recent
  <2> QED BY <1>1, <2>3, <2>4, PrepareMoves
<1> QED BY <1>4, <1>5, <1>6

\* The snapshot is the newest and valid: its prices were fetched at most TTL before now.
LEMMA ContextKeeps ==
    ASSUME PrepareInv, NEW p \in Prepares, build_product_context(p),
           now \in Nat, TTL \in Nat,
           Len(snapshots) \in Nat,
           \A i \in 1..Len(snapshots) : /\ snapshots[i].fetched \in Nat
                                        /\ snapshots[i].expires = snapshots[i].fetched + TTL
    PROVE  PrepareInv'
<1> DEFINE f == prepare[p]
           s == get_latest_valid_product_snapshot
           old == f.context
           priced == [old EXCEPT !.at = now, !.enabled = TRUE, !.fetched = snapshots[s].fetched]
           plain == [old EXCEPT !.at = now]
<1>1. f.pc = "context" /\ UNCHANGED <<staged, status, overlaps>>
    BY DEF build_product_context
<1>2. IsPrepare(f, staged, overlaps)
    BY DEF PrepareInv
<1>3. /\ DOMAIN f = {"pc", "context", "chosen", "ready", "stale"}
      /\ DOMAIN old = {"at", "snapshot", "fetched", "enabled"} /\ DOMAIN NoContext = DOMAIN old
      /\ old.enabled = FALSE
    BY <1>1, <1>2 DEF IsPrepare, NoContext
<1>4. s # 0 => /\ snapshots[s].fetched \in Nat /\ now <= snapshots[s].fetched + TTL
  <2> SUFFICES ASSUME s # 0 PROVE snapshots[s].fetched \in Nat /\ now <= snapshots[s].fetched + TTL
      OBVIOUS
  <2>1. snapshots # <<>> /\ ~ is_snapshot_expired(Last(snapshots)) /\ s = Len(snapshots)
      BY DEF get_latest_valid_product_snapshot
  <2> HIDE DEF s
  <2>2. s \in 1..Len(snapshots)
      BY <2>1
  <2>3. ~ (now > snapshots[s].expires)
      BY <2>1 DEF is_snapshot_expired, Last
  <2>4. snapshots[s].fetched \in Nat /\ snapshots[s].expires = snapshots[s].fetched + TTL
      BY <2>2
  <2> QED BY <2>3, <2>4
<1>5. \/ s # 0 /\ SetPrepare(p, [f EXCEPT !.pc = "read", !.context = priced])
      \/ SetPrepare(p, [f EXCEPT !.pc = "read", !.context = plain])
    BY DEF build_product_context
<1>6. DOMAIN priced = DOMAIN NoContext /\ priced.at = now /\ priced.fetched = snapshots[s].fetched
    BY <1>3
<1>7. DOMAIN plain = DOMAIN NoContext /\ plain.enabled = FALSE
    BY <1>3
<1> HIDE DEF priced, plain, s
<1>8. s # 0 => Recent(priced)
    BY <1>4, <1>6 DEF Recent
<1>9. Recent(plain)
    BY <1>7 DEF Recent
<1>10. ASSUME NEW context, Recent(context), DOMAIN context = DOMAIN NoContext,
              SetPrepare(p, [f EXCEPT !.pc = "read", !.context = context])
       PROVE  PrepareInv'
  <2> DEFINE rec == [f EXCEPT !.pc = "read", !.context = context]
  <2>1. DOMAIN rec = DOMAIN f /\ rec.pc = "read" /\ rec.context = context
      BY <1>3
  <2>2. SetPrepare(p, rec)
      BY <1>10
  <2> HIDE DEF rec
  <2>3. IsPrepare(rec, staged, overlaps)
      BY <1>3, <1>10, <2>1 DEF IsPrepare
  <2> QED BY <1>1, <2>2, <2>3, PrepareMoves
<1> QED BY <1>5, <1>6, <1>7, <1>8, <1>9, <1>10

\* The slots are counted from the rows that were read.
LEMMA ReadCampaignKeeps ==
    ASSUME PrepareInv, NEW p \in Prepares, ReadCampaign(p), IsFiniteSet(contacts)
    PROVE  PrepareInv'
<1> DEFINE f == prepare[p]
           C == ContactsIn(staged)
           Ready(kept) == Cardinality({c \in DOMAIN kept : staged[kept[c]].status = "ready"})
           Slots(limit, kept) == IF _compute_effective_limit(limit) > Ready(kept)
                                 THEN _compute_effective_limit(limit) - Ready(kept) ELSE 0
<1>1. PICK limit \in 1..MaxContacts,
           kept \in {g \in [C -> DOMAIN staged] : \A c \in DOMAIN g : staged[g[c]].contact = c},
           chosen \in SUBSET Unstaged :
         /\ f.pc = "read"
         /\ Cardinality(chosen) = Min2(Slots(limit, kept), Cardinality(Unstaged))
         /\ SetPrepare(p, [f EXCEPT !.pc = "commit", !.chosen = chosen,
                                    !.ready = chosen # {} \/ Ready(kept) > 0])
    BY DEF ReadCampaign, ContactsIn
<1> DEFINE ready == Ready(kept)
           slots == Slots(limit, kept)
           rec == [f EXCEPT !.pc = "commit", !.chosen = chosen, !.ready = chosen # {} \/ ready > 0]
<1>2. UNCHANGED <<staged, status, overlaps>>
    BY DEF ReadCampaign
<1>3. AddsUp(staged, overlaps) /\ overlaps \in Nat /\ IsPrepare(f, staged, overlaps) /\ MaxContacts \in Nat
    BY PrepareAssumption DEF PrepareInv, AddsUp
<1>4. ready \in Nat /\ Cardinality(ReadyIn(staged)) <= ready + MaxContacts * overlaps
    BY <1>1, <1>3, ReadyKept
<1> HIDE DEF ready
<1>5. IsFiniteSet(Allowed) /\ Cardinality(Allowed) \in Nat
  <2> DEFINE D == {d \in contacts : d.campaign = DebugCampaign /\ d.consent = "allowed"}
  <2>1. IsFiniteSet(D)
      BY FS_Subset
  <2>2. [c \in D |-> c.phone] \in Surjection(D, Allowed)
      BY DEF Surjection, Allowed
  <2> HIDE DEF D
  <2> QED BY <2>1, <2>2, FS_Surjection, FS_CardinalityType
<1>6. Unstaged \subseteq Allowed /\ \A c \in Unstaged : RowsIn(staged, c) = {}
    BY DEF Unstaged, Rows, RowsIn
<1>7. IsFiniteSet(Unstaged) /\ Cardinality(Unstaged) \in Nat
      /\ IsFiniteSet(chosen) /\ Cardinality(chosen) \in Nat
    BY <1>5, <1>6, FS_Subset, FS_CardinalityType
<1>8. _compute_effective_limit(limit) \in Nat /\ _compute_effective_limit(limit) <= MaxContacts
    BY <1>3, <1>5 DEF _compute_effective_limit, Min2
<1>9. slots \in Nat /\ slots <= MaxContacts /\ (slots = 0 \/ slots + ready <= MaxContacts)
    BY <1>3, <1>4, <1>8 DEF ready
<1> HIDE DEF slots
<1>10. Cardinality(chosen) <= slots
    BY <1>1, <1>7, <1>9 DEF Min2, slots
<1>11. Cardinality(ReadyIn(staged)) + Cardinality(chosen) <= MaxContacts * (1 + overlaps)
  <2>1. MaxContacts * (1 + overlaps) = MaxContacts * overlaps + MaxContacts
        /\ MaxContacts * overlaps \in Nat /\ MaxContacts * (1 + overlaps) \in Nat
      BY <1>3, Excess
  <2>2. Cardinality(ReadyIn(staged)) \in Nat
      BY <1>3, StagedFinite DEF ReadyIn, AddsUp
  <2>3. CASE slots = 0
      BY <1>3, <1>7, <1>10, <2>1, <2>2, <2>3 DEF AddsUp
  <2>4. CASE slots + ready <= MaxContacts
      BY <1>3, <1>4, <1>7, <1>9, <1>10, <2>1, <2>2, <2>4
  <2> QED BY <1>9, <2>3, <2>4
<1>12. Cardinality(chosen) <= MaxContacts
    BY <1>3, <1>7, <1>9, <1>10
<1>13. SetPrepare(p, rec) /\ f.pc = "read"
    BY <1>1 DEF ready
<1>14. DOMAIN f = {"pc", "context", "chosen", "ready", "stale"}
    BY <1>3 DEF IsPrepare
<1>15. DOMAIN rec = DOMAIN f /\ rec.pc = "commit" /\ rec.chosen = chosen /\ rec.context = f.context
       /\ rec.stale = f.stale
    BY <1>14
<1> HIDE DEF rec
<1>16. IsPrepare(rec, staged, overlaps)
    BY <1>3, <1>6, <1>7, <1>11, <1>12, <1>14, <1>15 DEF IsPrepare
<1> QED BY <1>2, <1>13, <1>16, PrepareMoves

\* The new rows carry the prices of the prepare.
LEMMA RecentRows ==
    ASSUME NEW st, IsStaged(st), \A i \in DOMAIN st : Recent(st[i].context),
           NEW S, IsFiniteSet(S), NEW context, Recent(context), NEW new, new = After(st, S, context)
    PROVE  \A i \in DOMAIN new : Recent(new[i].context)
<1> DEFINE n == Cardinality(S)
<1>1. /\ IsStaged(new) /\ n \in Nat /\ Len(new) = Len(st) + n
      /\ \A i \in 1..Len(st) : new[i] = st[i]
      /\ \A i \in 1..n : new[Len(st) + i] = StagedQueueItem(SetToSeq(S)[i], context)
    BY RowsAdded
<1> HIDE DEF n
<1>2. Len(st) \in Nat /\ DOMAIN st = 1..Len(st) /\ DOMAIN new = 1..(Len(st) + n)
    BY <1>1 DEF IsStaged
<1> SUFFICES ASSUME NEW i \in 1..(Len(st) + n) PROVE Recent(new[i].context)
    BY <1>2
<1>3. CASE i <= Len(st)
  <2>1. i \in DOMAIN st /\ new[i] = st[i]
      BY <1>1, <1>2, <1>3
  <2> QED BY <2>1
<1>4. CASE i > Len(st)
  <2>1. i - Len(st) \in 1..n /\ i = Len(st) + (i - Len(st))
      BY <1>1, <1>2, <1>4
  <2>2. new[i] = StagedQueueItem(SetToSeq(S)[i - Len(st)], context)
      BY <1>1, <2>1
  <2>3. new[i].context = context
      BY <2>2 DEF StagedQueueItem
  <2> QED BY <2>3
<1> QED BY <1>2, <1>3, <1>4

\* The rows are added, and whoever is about to commit learns that they are there.
LEMMA CommitPrepareKeeps ==
    ASSUME PrepareInv, NEW p \in Prepares, CommitPrepare(p)
    PROVE  PrepareInv'
<1> DEFINE f == prepare[p]
<1>1. f.pc = "commit"
    BY DEF CommitPrepare
<1>2. IsPrepare(f, staged, overlaps) /\ AddsUp(staged, overlaps) /\ IsStaged(staged)
      /\ overlaps \in Nat
    BY DEF PrepareInv, AddsUp
<1>3. DOMAIN f = {"pc", "context", "chosen", "ready", "stale"}
    BY <1>2 DEF IsPrepare
<1>4. CASE /\ SetPrepare(p, [f EXCEPT !.pc = "failed", !.chosen = {}])
           /\ UNCHANGED <<staged, status, overlaps>>
  <2> DEFINE rec == [f EXCEPT !.pc = "failed", !.chosen = {}]
  <2>1. DOMAIN rec = DOMAIN f /\ rec.pc = "failed" /\ rec.context = f.context
      BY <1>3
  <2>2. SetPrepare(p, rec)
      BY <1>4
  <2> HIDE DEF rec
  <2>3. IsPrepare(rec, staged, overlaps)
      BY <1>2, <1>3, <2>1 DEF IsPrepare
  <2> QED BY <1>1, <1>4, <2>2, <2>3, PrepareMoves
<1>5. CASE /\ staged' = After(staged, f.chosen, f.context)
           /\ status' = IF f.ready THEN "prepared" ELSE status
           /\ overlaps' = IF f.stale /\ f.chosen # {} THEN overlaps + 1 ELSE overlaps
           /\ prepare' = [q \in Prepares |->
                 IF q = p THEN [f EXCEPT !.pc = "done", !.chosen = {}]
                 ELSE [prepare[q] EXCEPT !.stale = @ \/ (prepare[q].pc = "commit" /\ f.chosen # {})]]
  <2>1. /\ IsFiniteSet(f.chosen) /\ Cardinality(f.chosen) <= MaxContacts
        /\ f.stale \/ /\ \A c \in f.chosen : RowsIn(staged, c) = {}
                      /\ Cardinality(ReadyIn(staged)) + Cardinality(f.chosen)
                            <= MaxContacts * (1 + overlaps)
        /\ Recent(f.context)
      BY <1>1, <1>2 DEF IsPrepare
  <2>2. f.chosen = {} => staged' = staged /\ overlaps' = overlaps
      BY <1>2, <1>5, NoneAdded
  <2>3. AddsUp(staged', overlaps')
    <3>1. CASE f.chosen = {}
        BY <1>2, <2>2, <3>1
    <3>2. CASE f.chosen # {} /\ f.stale
      <4>1. overlaps' = overlaps + 1
          BY <1>5, <3>2
      <4> QED BY <1>2, <1>5, <2>1, <4>1, StagedOver
    <3>3. CASE f.chosen # {} /\ ~ f.stale
      <4>1. overlaps' = overlaps
          BY <1>5, <3>3
      <4> QED BY <1>2, <1>5, <2>1, <3>3, <4>1, StagedAlone
    <3> QED BY <3>1, <3>2, <3>3
  <2>4. \A i \in DOMAIN staged' : Recent(staged'[i].context)
      BY <1>2, <1>5, <2>1, RecentRows DEF PrepareInv
  <2>5. /\ prepare' = [q \in Prepares |-> prepare'[q]]
        /\ prepare'[p] = [f EXCEPT !.pc = "done", !.chosen = {}]
        /\ \A q \in Prepares : q # p =>
             prepare'[q] = [prepare[q] EXCEPT !.stale = @ \/ (prepare[q].pc = "commit" /\ f.chosen # {})]
      BY <1>5
  <2>6. /\ DOMAIN prepare'[p] = DOMAIN f /\ prepare'[p].pc = "done"
        /\ prepare'[p].context = f.context
      BY <1>3, <2>5
  <2>7. IsPrepare(prepare'[p], staged', overlaps')
      BY <1>2, <1>3, <2>6 DEF IsPrepare
  <2>8. ASSUME NEW q \in Prepares, q # p
        PROVE  IsPrepare(prepare'[q], staged', overlaps') /\ prepare'[q].pc = prepare[q].pc
    <3> DEFINE g == prepare[q]
               h == [g EXCEPT !.stale = @ \/ (g.pc = "commit" /\ f.chosen # {})]
    <3>1. prepare'[q] = h
        BY <2>5, <2>8
    <3>2. IsPrepare(g, staged, overlaps)
        BY DEF PrepareInv
    <3>3. DOMAIN g = {"pc", "context", "chosen", "ready", "stale"}
        BY <3>2 DEF IsPrepare
    <3>4. /\ DOMAIN h = DOMAIN g /\ h.pc = g.pc /\ h.context = g.context /\ h.chosen = g.chosen
          /\ h.stale = (g.stale \/ (g.pc = "commit" /\ f.chosen # {}))
        BY <3>3
    <3> HIDE DEF h
    <3>5. CASE g.pc # "commit"
        BY <3>1, <3>2, <3>3, <3>4, <3>5 DEF IsPrepare
    <3>6. CASE g.pc = "commit" /\ f.chosen # {}
        BY <3>1, <3>2, <3>3, <3>4, <3>6 DEF IsPrepare
    <3>7. CASE f.chosen = {}
      <4>1. staged' = staged /\ overlaps' = overlaps
          BY <2>2, <3>7
      <4>2. h.stale = g.stale \/ h.stale = (g.stale \/ FALSE)
          BY <3>4, <3>7
      <4> QED BY <3>1, <3>2, <3>3, <3>4, <3>7, <4>1 DEF IsPrepare
    <3> QED BY <3>5, <3>6, <3>7
  <2>9. \A q \in Prepares : IsPrepare(prepare'[q], staged', overlaps')
      BY <2>7, <2>8
  <2>10. overlaps' <= Cardinality(Done')
    <3>1. Done' = Done \cup {p} /\ p \notin Done
        BY <1>1, <2>6, <2>8 DEF Done
    <3>2. IsFiniteSet(Done)
        BY PrepareAssumption, FS_Subset DEF Done
    <3>3. Cardinality(Done \cup {p}) = Cardinality(Done) + 1 /\ Cardinality(Done) \in Nat
        BY <3>1, <3>2, FS_AddElement, FS_CardinalityType
    <3>4. overlaps <= Cardinality(Done) /\ overlaps' <= overlaps + 1 /\ overlaps' \in Nat
        BY <1>2, <1>5 DEF PrepareInv
    <3> QED BY <1>2, <3>1, <3>3, <3>4
  <2>11. status' \in {"draft", "prepared", "running"}
      BY <1>5 DEF PrepareInv
  <2> QED BY <2>3, <2>4, <2>5, <2>9, <2>10, <2>11 DEF PrepareInv
<1> QED BY <1>4, <1>5 DEF CommitPrepare, After

\* The bridge takes a row: it stays the row of its contact and is ready no more.
LEMMA TakeRowKeeps ==
    ASSUME PrepareInv, TakeRow
    PROVE  PrepareInv'
<1>1. PICK i \in DOMAIN staged : staged[i].status = "ready" /\ staged' = [staged EXCEPT ![i].status = "pushed"]
    BY DEF TakeRow
<1>2. UNCHANGED <<prepare, status, overlaps>>
    BY DEF TakeRow
<1> DEFINE row == [staged[i] EXCEPT !.status = "pushed"]
           new == [staged EXCEPT ![i] = row]
<1>3. staged' = new
    BY <1>1
<1>4. IsStaged(staged) /\ AddsUp(staged, overlaps) /\ overlaps \in Nat /\ MaxContacts \in Nat
    BY PrepareAssumption DEF PrepareInv, AddsUp
<1>5. DOMAIN row = DOMAIN staged[i] /\ row.status = "pushed" /\ row.contact = staged[i].contact
      /\ row.context = staged[i].context /\ DOMAIN row = {"contact", "status", "context"}
    BY <1>4 DEF IsStaged
<1> HIDE DEF row
<1>6. DOMAIN new = DOMAIN staged /\ new[i] = row /\ \A k \in DOMAIN staged : k # i => new[k] = staged[k]
    OBVIOUS
<1>7. new \in Seq(Range(new)) /\ Len(new) = Len(staged)
  <2>1. Len(staged) \in Nat /\ DOMAIN staged = 1..Len(staged)
      BY <1>4 DEF IsStaged
  <2>2. new \in [1..Len(staged) -> Range(new)]
    <3>1. new = [k \in 1..Len(staged) |-> new[k]]
        BY <2>1
    <3>2. \A k \in 1..Len(staged) : new[k] \in Range(new)
        BY <1>6, <2>1 DEF Range
    <3> HIDE DEF new
    <3> QED BY <3>1, <3>2
  <2> HIDE DEF new
  <2> QED BY <2>1, <2>2, IsASeq
<1> HIDE DEF new
<1>8. \A k \in DOMAIN new : /\ new[k].contact = staged[k].contact
                            /\ new[k].context = staged[k].context
                            /\ DOMAIN new[k] = {"contact", "status", "context"}
                            /\ new[k].status \in {"ready", "pushed"}
                            /\ new[k].status = "ready" => staged[k].status = "ready"
    BY <1>1, <1>4, <1>5, <1>6 DEF IsStaged
<1>9. IsStaged(new)
    BY <1>4, <1>6, <1>7, <1>8 DEF IsStaged
<1>10. ContactsIn(new) = ContactsIn(staged)
    BY <1>6, <1>8 DEF ContactsIn
<1>11. \A c : RowsIn(new, c) = RowsIn(staged, c)
    BY <1>6, <1>8 DEF RowsIn
<1>12. Cardinality(ReadyIn(new)) <= Cardinality(ReadyIn(staged))
       /\ Cardinality(ReadyIn(new)) \in Nat /\ Cardinality(ReadyIn(staged)) \in Nat
  <2>1. ReadyIn(new) \subseteq ReadyIn(staged) /\ ReadyIn(staged) \in SUBSET DOMAIN staged
      BY <1>6, <1>8 DEF ReadyIn
  <2>2. IsFiniteSet(ReadyIn(staged))
      BY <1>4, <2>1, StagedFinite
  <2> QED BY <2>1, <2>2, FS_Subset, FS_CardinalityType
<1>13. AddsUp(new, overlaps)
  <2>1. \A k \in DOMAIN new : Cardinality(RowsIn(new, new[k].contact)) <= 1 + overlaps
      BY <1>4, <1>6, <1>8, <1>11 DEF AddsUp
  <2>2. Cardinality(ReadyIn(new)) <= MaxContacts * (1 + overlaps)
    <3>1. MaxContacts * (1 + overlaps) \in Nat
        BY <1>4, Excess
    <3> QED BY <1>4, <1>12, <3>1 DEF AddsUp
  <2>3. Len(new) <= Cardinality(ContactsIn(new)) + MaxContacts * overlaps
      BY <1>4, <1>7, <1>10 DEF AddsUp
  <2> QED BY <1>4, <1>9, <2>1, <2>2, <2>3 DEF AddsUp
<1>14. \A q \in Prepares : IsPrepare(prepare[q], new, overlaps)
  <2> SUFFICES ASSUME NEW q \in Prepares PROVE IsPrepare(prepare[q], new, overlaps)
      OBVIOUS
  <2>1. IsPrepare(prepare[q], staged, overlaps)
      BY DEF PrepareInv
  <2>2. ASSUME prepare[q].pc = "commit", ~ prepare[q].stale
        PROVE  Cardinality(ReadyIn(new)) + Cardinality(prepare[q].chosen) <= MaxContacts * (1 + overlaps)
    <3>1. Cardinality(ReadyIn(staged)) + Cardinality(prepare[q].chosen) <= MaxContacts * (1 + overlaps)
          /\ Cardinality(prepare[q].chosen) \in Nat
        BY <2>1, <2>2, FS_CardinalityType DEF IsPrepare
    <3>2. MaxContacts * (1 + overlaps) \in Nat
        BY <1>4, Excess
    <3> QED BY <1>12, <3>1, <3>2
  <2> QED BY <1>11, <2>1, <2>2 DEF IsPrepare
<1>15. \A k \in DOMAIN new : Recent(new[k].context)
    BY <1>6, <1>8 DEF PrepareInv
<1>16. Done' = Done
    BY <1>2 DEF Done
<1> QED BY <1>2, <1>3, <1>13, <1>14, <1>15, <1>16 DEF PrepareInv

LEMMA PrepareInvStutter ==
    ASSUME PrepareInv, UNCHANGED <<staged, prepare, overlaps>>, status' \in {status, "running"}
    PROVE  PrepareInv'
<1>1. Done' = Done
    BY DEF Done
<1> QED BY <1>1 DEF PrepareInv

LEMMA PrepareInvMeans ==
    ASSUME PrepareInv
    PROVE  PrepareTypeOK /\ PreparesAddUp /\ PricesAreRecent
<1>1. overlaps \in 0..Cardinality(Prepares)
  <2>1. Cardinality(Done) <= Cardinality(Prepares) /\ Cardinality(Done) \in Nat
        /\ Cardinality(Prepares) \in Nat
      BY PrepareAssumption, FS_Subset, FS_CardinalityType DEF Done
  <2> QED BY <2>1 DEF PrepareInv, AddsUp
<1>2. \A i \in DOMAIN staged : staged[i].status \in {"ready", "pushed"}
    BY DEF PrepareInv, AddsUp, IsStaged
<1>3. PrepareTypeOK
    BY <1>1, <1>2 DEF PrepareInv, IsPrepare, PrepareTypeOK
<1>4. PreparesAddUp
    BY DEF PrepareInv, AddsUp, PreparesAddUp, Rows, RowsIn, ReadyIn
<1>5. PricesAreRecent
    BY DEF PrepareInv, PricesAreRecent, Recent
<1> QED BY <1>3, <1>4, <1>5

---------------------------------------------------------------------------
(* All of it together.                                                     *)

PreparationInv == PriceInv /\ ScrapeInv /\ ContactInv /\ PrepareInv

LEMMA PreparationMoves ==
    ASSUME PreparationInv, [PreparationNext]_<<priceVars, contactVars, prepareVars>>
    PROVE  PreparationInv'
<1> USE DEF PreparationInv
<1>1. UNCHANGED contactVars => ContactInv'
    BY ContactInvStutter DEF contactVars
<1>2. UNCHANGED prepareVars => PrepareInv'
    BY PrepareInvStutter DEF prepareVars
<1>3. UNCHANGED priceVars => PriceInv' /\ ScrapeInv'
    BY PriceInvStutter, WorldKeepsScrapes
<1>4. CASE /\ \/ Tick \/ EditBoard
              \/ \E r \in Refreshes : RefreshStep(r) \/ BrowserStep(r)
              \/ \E c \in Creators : SnapshotStep(c)
           /\ UNCHANGED <<contactVars, prepareVars>>
  <2>1. UNCHANGED contactVars /\ UNCHANGED prepareVars
      BY <1>4
  <2>2. PriceInv'
      BY <1>4, WorldKeepsPrices, RefreshKeepsPrices, SnapshotKeepsPrices
  <2>3. ScrapeInv'
      BY <1>4, WorldKeepsScrapes, BrowserKeepsScrapes
  <2> QED BY <1>1, <1>2, <2>1, <2>2, <2>3
<1>5. CASE ContactNext /\ UNCHANGED <<priceVars, prepareVars>>
  <2>1. UNCHANGED priceVars /\ UNCHANGED prepareVars
      BY <1>5
  <2>2. ContactInv'
      BY <1>5, ContactInvNext
  <2> QED BY <1>2, <1>3, <2>1, <2>2
<1>6. CASE /\ StartCampaign \/ TakeRow \/ \E p \in Prepares : PrepareStep(p)
           /\ UNCHANGED <<priceVars, contactVars>>
  <2>1. UNCHANGED priceVars /\ UNCHANGED contactVars
      BY <1>6
  <2>2. ASSUME StartCampaign PROVE PrepareInv'
    <3>1. UNCHANGED <<staged, prepare, overlaps>> /\ status' \in {status, "running"}
        BY <2>2 DEF StartCampaign
    <3> QED BY <3>1, PrepareInvStutter
  <2>3. ASSUME TakeRow PROVE PrepareInv'
      BY <2>3, TakeRowKeeps
  <2>4. ASSUME NEW p \in Prepares, PrepareStep(p) PROVE PrepareInv'
    <3>1. /\ now \in Nat /\ TTL \in Nat /\ Len(snapshots) \in Nat
          /\ \A i \in 1..Len(snapshots) : /\ snapshots[i].fetched \in Nat
                                          /\ snapshots[i].expires = snapshots[i].fetched + TTL
        BY PriceAssumption DEF PriceInv
    <3>2. CASE build_product_context(p)
        BY <3>1, <3>2, ContextKeeps
    <3>3. CASE ReadCampaign(p)
      <4>1. IsFiniteSet(contacts)
          BY DEF ContactInv
      <4> QED BY <3>3, <4>1, ReadCampaignKeeps
    <3> QED BY <2>4, <3>2, <3>3, BeginPrepareKeeps, CommitPrepareKeeps DEF PrepareStep
  <2>5. PrepareInv'
      BY <1>6, <2>2, <2>3, <2>4
  <2> QED BY <1>1, <1>3, <2>1, <2>5
<1>7. CASE UNCHANGED <<priceVars, contactVars, prepareVars>>
  <2>1. UNCHANGED priceVars /\ UNCHANGED contactVars /\ UNCHANGED prepareVars
      BY <1>7
  <2> QED BY <1>1, <1>2, <1>3, <2>1
<1> QED BY <1>4, <1>5, <1>6, <1>7 DEF PreparationNext

\* Prices, contacts and prepares, at the same time: the invariant is inductive.
THEOREM PreparationInvariance == PreparationSpec => []PreparationInv
<1>1. PreparationInit => PreparationInv
  <2> SUFFICES ASSUME PreparationInit PROVE PreparationInv
      OBVIOUS
  <2>1. PriceInv /\ ScrapeInv /\ PrepareInv
      BY PriceInvInit, ScrapeInvInit, PrepareInvInit DEF PreparationInit
  <2>2. ContactInv
    <3>1. contacts = Known({}) /\ IsFiniteSet({})
        BY FS_EmptySet DEF PreparationInit, ContactInit, Known
    <3> QED BY <3>1, ContactInvInit DEF PreparationInit, ContactInit
  <2> QED BY <2>1, <2>2 DEF PreparationInv
<1>2. PreparationInv /\ [PreparationNext]_<<priceVars, contactVars, prepareVars>> => PreparationInv'
    BY PreparationMoves
<1> QED BY <1>1, <1>2, PTL DEF PreparationSpec

\* It holds of the behaviours that a run explores, one part at a time, too.
THEOREM PartsInvariance == Spec => []PreparationInv
<1>1. Init => PreparationInv
  <2> SUFFICES ASSUME Init PROVE PreparationInv
      OBVIOUS
  <2>1. PriceInv /\ ScrapeInv /\ PrepareInv
      BY PriceInvInit, ScrapeInvInit, PrepareInvInit DEF Init
  <2>2. ContactInv
    <3>1. contacts = Known({p1, p2, p3}) \/ contacts = Known({p1}) \/ contacts = Known({})
        BY DEF Init, Parts, Known
    <3>2. IsFiniteSet({p1, p2, p3}) /\ IsFiniteSet({p1}) /\ IsFiniteSet({})
      <4>1. IsFiniteSet({}) /\ IsFiniteSet({p1})
          BY FS_EmptySet, FS_Singleton
      <4>2. IsFiniteSet({p1} \cup {p2})
          BY <4>1, FS_AddElement
      <4>3. IsFiniteSet(({p1} \cup {p2}) \cup {p3})
          BY <4>2, FS_AddElement
      <4>4. ({p1} \cup {p2}) \cup {p3} = {p1, p2, p3}
          OBVIOUS
      <4> QED BY <4>1, <4>3, <4>4
    <3> QED BY <3>1, <3>2, ContactInvInit DEF Init
  <2> QED BY <2>1, <2>2 DEF PreparationInv
<1>2. PreparationInv /\ [Next]_vars => PreparationInv'
  <2> SUFFICES ASSUME PreparationInv, [Next]_vars PROVE PreparationInv'
      OBVIOUS
  <2>1. [PreparationNext]_<<priceVars, contactVars, prepareVars>>
    <3>1. CASE BoardNext
        BY <3>1, PartsAssumption DEF BoardNext, PreparationNext
    <3>2. CASE PricesNext
        BY <3>2, PartsAssumption DEF PricesNext, PreparationNext
    <3>3. CASE ContactNext /\ UNCHANGED <<priceVars, prepareVars>>
        BY <3>3 DEF PreparationNext
    <3>4. CASE PreparesNext
        BY <3>4 DEF PreparesNext, PreparationNext
    <3>5. CASE UNCHANGED vars
        BY <3>5 DEF vars
    <3> QED BY <3>1, <3>2, <3>3, <3>4, <3>5 DEF Next
  <2> QED BY <2>1, PreparationMoves
<1> QED BY <1>1, <1>2, PTL DEF Spec

\* The prices in a message were fetched at most TTL before it was built, however refreshes,
\* snapshots and prepares overlap: the cache's own time counts.
THEOREM PricesStayRecent == PreparationSpec => []PricesAreRecent
<1>1. PreparationInv => PricesAreRecent
    BY PrepareInvMeans DEF PreparationInv
<1> QED BY <1>1, PreparationInvariance, PTL

\* What the browser read holds every SKU once, and exactly the valid ones of the first
\* MaxPages pages when the board rested and every page was there when it was read:
\* neither the label, nor the signatures, nor the waiting lose a page, of any board whose
\* pages show different products.
THEOREM ScrapesStayExact == PreparationSpec => []ScrapeIsExact
<1>1. PreparationInv => ScrapeIsExact
    BY ScrapeInvExact DEF PreparationInv
<1> QED BY <1>1, PreparationInvariance, PTL

\* A number belongs to one contact, and a committed batch made what it counts, whatever
\* files and debug requests are imported at once.
THEOREM ImportsStayWhole == PreparationSpec => []ImportsAreWhole
<1>1. PreparationInv => ImportsAreWhole
    BY ContactInvMeans DEF PreparationInv
<1> QED BY <1>1, PreparationInvariance, PTL

\* Prepares that repeat or overlap stage one row more for each commit over another's.
THEOREM PreparesStayAddedUp == PreparationSpec => []PreparesAddUp
<1>1. PreparationInv => PreparesAddUp
    BY PrepareInvMeans DEF PreparationInv
<1> QED BY <1>1, PreparationInvariance, PTL

\* Every variable of the preparation keeps its type.
THEOREM PreparationTypeCorrect == PreparationSpec => []PreparationTypeOK
<1>1. PreparationInv => PreparationTypeOK
    BY PriceInvTypes, ContactInvMeans, PrepareInvMeans DEF PreparationInv, PreparationTypeOK
<1> QED BY <1>1, PreparationInvariance, PTL

\* What the run explores has these properties for every value of its constants.
THEOREM PartsAreSafe ==
    Spec => [](PreparationTypeOK /\ ScrapeIsExact /\ PricesAreRecent /\ ImportsAreWhole /\ PreparesAddUp)
<1>1. PreparationInv => PreparationTypeOK /\ ScrapeIsExact
    BY PriceInvTypes, ScrapeInvExact, ContactInvMeans, PrepareInvMeans DEF PreparationInv, PreparationTypeOK
<1>2. PreparationInv => PricesAreRecent /\ ImportsAreWhole /\ PreparesAddUp
    BY ContactInvMeans, PrepareInvMeans DEF PreparationInv
<1> QED BY <1>1, <1>2, PartsInvariance, PTL
=============================================================================
