----------------------------- MODULE PriceBoard -----------------------------
(***************************************************************************)
(* Product prices: refresh_pricing_cache fetches the price board as JSON,  *)
(* as a static page or page by page with a browser, the result is cached   *)
(* in Redis for a while, and a ProductSnapshot is stored from the cache.   *)
(* Requests overlap, the board changes under them, and the browser's view  *)
(* of it lags behind the clicks.                                           *)
(*                                                                         *)
(* A row of the board is its SKU and its price; a price of 0 is one that   *)
(* the row parser rejects, and NoSku a row without a valid SKU.            *)
(***************************************************************************)
EXTENDS Integers, SequencesExt, OrderedIds

CONSTANTS
    Refreshes,     \* refresh requests
    Creators,      \* snapshot requests
    Boards,        \* what the price board may show: sequences of pages of rows
    NoSku,
    TTL,           \* PRICING_CACHE_TTL_SECONDS
    MinItems,      \* PRICING_SCRAPER_MIN_ITEMS
    MaxPages,      \* PRICING_PLAYWRIGHT_MAX_PAGES
    MaxTime,       \* bound: the clock stops here
    MaxBoardEdits  \* bound: how often the board changes

ASSUME PriceAssumption == TTL \in Nat /\ MaxPages \in Nat \ {0} /\ MaxTime \in Nat

VARIABLES now, board, boardEdits, cache, snapshots, refresh, creator

priceVars == <<now, board, boardEdits, cache, snapshots, refresh, creator>>

----------------------------------------------------------------------------
(* Reading a page *)

\* What is left of a sequence when only some of its places are kept.
Picked(seq, places) == [k \in 1..Cardinality(places) |-> seq[Nth(places, k - 1)]]

RowSkus(rows) == {r.sku : r \in ToSet(rows)} \ {NoSku}

\* A board has pages, and no two of them show the same products.
ASSUME BoardAssumption ==
    \A b \in Boards :
        /\ Len(b) \in Nat \ {0} /\ DOMAIN b = 1..Len(b)
        /\ \A p \in DOMAIN b : Len(b[p]) \in Nat /\ DOMAIN b[p] = 1..Len(b[p])
        /\ \A p, q \in DOMAIN b : p # q => RowSkus(b[p]) = {} \/ RowSkus(b[p]) # RowSkus(b[q])

\* A table row counts when it has a SKU with the prefix and a price in the range.
_parse_table_row(r) == r.sku # NoSku /\ r.price > 0

_extract_from_pricing_table(rows) == Picked(rows, {i \in DOMAIN rows : _parse_table_row(rows[i])})

_filter_invalid_items(items) == Picked(items, {i \in DOMAIN items : items[i].price > 0})

\* Blocks of the page yield titles and prices, never a SKU.
_extract_from_blocks(rows) ==
    LET priced == _filter_invalid_items(rows)
    IN  [i \in DOMAIN priced |-> [priced[i] EXCEPT !.sku = NoSku]]

\* The SKU decides; without one, the title and the price do.
SameItem(a, b) == a.sku = b.sku /\ (a.sku = NoSku => a = b)

\* The first of the items with one key stays.
dedupe_pricing_items(items) ==
    Picked(items, {i \in DOMAIN items : \A j \in 1..(i - 1) : ~SameItem(items[j], items[i])})

\* Generic blocks are looked at only when no row of a table is valid.
scrape_pricing_from_html(rows, blocks) ==
    LET table == _extract_from_pricing_table(rows)
    IN  _filter_invalid_items(IF table # <<>> \/ ~blocks THEN table
                              ELSE _extract_from_blocks(rows))

merge_scraped_pages_KeepsDuplicates(items) == _filter_invalid_items(items)

merge_scraped_pages(items) == dedupe_pricing_items(_filter_invalid_items(items))

----------------------------------------------------------------------------
(* A refresh.  The ghost field "since" is when the refresh began, "smooth" *)
(* says that every page had been rendered when it was read.                *)

Idle == [pc |-> "idle", since |-> 0, items |-> <<>>, fetched |-> 0, source |-> "none",
         page |-> 0, view |-> 0, label |-> 0, before |-> 0, rows |-> <<>>, skus |-> {}, seen |-> {},
         smooth |-> TRUE]

NoPrices == [items |-> <<>>, fetched |-> -1, until |-> -1, source |-> "none",
             since |-> -1, smooth |-> FALSE]

PriceInit ==
    /\ now = 0
    /\ board \in Boards
    /\ boardEdits = 0
    /\ cache = NoPrices
    /\ snapshots = <<>>
    /\ refresh = [r \in Refreshes |-> Idle]
    /\ creator = [c \in Creators |-> [pc |-> "idle", held |-> NoPrices]]

Set(r, rec) == refresh' = [refresh EXCEPT ![r] = rec]

BoardSame == UNCHANGED <<now, board, boardEdits, snapshots, creator>>

\* normalize_pricing_payload and normalize_scraper_payload stamp the time after the fetch.
normalize_payload(r, items, source) ==
    Set(r, [refresh[r] EXCEPT !.pc = "write", !.items = items, !.fetched = now, !.source = source])

BeginRefresh(r) ==
    /\ refresh[r].pc = "idle"
    /\ Set(r, [Idle EXCEPT !.pc = "api", !.since = now])
    /\ BoardSame /\ UNCHANGED cache

\* The JSON answer's list is taken as it is; a document without a list is an empty one.
fetch_pricing_from_api(r) ==
    /\ refresh[r].pc = "api"
    /\ \/ \E items \in {FlattenSeq(board), <<>>} : normalize_payload(r, items, "pricing_api")
       \/ Set(r, [refresh[r] EXCEPT !.pc = "static"])
    /\ BoardSame /\ UNCHANGED cache

\* The static page holds the first page of the board, as a table or as blocks.
scrape_pricing_page(r) ==
    /\ refresh[r].pc = "static"
    /\ LET items == dedupe_pricing_items(scrape_pricing_from_html(board[1], TRUE))
       IN  \/ /\ Len(items) >= MinItems /\ items # <<>>
              /\ normalize_payload(r, items, "html_scraper")
           \/ Set(r, [refresh[r] EXCEPT !.pc = "launch"])
    /\ BoardSame /\ UNCHANGED cache

\* The browser opens the board: it fails, asks to sign in, or shows a table that
\* may still be empty.
LaunchBrowser(r) ==
    /\ refresh[r].pc = "launch"
    /\ \/ \E rows \in {board[1], <<>>} :
            Set(r, [refresh[r] EXCEPT !.pc = "collect", !.page = 1, !.view = 1,
                                      !.label = 1, !.rows = rows])
       \/ Set(r, [refresh[r] EXCEPT !.pc = "failed"])
    /\ BoardSame /\ UNCHANGED cache

Rendered(f) == f.page \in DOMAIN board /\ f.rows = board[f.page]

\* _collect_page_skus and the signatures: a page seen before ends the reading.
CollectSkus(r) ==
    LET f == refresh[r]
        signature == RowSkus(f.rows)
    IN  /\ f.pc = "collect"
        /\ Set(r, [f EXCEPT !.pc = IF signature # {} /\ signature \in f.seen THEN "merge" ELSE "content",
                            !.skus = signature,
                            !.seen = @ \union ({signature} \ {{}}),
                            !.smooth = @ /\ Rendered(f)])
        /\ BoardSame /\ UNCHANGED cache

\* "Page x of y", or the state of the button where there is no label.
_has_next_page_button(f) == f.label < Len(board)

\* The button that is found last is pressed; the board moves on by one page.
_click_next_page(f) == IF f.view < Len(board) THEN f.view + 1 ELSE f.view

\* page.content() is read, then the next page is asked for.
ReadContent(r) ==
    LET f == refresh[r]
        read == [f EXCEPT !.items = @ \o scrape_pricing_from_html(f.rows, FALSE)]
        more == f.page < MaxPages /\ _has_next_page_button(f)
    IN  /\ f.pc = "content"
        /\ \/ more /\ Set(r, [read EXCEPT !.pc = "wait", !.before = f.label,
                                        !.view = _click_next_page(f)])
           \/ more /\ Set(r, [read EXCEPT !.pc = "merge", !.smooth = FALSE])   \* the click failed
           \/ ~more /\ Set(r, [read EXCEPT !.pc = "merge"])
        /\ BoardSame /\ UNCHANGED cache

\* The page shows what was asked for: its label and its rows, in either order.
Render(r) ==
    LET f == refresh[r] IN
    /\ f.pc \in {"collect", "content", "wait"}
    /\ \/ f.label # f.view /\ Set(r, [f EXCEPT !.label = f.view])
       \/ f.rows # board[f.view] /\ Set(r, [f EXCEPT !.rows = board[f.view]])
    /\ BoardSame /\ UNCHANGED cache

\* A higher label or other SKUs end the wait; so does the last poll.
_wait_for_table_change(r) ==
    LET f == refresh[r]
        changed == f.label > f.before \/ (RowSkus(f.rows) # {} /\ RowSkus(f.rows) # f.skus)
        next == [f EXCEPT !.pc = "collect", !.page = @ + 1]
    IN  /\ f.pc = "wait"
        /\ \/ changed /\ Set(r, next)
           \/ ~changed /\ _has_next_page_button(f) /\ Set(r, [next EXCEPT !.smooth = FALSE])
           \/ ~changed /\ ~_has_next_page_button(f) /\ Set(r, [f EXCEPT !.pc = "merge", !.smooth = FALSE])
        /\ BoardSame /\ UNCHANGED cache

MergePages(r) ==
    LET items == merge_scraped_pages(refresh[r].items) IN
    /\ refresh[r].pc = "merge"
    /\ IF items # <<>> /\ Len(items) >= MinItems
       THEN normalize_payload(r, items, "playwright_html_scraper")
       ELSE Set(r, [refresh[r] EXCEPT !.pc = "failed"])
    /\ BoardSame /\ UNCHANGED cache

\* One SET with an expiry.  A Redis error sends the JSON path on to the scrapers
\* and fails the others.
_write_pricing_cache(r) ==
    LET f == refresh[r] IN
    /\ f.pc = "write"
    /\ \/ /\ cache' = [items |-> f.items, fetched |-> f.fetched, until |-> now + TTL,
                       source |-> f.source, since |-> f.since, smooth |-> f.smooth]
          /\ Set(r, [Idle EXCEPT !.pc = "done"])
       \/ /\ Set(r, [Idle EXCEPT !.since = f.since,
                                 !.pc = IF f.source = "pricing_api" THEN "static" ELSE "failed"])
          /\ UNCHANGED cache
    /\ BoardSame

----------------------------------------------------------------------------
(* Snapshots *)

\* A miss is also a Redis error or a document that cannot be parsed.
get_cached_pricing(c) ==
    /\ creator[c].pc = "idle"
    /\ \/ /\ cache # NoPrices /\ now < cache.until
          /\ creator' = [creator EXCEPT ![c] = [pc |-> "insert", held |-> cache]]
       \/ creator' = [creator EXCEPT ![c].pc = "failed"]
    /\ UNCHANGED <<now, board, boardEdits, cache, snapshots, refresh>>

compute_expires_at_FromCreation(fetched, created) == created + TTL

compute_expires_at(fetched, created) == fetched + TTL

ProductSnapshot(held) ==
    [items |-> held.items, fetched |-> held.fetched, since |-> held.since,
     expires |-> compute_expires_at(held.fetched, now)]

create_product_snapshot_from_cached_pricing(c) ==
    LET held == creator[c].held IN
    /\ creator[c].pc = "insert"
    /\ creator' = [creator EXCEPT ![c] = [pc |-> "done", held |-> NoPrices]]
    /\ snapshots' = Append(snapshots, ProductSnapshot(held))
    /\ UNCHANGED <<now, board, boardEdits, cache, refresh>>

is_snapshot_expired(s) == now > s.expires

\* Only the newest row is looked at, found or expired.
get_latest_valid_product_snapshot ==
    IF snapshots = <<>> THEN 0
    ELSE IF is_snapshot_expired(Last(snapshots)) THEN 0 ELSE Len(snapshots)

----------------------------------------------------------------------------
(* The world *)

Tick == now < MaxTime /\ now' = now + 1
        /\ UNCHANGED <<board, boardEdits, cache, snapshots, refresh, creator>>

EditBoard ==
    /\ boardEdits < MaxBoardEdits
    /\ boardEdits' = boardEdits + 1
    /\ \E b \in Boards : b # board /\ Len(b) = Len(board) /\ board' = b
    /\ refresh' = [r \in Refreshes |-> [refresh[r] EXCEPT !.smooth = @ /\ refresh[r].pc = "idle"]]
    /\ cache' = [cache EXCEPT !.smooth = FALSE]
    /\ UNCHANGED <<now, snapshots, creator>>

RefreshStep(r) ==
    BeginRefresh(r) \/ fetch_pricing_from_api(r) \/ scrape_pricing_page(r) \/ _write_pricing_cache(r)

BrowserStep(r) ==
    \/ LaunchBrowser(r) \/ CollectSkus(r) \/ ReadContent(r) \/ Render(r)
    \/ _wait_for_table_change(r) \/ MergePages(r)

SnapshotStep(c) == get_cached_pricing(c) \/ create_product_snapshot_from_cached_pricing(c)

----------------------------------------------------------------------------
(* Properties *)

PriceTypeOK ==
    /\ now \in 0..MaxTime
    /\ board \in Boards
    /\ \A r \in Refreshes : refresh[r].pc \in {"idle", "api", "static", "launch", "collect",
           "content", "wait", "merge", "write", "done", "failed"}
    /\ cache.until \in -1..(MaxTime + TTL)
    /\ \A i \in DOMAIN snapshots : snapshots[i].expires \in 0..(MaxTime + TTL)

\* What the browser read page by page holds every SKU once, at one price, although rows
\* move between the pages while they are read and pages are read twice (dedupe over all
\* pages, not per page).  When the board rests and every page has been rendered before it
\* is read, these are exactly the valid SKUs of the first MaxPages pages: neither the label,
\* nor the signatures, nor the waiting lose a page.
ScrapeIsExact ==
    cache.source = "playwright_html_scraper" =>
        /\ \A i, j \in DOMAIN cache.items : cache.items[i].sku = cache.items[j].sku => i = j
        /\ cache.smooth =>
              {cache.items[i].sku : i \in DOMAIN cache.items} =
                  UNION {{r.sku : r \in {q \in ToSet(board[p]) : _parse_table_row(q)}} :
                            p \in 1..(IF Len(board) < MaxPages THEN Len(board) ELSE MaxPages)}
=============================================================================
