------------------------------ MODULE MCPrepare ------------------------------
(***************************************************************************)
(* From the price board and the spreadsheets to the staged rows, on a small *)
(* instance.  A behaviour explores one part: the board, read by a browser  *)
(* while it changes; prices, from the JSON answer to a prepared message;   *)
(* contacts, imported by several requests at once; and prepares of a       *)
(* campaign that overlap.                                                  *)
(***************************************************************************)
EXTENDS CampaignPrepare

CONSTANTS p1, p2, p3,
    Browsing,      \* the refreshes that read the board with a browser
    Quoting        \* the prepares that use prices

ASSUME PartsAssumption == Browsing \subseteq Refreshes /\ Quoting \subseteq Prepares

VARIABLE part

vars == <<priceVars, contactVars, prepareVars, part>>

Parts == {"board", "prices", "contacts", "prepares"}

Row(sku, price) == [sku |-> sku, price |-> price]
Raw(form, number) == [form |-> form, number |-> number]
Item(raw, consent) == [raw |-> raw, consent |-> consent]

\* A row moves to another page, a price changes or becomes invalid; a page without
\* a valid row; more pages than are read.
ThreePages == << <<Row("a", 1)>>, <<Row("b", 1), Row(NoSku, 1)>>, <<Row("c", 1)>> >>
MovedRows  == << <<Row("b", 2)>>, <<Row("a", 1), Row("c", 0)>>, <<Row("c", 1)>> >>
TwoPages   == << <<Row(NoSku, 1), Row(NoSku, 1)>>, <<Row("a", 1)>> >>
FourPages  == << <<Row("a", 1)>>, <<Row("b", 1)>>, <<Row("c", 1)>>, <<Row("d", 1)>> >>
MCBoards == {ThreePages, MovedRows, TwoPages, FourPages}

MCFiles == { <<Raw("0", p1), Raw("+98", p2)>>,
             <<Raw("9", p2), Raw("odd", p1), Raw("98", p1)>>,
             <<Raw("0", p1), Raw("0098", p1)>> }
MCLists == { <<Item(Raw("0", p1), "allowed"), Item(Raw("98", p2), "blocked"),
               Item(Raw("odd", p1), "allowed"), Item(Raw("9", p1), "allowed"), Item(Raw("none", p1), "allowed")>>,
             <<Item(Raw("0", p2), "allowed"), Item(Raw("0", p3), "unknown")>> }

Known(phones) == {Contact(p, p, DebugCampaign, "allowed", NoImport) : p \in phones}

Init ==
    /\ part \in Parts
    /\ PriceInit /\ PrepareInit
    /\ contacts = CASE part = "prepares" -> Known({p1, p2, p3})
                    [] part = "prices"   -> Known({p1})
                    [] OTHER             -> {}
    /\ import = [t \in Imports |-> NotStarted]
    /\ json = [j \in JsonImports |-> NoRequest]
    /\ recipients = [t \in Imports |-> {}]
    /\ includeProducts = (part = "prices")
    /\ part # "board" => board = TwoPages

BoardNext ==
    /\ EditBoard \/ \E r \in Browsing : RefreshStep(r) \/ BrowserStep(r)
    /\ UNCHANGED <<contactVars, prepareVars>>

\* Here a refresh that comes to the browser stays there.
PricesNext ==
    \/ /\ Tick \/ (\E r \in Refreshes : RefreshStep(r)) \/ (\E c \in Creators : SnapshotStep(c))
       /\ UNCHANGED <<contactVars, prepareVars>>
    \/ /\ \E p \in Quoting : PrepareStep(p)
       /\ UNCHANGED <<priceVars, contactVars>>

PreparesNext ==
    /\ StartCampaign \/ TakeRow \/ \E p \in Prepares : PrepareStep(p)
    /\ UNCHANGED <<priceVars, contactVars>>

Next ==
    /\ \/ part = "board" /\ BoardNext
       \/ part = "prices" /\ PricesNext
       \/ part = "contacts" /\ ContactNext /\ UNCHANGED <<priceVars, prepareVars>>
       \/ part = "prepares" /\ PreparesNext
    /\ UNCHANGED part

Spec == Init /\ [][Next]_vars

PreparationTypeOK == PriceTypeOK /\ ContactTypeOK /\ PrepareTypeOK
=============================================================================
