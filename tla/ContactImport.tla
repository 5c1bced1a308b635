---------------------------- MODULE ContactImport ----------------------------
(***************************************************************************)
(* Contacts enter the database from spreadsheets (commit_contacts_import,  *)
(* one transaction per file), campaigns are made from an import            *)
(* (create_campaign_from_import), and the debug endpoint adds contacts to  *)
(* a campaign one commit at a time (debug_import_contacts_json).  Requests *)
(* run at the same time; phone_e164 is unique, and so is a phone within a  *)
(* campaign.                                                               *)
(***************************************************************************)
EXTENDS Integers, Sequences, FiniteSets

CONSTANTS
    Imports,        \* commit requests
    Files,          \* spreadsheets: sequences of written numbers
    JsonImports,    \* requests of the debug endpoint
    Lists,          \* their contacts: sequences of [raw, consent]
    BadPhone,       \* what is not a phone
    NoPhone, NoImport, NoCampaign,
    DebugCampaign   \* the campaign the debug endpoint adds to

ASSUME ContactNames == NoImport \notin Imports /\ NoCampaign # DebugCampaign

VARIABLES contacts, import, json, recipients

contactVars == <<contacts, import, json, recipients>>

\* A committed contact: phone_e164 is NoPhone when another contact owned the number.
Contact(phone, e164, campaign, consent, from) ==
    [phone |-> phone, e164 |-> e164, campaign |-> campaign, consent |-> consent, from |-> from]

\* A written number is [form, number]: a mobile number in one of its usual forms,
\* something "odd" (a landline, a zero after the country code), or nothing.
MobileForms == {"0", "98", "+98", "0098", "9"}

\* The spreadsheet accepts Iranian mobile numbers only.
ExcelPhone(raw) == IF raw.form \in MobileForms THEN raw.number ELSE BadPhone

\* The debug endpoint takes any digits; the odd ones stay what they are.
normalize_phone(raw) ==
    IF raw.form = "none" THEN BadPhone
    ELSE IF raw.form \in MobileForms THEN raw.number ELSE raw

\* Spreadsheets are finite, and an empty cell is no number.
ASSUME ContactFiles ==
    \A file \in Files :
        /\ Len(file) \in Nat /\ DOMAIN file = 1..Len(file)
        /\ \A k \in DOMAIN file : ExcelPhone(file[k]) # NoPhone

OwnsPhone(phone) == \E c \in contacts : c.e164 = phone

----------------------------------------------------------------------------
(* commit_contacts_import *)

\* ExcelProcessor.process_row: a number that an earlier row had is a duplicate.
process_row(file, k) ==
    IF ExcelPhone(file[k]) = BadPhone THEN "invalid"
    ELSE IF \E j \in 1..(k - 1) : ExcelPhone(file[j]) = ExcelPhone(file[k]) THEN "duplicate"
    ELSE "valid"

\* The preview's counts, with which the batch row is created.
build_preview(file) ==
    [s \in {"valid", "invalid", "duplicate"} |->
        Cardinality({k \in DOMAIN file : process_row(file, k) = s})]

NotStarted == [pc |-> "idle", file |-> <<>>, row |-> 0, pending |-> NoPhone,
               flushed |-> {}, count |-> build_preview(<<>>)]

NoRequest == [pc |-> "idle", list |-> <<>>, item |-> 0, known |-> {}, owner |-> FALSE,
              imported |-> {}, dup |-> {}, other |-> 0]

ContactInit ==
    /\ contacts = {}
    /\ import = [t \in Imports |-> NotStarted]
    /\ json = [j \in JsonImports |-> NoRequest]
    /\ recipients = [t \in Imports |-> {}]

SetImport(t, rec) == import' = [import EXCEPT ![t] = rec]

\* Files whose preview has errors are refused; the batch row is flushed first.
BeginImport(t) ==
    /\ import[t].pc = "idle"
    /\ \E file \in Files :
        SetImport(t, [NotStarted EXCEPT !.pc = "rows", !.file = file, !.row = 1])
    /\ UNCHANGED <<contacts, json, recipients>>

RollBack_SkipsRow(t) == SetImport(t, [import[t] EXCEPT !.pending = NoPhone])

\* A row that cannot be written rolls the whole file back (500).
RollBack(t) ==
    SetImport(t, [import[t] EXCEPT !.pc = "refused", !.pending = NoPhone, !.flushed = {}])

\* The INSERT waits while another transaction holds the same number uncommitted.
MustWait(t, phone) ==
    \E u \in Imports \ {t} : import[u].pc \in {"rows", "commit"} /\ phone \in import[u].flushed

\* db.flush of the import row writes the contact of the row before, too.
FlushContact(t) ==
    LET f == import[t] IN
    /\ f.pc \in {"rows", "commit"} /\ f.pending # NoPhone
    /\ ~MustWait(t, f.pending)
    /\ IF OwnsPhone(f.pending) THEN RollBack(t)
       ELSE SetImport(t, [f EXCEPT !.pending = NoPhone, !.flushed = @ \union {f.pending}])
    /\ UNCHANGED <<contacts, json, recipients>>

\* A valid row whose number the database has, or this transaction has written, is a
\* duplicate.
RowFate(f, k) ==
    IF /\ process_row(f.file, k) = "valid"
       /\ OwnsPhone(ExcelPhone(f.file[k])) \/ ExcelPhone(f.file[k]) \in f.flushed
    THEN "duplicate"
    ELSE process_row(f.file, k)

ImportRow(t) ==
    LET f == import[t]
        fate == RowFate(f, f.row)
        counted == [f EXCEPT !.count[fate] = @ + 1, !.row = @ + 1]
    IN  /\ f.pc = "rows"
        /\ \/ f.row > Len(f.file) /\ SetImport(t, [f EXCEPT !.pc = "commit"])
           \/ /\ f.row <= Len(f.file) /\ f.pending = NoPhone
              /\ SetImport(t, IF fate = "valid" THEN [counted EXCEPT !.pending = ExcelPhone(f.file[f.row])]
                               ELSE counted)
        /\ UNCHANGED <<contacts, json, recipients>>

\* Counts and status are set and everything is committed; no new contact means FAILED.
CommitImport(t) ==
    LET f == import[t] IN
    /\ f.pc = "commit" /\ f.pending = NoPhone
    /\ contacts' = contacts \union {Contact(p, p, NoCampaign, "allowed", t) : p \in f.flushed}
    /\ SetImport(t, [f EXCEPT !.flushed = {},
                              !.pc = IF f.count["valid"] > 0 THEN "committed" ELSE "failed"])
    /\ UNCHANGED <<json, recipients>>

\* Any exception: the database fails, or ends a deadlock of two files.
ImportFails(t) ==
    /\ import[t].pc \in {"rows", "commit"}
    /\ RollBack(t)
    /\ UNCHANGED <<contacts, json, recipients>>

CampaignRecipient(c) == [contact |-> c.phone, send |-> "pending"]

\* create_campaign_from_import: a recipient row for each contact that may get messages.
create_campaign_from_import(t) ==
    LET eligible == {c \in contacts : c.from = t /\ c.consent # "blocked"} IN
    /\ import[t].pc = "committed" /\ recipients[t] = {} /\ eligible # {}
    /\ recipients' = [recipients EXCEPT ![t] = {CampaignRecipient(c) : c \in eligible}]
    /\ UNCHANGED <<contacts, import, json>>

----------------------------------------------------------------------------
(* debug_import_contacts_json *)

SetJson(j, rec) == json' = [json EXCEPT ![j] = rec]

InCampaign == {c.phone : c \in {d \in contacts : d.campaign = DebugCampaign}}

BeginJson(j) ==
    /\ json[j].pc = "idle"
    /\ \E list \in Lists :
        SetJson(j, [json[j] EXCEPT !.pc = "item", !.list = list, !.item = 1, !.known = InCampaign])
    /\ UNCHANGED <<contacts, import, recipients>>

\* Invalid items, and numbers known in the request or the campaign, are skipped;
\* for the others the owner of the number is looked up.
CheckItem(j) ==
    LET f == json[j]
        phone == normalize_phone(f.list[f.item].raw)
        next == [f EXCEPT !.item = @ + 1]
    IN  /\ f.pc = "item"
        /\ SetJson(j,
             IF f.item > Len(f.list) THEN [f EXCEPT !.pc = "done"]
             ELSE IF phone = BadPhone THEN [next EXCEPT !.other = @ + 1]
             ELSE IF \/ phone \in f.known
                     \/ \E i \in 1..(f.item - 1) : normalize_phone(f.list[i].raw) = phone
                  THEN [next EXCEPT !.dup = @ \union {f.item}]
             ELSE [f EXCEPT !.pc = "insert", !.owner = OwnsPhone(phone)])
        /\ UNCHANGED <<contacts, import, recipients>>

\* One commit per contact.  A conflict is counted as a duplicate in the campaign,
\* whichever of the two constraints refused the row.
InsertItem(j) ==
    LET f == json[j]
        phone == normalize_phone(f.list[f.item].raw)
        e164 == IF f.owner THEN NoPhone ELSE phone
        conflict == phone \in InCampaign \/ (~f.owner /\ OwnsPhone(phone))
        next == [f EXCEPT !.pc = "item", !.item = @ + 1]
    IN  /\ f.pc = "insert"
        /\ \A u \in Imports : ~(import[u].pc \in {"rows", "commit"} /\ e164 \in import[u].flushed)
        /\ IF conflict
           THEN /\ SetJson(j, [next EXCEPT !.dup = @ \union {f.item}, !.known = InCampaign])
                /\ UNCHANGED contacts
           ELSE /\ SetJson(j, [next EXCEPT !.imported = @ \union {f.item}])
                /\ contacts' = contacts \union
                       {Contact(phone, e164, DebugCampaign, f.list[f.item].consent, NoImport)}
        /\ UNCHANGED <<import, recipients>>

ContactNext ==
    \/ \E t \in Imports :
        \/ BeginImport(t) \/ FlushContact(t) \/ ImportRow(t) \/ CommitImport(t)
        \/ ImportFails(t) \/ create_campaign_from_import(t)
    \/ \E j \in JsonImports : BeginJson(j) \/ CheckItem(j) \/ InsertItem(j)

----------------------------------------------------------------------------
(* Properties *)

ContactTypeOK ==
    /\ \A t \in Imports :
        /\ import[t].pc \in {"idle", "rows", "commit", "committed", "failed", "refused"}
        /\ import[t].row \in 0..(Len(import[t].file) + 1)
    /\ \A j \in JsonImports : json[j].pc \in {"idle", "item", "insert", "done"}

\* Whatever two files or requests import at once: a number belongs to one contact,
\* a campaign holds a number once, a batch that is committed has counted every row
\* and made exactly the contacts it counts, and one that failed or was refused has
\* left none.
ImportsAreWhole ==
    /\ \A c, d \in contacts : c # d =>
        /\ c.e164 = d.e164 => c.e164 = NoPhone
        /\ c.phone = d.phone => c.campaign # d.campaign
    /\ \A t \in Imports :
        LET made == {c \in contacts : c.from = t}
            n == import[t].count
        IN  IF import[t].pc \in {"committed", "failed"}
            THEN /\ Cardinality(made) = n["valid"]
                 /\ n["valid"] + n["invalid"] + n["duplicate"] = Len(import[t].file)
            ELSE made = {}

\* The endpoint reports each contact it skips as a "duplicate in campaign" or "in
\* request" (debug_contacts.py): a skipped number is in the campaign.
\* It does not hold (README, section 5).
SkippedIsInCampaign ==
    \A j \in JsonImports : \A k \in json[j].dup :
        normalize_phone(json[j].list[k].raw) \in InCampaign
=============================================================================
