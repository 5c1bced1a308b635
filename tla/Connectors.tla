------------------------------ MODULE Connectors ------------------------------
(***************************************************************************)
(* What the connectors make of a platform's answer, and which address they *)
(* use: Telegram, Bale, Rubika, the WhatsApp Cloud API, the Evolution API, *)
(* and WhatsApp Web driven in a browser.  Pure operators; the worker that  *)
(* calls them is SingleWorker.                                             *)
(*                                                                         *)
(* A result is its status: "delivered", "sent", "failed_retryable",        *)
(* "failed_permanent", or "raised" when the connector lets an exception    *)
(* out.  success and retryable follow from it.                             *)
(***************************************************************************)
EXTENDS Integers

NoCode == 0

\* An answer: none in time, a broken connection, or a status with a body.
Timeout   == [kind |-> "timeout",   code |-> NoCode]
Transport == [kind |-> "transport", code |-> NoCode]
Http(code, body) == [kind |-> "http", code |-> code, body |-> body]

\* A body that is no JSON object, and the fields of one that is.
Text == [json |-> FALSE]
Json(ok, id, status, code) ==
    [json |-> TRUE, ok |-> ok, id |-> id, status |-> status, code |-> code]

RetryableHttp == {408, 429, 500, 502, 503, 504}

Failed(retryable) == IF retryable THEN "failed_retryable" ELSE "failed_permanent"

\* The order in which the bot connectors look at an answer.
FromAnswer(answer, FromBody(_)) ==
    IF answer.kind # "http" \/ answer.code \in RetryableHttp THEN "failed_retryable"
    ELSE IF answer.code >= 400 THEN "failed_permanent"
    ELSE IF answer.body.json THEN FromBody(answer.body) ELSE "raised"

_result_from_telegram_response(body) ==
    IF body.ok THEN "delivered" ELSE Failed(body.code \in {429, 500})

send_telegram_text_message_GivesUp(answer) ==
    IF answer.kind = "timeout" THEN "failed_permanent"
    ELSE FromAnswer(answer, _result_from_telegram_response)

send_telegram_text_message(answer) == FromAnswer(answer, _result_from_telegram_response)

_result_from_bale_response(body) ==
    IF body.ok THEN "delivered" ELSE Failed(body.code \in {429, 500})

send_bale_text_message(answer) == FromAnswer(answer, _result_from_bale_response)

\* A message id counts as delivery unless the status is an error.
_result_from_rubika_response(body) ==
    IF body.id /\ body.status \notin {"ERROR", "FAILED"} THEN "delivered"
    ELSE IF body.status \in {"ERROR", "FAILED"} \/ body.code >= 400
         THEN Failed(body.code \in {429, 500, 502, 503})
    ELSE IF body.status \in {"OK", "DONE", "SUCCESS"} THEN "delivered" ELSE "failed_permanent"

send_rubika_text_message(answer) == FromAnswer(answer, _result_from_rubika_response)

RetryableMeta == {2, 368, 80007, 130429, 131056}

_classify_meta_error(code) == Failed(code \in RetryableMeta \cup {429})

_result_from_whatsapp_response(body) ==
    IF body.ok THEN "delivered" ELSE _classify_meta_error(body.code)

\* Meta explains its refusals: the body of an error status is read too.
send_whatsapp_text_message(answer) ==
    IF answer.kind # "http" \/ answer.code \in RetryableHttp THEN "failed_retryable"
    ELSE IF answer.code = 401 THEN "failed_permanent"
    ELSE IF answer.body.json THEN _result_from_whatsapp_response(answer.body)
    ELSE IF answer.code >= 400 THEN "failed_permanent" ELSE "raised"

\* Every exception, a body that does not parse included, is retryable.
deliver_whatsapp_evolution_live(answer) ==
    IF answer.kind # "http" THEN "failed_retryable"
    ELSE IF answer.code \in {200, 201}
         THEN IF answer.body.json THEN "sent" ELSE "failed_retryable"
    ELSE Failed(answer.code \notin {401, 403})

-----------------------------------------------------------------------------
(***************************************************************************)
(* WhatsApp Web.  A browser run: the session is logged in, the number is   *)
(* accepted, the compose box appears and takes the text, the page breaks   *)
(* before or after the send key, the message goes out, its bubble shows,   *)
(* and the chat already showed the same text.                              *)
(***************************************************************************)
BrowserRuns ==
    [login : BOOLEAN, number : BOOLEAN, box : BOOLEAN,
     breaks : {"no", "before", "after"}, goesOut : BOOLEAN, shown : BOOLEAN, earlier : BOOLEAN]

\* The text reached the send key.
PressesSend(run) == run.breaks # "before" /\ run.login /\ run.number /\ run.box

\* Any recent bubble with the text will do, whenever it was sent.
_wait_for_outgoing_message(run) == (run.goesOut /\ run.shown) \/ run.earlier

send_whatsapp_web_message(run) ==
    IF run.breaks = "before" THEN "failed_retryable"
    ELSE IF ~run.login \/ ~run.number THEN "failed_permanent"
    ELSE IF ~run.box \/ run.breaks = "after" THEN "failed_retryable"
    ELSE IF _wait_for_outgoing_message(run) THEN "delivered" ELSE "failed_retryable"

-----------------------------------------------------------------------------
(***************************************************************************)
(* Addresses.  A payload holds values of these kinds, or none.             *)
(***************************************************************************)
NoValue == "none"
Handles == {"@name", "digits"}          \* what a contact gives for a bot platform
Phones  == {"+phone", "bad phone"}      \* what a contact gives for WhatsApp

First(a, b) == IF a # NoValue THEN a ELSE b

BotPlatforms == {"bale", "telegram", "rubika"}

\* Staged rows and test messages, brought to one form.
normalize_queue_payload(raw) ==
    LET bot == raw.platform \in BotPlatforms /\ raw.handle # NoValue
        wa  == raw.platform = "whatsapp" /\ raw.phone # NoValue
    IN  [platform |-> raw.platform, campaign |-> raw.campaign, ours |-> raw.ours, complete |-> raw.complete,
         handle   |-> raw.handle,
         type     |-> CASE bot -> "channel_handle"
                        [] wa  -> "phone_number"
                        [] OTHER -> First(raw.type, IF raw.phone # NoValue THEN "phone_number"
                                                    ELSE "channel_handle"),
         recipient |-> CASE bot -> raw.handle
                         [] wa  -> raw.phone
                         [] OTHER -> First(raw.recipient, First(raw.phone, raw.handle))]

resolve_telegram_chat_id(p) ==
    IF p.handle # NoValue THEN p.handle
    ELSE IF p.type = "channel_handle" \/ p.recipient \in Handles THEN p.recipient ELSE NoValue

resolve_bale_chat_id(p) ==
    IF p.handle # NoValue THEN p.handle
    ELSE IF p.type = "channel_handle" \/ p.recipient = "digits" THEN p.recipient ELSE NoValue

\* Whatever the recipient is, a phone number included.
resolve_rubika_chat_id(p) == First(p.handle, p.recipient)

to_whatsapp_recipient_e164_digits(phone) == IF phone = "+phone" THEN phone ELSE NoValue

resolve_whatsapp_recipient(p) ==
    IF p.type = "phone_number" THEN to_whatsapp_recipient_e164_digits(p.recipient) ELSE NoValue

\* The address a connector uses; NoValue is a permanent failure.  Only the Evolution
\* connector takes the recipient as it is.
Address(connector, p) ==
    CASE connector = "telegram"  -> resolve_telegram_chat_id(p)
      [] connector = "bale"      -> resolve_bale_chat_id(p)
      [] connector = "rubika"    -> resolve_rubika_chat_id(p)
      [] connector = "evolution" -> p.recipient
      [] OTHER                   -> resolve_whatsapp_recipient(p)
==============================================================================
