----------------------------- MODULE OutputPath -----------------------------
(***************************************************************************)
(* From the upstream's reply to what a client reads: the output guard      *)
(* (app/output_guard.py), the redaction it asks for                        *)
(* (app/error_handlers.py) and the text each endpoint shows                *)
(* (app/chat_pipeline.py, app/main.py).                                    *)
(*                                                                         *)
(* A reply is a value for each of the keys the code knows, or NoValue; a   *)
(* reply without any of them is represented by its rendering as a string.  *)
(* A text has a size, a DLP score, and holds marks of what is looked for:  *)
(*   "secret"  the guard's patterns mask it    "leak"  words of a prompt   *)
(*   "pii"     the detectors count it, no pattern of the guard masks it    *)
(* What a long text holds it is taken to hold in its first part too.       *)
(***************************************************************************)
EXTENDS Integers, SequencesExt

ReplyKeys == <<"answer", "message", "output_text">>

NoValue == [kind |-> "absent"]
NotText == [kind |-> "other"]         \* a number, a list, an object
ReplyText(size, score, marks) == [kind |-> "text", size |-> size, score |-> score, marks |-> marks]
EmptyText == ReplyText(0, 0, {})

IsText(value) == value.kind = "text"
Blank(value) == IsText(value) /\ value.size = 0
Truthy(value) == value = NotText \/ (IsText(value) /\ ~ Blank(value))

\* A reply: values under the keys, and its rendering as a whole.
Reply(values, whole) == [values |-> values, whole |-> whole]

FirstKey(keys) ==
    LET i == SelectInSeq(ReplyKeys, LAMBDA key : key \in keys)
    IN  IF i = 0 THEN "none" ELSE ReplyKeys[i]

\* What the pipeline gives the guard model: the first value that counts as true.
OutputText(reply) ==
    LET key == FirstKey({k \in ToSet(ReplyKeys) : Truthy(reply.values[k])})
    IN  IF key = "none" THEN reply.whole ELSE reply.values[key]

\* What the output guard reads: the first value that is a text.
extract_text(reply) ==
    LET key == FirstKey({k \in ToSet(ReplyKeys) : IsText(reply.values[k])})
    IN  IF key = "none" THEN reply.whole ELSE reply.values[key]

-----------------------------------------------------------------------------
(* The output guard *)

redact_text(text) == [text EXCEPT !.marks = @ \ {"secret"}]
redact_prompt_leakage(text) == [text EXCEPT !.marks = @ \ {"leak"}]

\* 500 characters of prompt, 500 and 5000 of text, in units of 500.
SmallPrompt == 1
ShortText == 1
LongText == 10
Beginning(text) == [text EXCEPT !.size = IF @ > ShortText THEN ShortText ELSE @]

detect_prompt_extrapolation(promptSize, text) ==
    \/ promptSize > 0 /\ text.size > 3 * promptSize
    \/ promptSize < SmallPrompt /\ text.size > LongText

Result(action, text) == [action |-> action, text |-> text]

ModelBlocks(answer) ==
    answer.action = "block" /\ answer.confidence >= 95 /\ answer.risk >= 85
ModelRedacts(answer) ==
    answer.action \in {"redact", "deny"} \/ answer.risk >= 70

\* The first check that applies decides.  answer is the guard model's, or
\* NoValue when it was not asked.
Checks(promptSize, answer, mode, text) ==
    LET asked == answer # NoValue
        leaks == "leak" \in text.marks
    IN  << [when |-> detect_prompt_extrapolation(promptSize, text),
            is |-> Result("redact", Beginning(text))],
           [when |-> asked /\ ModelBlocks(answer), is |-> Result("block", NoValue)],
           [when |-> asked /\ ModelRedacts(answer),
            is |-> Result("redact", redact_prompt_leakage(redact_text(text)))],
           [when |-> text.score >= 50, is |-> Result("redact", redact_text(text))],
           [when |-> leaks /\ mode = "restricted", is |-> Result("block", NoValue)],
           [when |-> leaks, is |-> Result("redact", redact_prompt_leakage(text))],
           [when |-> TRUE, is |-> Result("allow", text)] >>

guard_output(promptSize, answer, mode, reply) ==
    LET checks == Checks(promptSize, answer, mode, extract_text(reply))
    IN  checks[SelectInSeq(checks, LAMBDA c : c.when)].is

-----------------------------------------------------------------------------
(* What the client reads *)

\* Variant: the first key of the list, there or not.
redact_answer_only(reply, result) ==
    IF result.action = "redact"
    THEN [reply EXCEPT !.values["answer"] = result.text]
    ELSE reply

\* The redacted text goes under the first key that is there, whatever the
\* guard has read; beside the reply when there is none.
apply_redaction(reply, result) ==
    LET key == FirstKey({k \in ToSet(ReplyKeys) : reply.values[k] # NoValue})
    IN  IF result.action = "redact" /\ key # "none"
        THEN [reply EXCEPT !.values[key] = result.text]
        ELSE reply

\* What POST /v1/chat shows under the known keys.
ChatTexts(client) == {client.values[key] : key \in ToSet(ReplyKeys)} \ {NoValue}

\* What POST /v1/chat/completions shows: the first text that is not blank,
\* else what the guard left.
extract_assistant_text(client, result) ==
    LET key == FirstKey({k \in ToSet(ReplyKeys) :
                            IsText(client.values[k]) /\ ~ Blank(client.values[k])})
    IN  IF key = "none" THEN result.text ELSE client.values[key]
=============================================================================
