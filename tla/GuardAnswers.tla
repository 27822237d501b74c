---------------------------- MODULE GuardAnswers ----------------------------
(***************************************************************************)
(* What the guard client (app/llm_guard.py) makes of a reply of its model: *)
(* a label, a confidence, a risk score and an action, whatever the reply   *)
(* looks like.  A reply holds a JSON object, alone, fenced or amid other   *)
(* text; or it is a JSON value of another kind; or it is prose, read by    *)
(* the words in it.  Only a reply that raises leads to the fallback.       *)
(*                                                                         *)
(* Words are looked for as parts of words: "unsafe" holds "safe" and       *)
(* "dangerous" holds "dan".  Confidences are percentages.  Reasons and     *)
(* categories are left out.                                                *)
(***************************************************************************)
EXTENDS Integers, SequencesExt

AllowedLabels ==
    {"benign", "suspicious", "prompt_injection", "jailbreak_attempt",
     "secret_exfiltration_intent", "exploit_or_malware_intent",
     "sensitive_data_submission", "policy_leakage", "unsafe_output",
     "indirect_injection", "encoding_obfuscation", "escalation_attempt",
     "denial_of_service_attempt", "tool_abuse_attempt", "model_theft_probe"}
AllowedActions == {"allow", "allow_with_restrictions", "deny", "redact", "block"}

\* In place of a label or an action: no such key, or a value not in the list.
NoName == "missing"
OtherName == "other"

\* In place of a number: none that can be read, and two that Python reads.
Number(n) == [kind |-> "number", value |-> n]
NoNumber == [kind |-> "none"]
NaN == [kind |-> "nan"]
Infinity == [kind |-> "infinity"]

\* A reply; words are those of the reasons, or of the prose.
GuardObject(label, confidence, risk, action, words) ==
    [form |-> "object", label |-> label, confidence |-> confidence, risk |-> risk,
     action |-> action, words |-> words]
Prose(words) == [form |-> "prose", words |-> words]
OtherJson == [form |-> "value"]
NotAsked == [form |-> "none"]
Raises == [form |-> "raises"]

GuardAnalysis(label, confidence, risk, action) ==
    [label |-> label, confidence |-> confidence, risk |-> risk, action |-> action]

NoGuard == GuardAnalysis("none", 0, 0, "none")

\* What the guard returns in place of an answer it could not get.
GuardFallback == GuardAnalysis("suspicious", 40, 35, "allow_with_restrictions")

-----------------------------------------------------------------------------
(* Words *)

Means(words, name) == [words |-> words, name |-> name]

LabelWords ==
    << Means({"jailbreak", "dan", "ignore previous instructions"}, "jailbreak_attempt"),
       Means({"prompt injection", "injection", "override instruction"}, "prompt_injection"),
       Means({"malware", "exploit", "rce", "shellcode"}, "exploit_or_malware_intent"),
       Means({"exfiltration", "api key", "token", "password", "credential"},
             "secret_exfiltration_intent"),
       Means({"pii", "email", "phone", "ssn", "iban"}, "sensitive_data_submission"),
       Means({"policy", "system prompt", "leakage"}, "policy_leakage"),
       Means({"base64", "hex", "obfuscation", "unicode escape"}, "encoding_obfuscation"),
       Means({"tool abuse", "function call", "plugin abuse"}, "tool_abuse_attempt"),
       Means({"dos", "denial of service", "resource exhaustion"},
             "denial_of_service_attempt"),
       Means({"unsafe"}, "unsafe_output") >>

ActionWords ==
    << Means({"block"}, "block"), Means({"deny"}, "deny"), Means({"redact"}, "redact"),
       Means({"allow with restrictions", "restricted"}, "allow_with_restrictions") >>

\* The name of the first entry of the table with a word among these.
Named(table, words, otherwise) ==
    LET i == SelectInSeq(table, LAMBDA entry : entry.words \cap words # {})
    IN  IF i = 0 THEN otherwise ELSE table[i].name

infer_label(words) ==
    IF "safe" \in words /\ "unsafe" \notin words
    THEN "benign" ELSE Named(LabelWords, words, "suspicious")

infer_action(words) ==
    Named(ActionWords, words,
          IF "allow" \in words /\ "disallow" \notin words
          THEN "allow" ELSE "allow_with_restrictions")

default_action(label) ==
    CASE label = "benign" -> "allow"
      [] label = "sensitive_data_submission" -> "redact"
      [] label \in {"prompt_injection", "jailbreak_attempt", "secret_exfiltration_intent",
                    "exploit_or_malware_intent", "policy_leakage", "unsafe_output",
                    "tool_abuse_attempt", "model_theft_probe"} -> "deny"
      [] OTHER -> "allow_with_restrictions"

-----------------------------------------------------------------------------
(* Replies *)

Within100(n) == IF n < 0 THEN 0 ELSE IF n > 100 THEN 100 ELSE n

\* max and min keep the bound when the other side is not a number.
confidence_of(number) ==
    CASE number.kind = "number" -> Within100(number.value)
      [] number.kind = "none" -> 50
      [] number.kind \in {"nan", "infinity"} -> 100

risk_of(number) == IF number.kind = "number" THEN Within100(number.value) ELSE 50

\* An unknown label is read from the reasons, a missing one is not.
normalize(object) ==
    LET label == CASE object.label = NoName -> "suspicious"
                   [] object.label = OtherName -> infer_label(object.words)
                   [] OTHER -> object.label
        action == CASE object.action = NoName -> "allow_with_restrictions"
                    [] object.action = OtherName -> default_action(label)
                    [] OTHER -> object.action
    IN  GuardAnalysis(label, confidence_of(object.confidence), risk_of(object.risk), action)

\* What is presumed of a label found in prose: risk score and confidence.
risk_defaults(label) ==
    CASE label = "benign" -> <<10, 70>>
      [] label = "suspicious" -> <<45, 50>>
      [] label = "jailbreak_attempt" -> <<80, 85>>
      [] label = "secret_exfiltration_intent" -> <<85, 85>>
      [] label = "exploit_or_malware_intent" -> <<90, 90>>
      [] label \in {"sensitive_data_submission", "policy_leakage"} -> <<70, 80>>
      [] label \in {"prompt_injection", "unsafe_output", "escalation_attempt",
                    "tool_abuse_attempt", "model_theft_probe"} -> <<75, 80>>
      [] label \in {"indirect_injection", "denial_of_service_attempt"} -> <<70, 75>>
      [] label = "encoding_obfuscation" -> <<65, 70>>

normalize_prose(words) ==
    LET label == infer_label(words)
    IN  GuardAnalysis(label, risk_defaults(label)[2], risk_defaults(label)[1],
                      infer_action(words))

\* An infinite risk score cannot be made an integer and raises.
analysis(reply) ==
    CASE reply.form = "none" -> NoGuard
      [] reply.form = "raises" -> GuardFallback
      [] reply.form = "value" -> normalize(GuardObject(NoName, NoNumber, NoNumber, NoName, {}))
      [] reply.form = "object" ->
            IF reply.risk.kind = "infinity" THEN GuardFallback ELSE normalize(reply)
      [] reply.form = "prose" -> normalize_prose(reply.words)
=============================================================================
