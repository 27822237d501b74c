--------------------------- MODULE ContentPolicy ---------------------------
(***************************************************************************)
(* From what was found in a request to what the policy says of it: the     *)
(* score of the input scanner (app/input_scanner.py), the score of the DLP *)
(* scanner (app/dlp_engine.py, app/dlp_scanner.py), the classifier that    *)
(* merges both with the answer of the guard model                          *)
(* (app/content_classifier.py) and the ordered rules                       *)
(* (app/policies/default_policy.json, app/policy_service.py).              *)
(*                                                                         *)
(* The regular expressions are left out: a finding is a match of one of    *)
(* them.  So is the evidence kept of each match: only scores and labels    *)
(* are decided on.  Confidences are percentages.                           *)
(***************************************************************************)
EXTENDS GuardAnswers

AtMost(n, bound) == IF n < bound THEN n ELSE bound

-----------------------------------------------------------------------------
(* The two scanners: a match adds the points of its category, for every     *)
(* pattern again.                                                           *)

\* The patterns that mention a system or developer prompt are a kind of
\* their own; nested encodings weigh more than the other obfuscations.
ScanPoints ==
    [nested_encoding |-> 20, obfuscation |-> 15, moderation_bypass |-> 30,
     hate_content |-> 20, discriminatory_content |-> 20, insult_content |-> 10,
     prompt_injection |-> 15, prompt_mention |-> 15, secret_exfiltration |-> 30,
     exploit_intent |-> 30, jailbreak_attempt |-> 25]

ScanFindings == DOMAIN ScanPoints

ScanLabels(finding) ==
    CASE finding = "nested_encoding" -> {"obfuscation"}
      [] finding = "prompt_mention" -> {"prompt_injection", "prompt_leakage"}
      [] OTHER -> {finding}

\* matches: how many patterns matched, for each finding.
input_scan(matches) ==
    LET found == {f \in ScanFindings : matches[f] > 0}
        Points(f) == matches[f] * ScanPoints[f]
    IN  [score |-> AtMost(MapThenSumSet(Points, found), 100),
         labels |-> UNION {ScanLabels(f) : f \in found}]

\* critical 30, high 20, medium 10; two secrets are critical, the rest high.
DlpPoints ==
    [critical_secret |-> 30, secret |-> 20, credential |-> 20, pii |-> 10,
     financial |-> 20, metadata_injection |-> 20]

DlpFindings == DOMAIN DlpPoints

DlpLabel(finding) == IF finding = "critical_secret" THEN "secret" ELSE finding

dlp_scan(matches) ==
    LET found == {f \in DlpFindings : matches[f] > 0}
        Points(f) == matches[f] * DlpPoints[f]
    IN  [score |-> AtMost(MapThenSumSet(Points, found), 100),
         labels |-> {DlpLabel(f) : f \in found}]

-----------------------------------------------------------------------------
(* The classifier.  e is the envelope: scan, dlp, guard, risk, permitted,    *)
(* stepUp and class, filled in last; guard is an analysis of GuardAnswers.  *)

Class(label, confidence) == [label |-> label, confidence |-> confidence]

\* The class of an envelope not yet classified.
Unclassified == Class("none", 0)

HardLabels == {"prompt_injection", "jailbreak_attempt",
               "secret_exfiltration_intent", "exploit_or_malware_intent"}

HoldsSensitiveData(e) == {"secret", "pii", "financial"} \cap e.dlp.labels # {}

\* An exfiltration verdict on a request that only contains sensitive data.
PlainSubmission(e) ==
    /\ e.guard.label = "secret_exfiltration_intent"
    /\ {"secret_exfiltration", "prompt_injection", "jailbreak_attempt",
        "exploit_intent"} \cap e.scan.labels = {}
    /\ HoldsSensitiveData(e)

Corroborated(e) ==
    \/ {"prompt_injection", "jailbreak_attempt", "secret_exfiltration",
        "exploit_intent"} \cap e.scan.labels # {}
    \/ e.scan.score >= 50

\* Variant: a fairly sure guard believed without corroboration.
UnconfirmedIfUnsure(e) ==
    /\ e.guard.label \in HardLabels
    /\ e.guard.confidence \in 75..89
    /\ ~ Corroborated(e)

Unconfirmed(e) ==
    /\ e.guard.label \in HardLabels
    /\ e.guard.confidence >= 75
    /\ ~ Corroborated(e)

\* The guard allows what the scanners find risky, and is not sure enough.
Conflict(e) ==
    /\ e.guard.action \in {"allow", "allow_with_restrictions"}
    /\ \/ e.scan.score >= 50
       \/ e.dlp.score >= 40
       \/ {"prompt_injection", "jailbreak_attempt", "secret_exfiltration"}
              \cap e.scan.labels # {}
    /\ e.guard.confidence < 95

\* Variant: any label of the guard, however sure it is.
GuardAlwaysDecides(e) ==
    /\ ~ Conflict(e)
    /\ e.guard.label # "none"

GuardDecides(e) ==
    /\ ~ Conflict(e)
    /\ e.guard.label \in HardLabels \cup {"sensitive_data_submission"}
    /\ e.guard.confidence >= 75

\* The classes the scanners' results stand for, the first that applies first.
ScannerClasses(e) ==
    << [when |-> "prompt_leakage" \in e.scan.labels,
        is |-> Class("prompt_injection", 95)],
       [when |-> "prompt_injection" \in e.scan.labels,
        is |-> Class("prompt_injection", 90)],
       [when |-> "jailbreak_attempt" \in e.scan.labels,
        is |-> Class("jailbreak_attempt", 90)],
       [when |-> "secret_exfiltration" \in e.scan.labels,
        is |-> Class("secret_exfiltration_intent", 95)],
       [when |-> "exploit_intent" \in e.scan.labels,
        is |-> Class("exploit_or_malware_intent", 90)],
       [when |-> {"secret", "financial"} \cap e.dlp.labels # {},
        is |-> Class("sensitive_data_submission", 88)],
       [when |-> e.scan.score >= 50,
        is |-> Class("jailbreak_attempt", 80)],
       [when |-> \/ e.scan.score >= 20 \/ e.dlp.score >= 20
                 \/ e.risk \in {"elevated", "restricted"},
        is |-> Class("suspicious", 65)],
       [when |-> TRUE, is |-> Class("benign", 90)] >>

ByScanners(e) == LET cases == ScannerClasses(e)
                 IN  cases[SelectInSeq(cases, LAMBDA c : c.when)].is

classify(e) ==
    CASE PlainSubmission(e) ->
            Class("sensitive_data_submission", AtMost(e.guard.confidence, 90))
      [] ~ PlainSubmission(e) /\ Unconfirmed(e) ->
            IF HoldsSensitiveData(e) THEN Class("sensitive_data_submission", 80)
                                     ELSE Class("suspicious", 70)
      [] ~ PlainSubmission(e) /\ ~ Unconfirmed(e) /\ GuardDecides(e) ->
            Class(e.guard.label, e.guard.confidence)
      [] OTHER -> ByScanners(e)

-----------------------------------------------------------------------------
(* The rules.  A condition is a record of the keys it names: all of them     *)
(* have to hold, and a key without an evaluator never does.                  *)

Holds(key, expected, e) ==
    CASE key = "missing_permission" -> expected = "llm:chat" /\ ~ e.permitted
      [] key = "input_scan_has_label" -> expected \in e.scan.labels
      [] key = "input_scan_score_gte" -> e.scan.score >= expected
      [] key = "session_risk_state" -> e.risk = expected
      [] key = "step_up_authenticated" -> e.stepUp = expected
      [] key = "dlp_has_label" -> expected \in e.dlp.labels
      [] key = "dlp_score_gte" -> e.dlp.score >= expected
      [] key = "classification_label" -> e.class.label = expected
      [] key = "classification_confidence_gte" -> e.class.confidence >= expected
      [] OTHER -> FALSE

Matches(condition, e) == \A key \in DOMAIN condition : Holds(key, condition[key], e)

Decision(action, tools, retrieval, sensitivity, mode) ==
    [action |-> action, tools |-> tools, retrieval |-> retrieval,
     sensitivity |-> sensitivity, mode |-> mode]

Deny      == Decision("deny", FALSE, FALSE, "public", "restricted")
Challenge == Decision("challenge", FALSE, FALSE, "public", "restricted")
Limited   == Decision("allow_with_restrictions", FALSE, FALSE, "public", "restricted")

Rule(condition, decision) == [when |-> condition, decision |-> decision]

DenyAttacks ==
    << Rule([missing_permission |-> "llm:chat"], Deny),
       Rule([dlp_has_label |-> "metadata_injection"], Deny),
       Rule([input_scan_has_label |-> "secret_exfiltration"], Deny),
       Rule([input_scan_has_label |-> "prompt_leakage"], Deny),
       Rule([classification_label |-> "prompt_injection"], Deny),
       Rule([classification_label |-> "jailbreak_attempt"], Deny),
       Rule([input_scan_has_label |-> "moderation_bypass"], Deny),
       Rule([classification_label |-> "prompt_injection",
             input_scan_has_label |-> "obfuscation"], Deny),
       Rule([classification_label |-> "jailbreak_attempt",
             input_scan_has_label |-> "obfuscation"], Deny) >>

DenyOrChallengeDegrees ==
    << Rule([classification_label |-> "secret_exfiltration_intent",
             classification_confidence_gte |-> 90], Deny),
       Rule([classification_label |-> "exploit_or_malware_intent",
             classification_confidence_gte |-> 85], Deny),
       Rule([classification_label |-> "sensitive_data_submission",
             dlp_score_gte |-> 60], Deny),
       Rule([input_scan_has_label |-> "hate_content",
             session_risk_state |-> "restricted"], Deny),
       Rule([input_scan_has_label |-> "discriminatory_content",
             session_risk_state |-> "restricted"], Deny),
       Rule([input_scan_has_label |-> "hate_content",
             session_risk_state |-> "elevated"], Challenge),
       Rule([input_scan_has_label |-> "discriminatory_content",
             session_risk_state |-> "elevated"], Challenge) >>

\* challenge_sensitive_submission_without_step_up is disabled and left out.
RestrictContent ==
    << Rule([classification_label |-> "suspicious",
             classification_confidence_gte |-> 90,
             input_scan_score_gte |-> 50], Challenge),
       Rule([input_scan_has_label |-> "hate_content"], Limited),
       Rule([input_scan_has_label |-> "discriminatory_content"], Limited),
       Rule([input_scan_has_label |-> "insult_content"], Limited),
       Rule([classification_label |-> "secret_exfiltration_intent"], Limited),
       Rule([classification_label |-> "exploit_or_malware_intent"], Limited),
       Rule([dlp_has_label |-> "secret"], Limited),
       Rule([classification_label |-> "sensitive_data_submission"], Limited) >>

RestrictSession ==
    << Rule([dlp_score_gte |-> 40], Limited),
       Rule([session_risk_state |-> "blocked"], Deny),
       Rule([input_scan_score_gte |-> 50],
            Decision("allow_with_restrictions", FALSE, TRUE, "internal", "restricted")),
       Rule([session_risk_state |-> "elevated"],
            Decision("allow_with_restrictions", FALSE, TRUE, "internal", "guarded")),
       Rule([step_up_authenticated |-> FALSE],
            Decision("allow_with_restrictions", FALSE, TRUE, "public", "guarded")) >>

\* Variant: the rules on the session before those on the content.
rules_session_first ==
    DenyAttacks \o DenyOrChallengeDegrees \o RestrictSession \o RestrictContent

default_decision == Decision("allow", TRUE, TRUE, "internal", "normal")

\* Variant: a session at normal risk let through before its content is restricted.
rules_normal_allowed ==
    DenyAttacks \o DenyOrChallengeDegrees
        \o << Rule([session_risk_state |-> "normal"], default_decision) >>
        \o RestrictContent \o RestrictSession

rules == DenyAttacks \o DenyOrChallengeDegrees \o RestrictContent \o RestrictSession

\* The first rule that matches decides.
evaluate(e) ==
    LET first == SelectInSeq(rules, LAMBDA r : Matches(r.when, e))
    IN  IF first = 0 THEN default_decision ELSE rules[first].decision
=============================================================================
