--------------------------- MODULE MCAdjudication ---------------------------
(* Small instances of the adjudication of requests. *)
EXTENDS Adjudication

Matching(findings, found) == [f \in findings |-> IF f \in found THEN 1 ELSE 0]

\* Up to so many findings of different categories.
Scans(most) ==
    {input_scan(Matching(ScanFindings, found)) : found \in
        UNION {kSubset(n, ScanFindings) : n \in 0..most}}
MCScans == Scans(2)
MCLoneScans == Scans(1)
MCNoScan == Scans(0)
MCDlpScans ==
    {dlp_scan(Matching(DlpFindings, found)) : found \in
        UNION {kSubset(n, DlpFindings) : n \in 0..2}}
\* One or two matches of everything secret, or nothing.
MCHighDlp == dlp_scan([f \in DlpFindings |-> IF f = "critical_secret" THEN 2 ELSE 0])
MCNoDlp == dlp_scan(Matching(DlpFindings, {}))

\* Replies of every form: with all fields, with a label or an action of its own
\* words, with a confidence in percent or none, in prose that accuses or does not.
Object(label, confidence, action, words) ==
    GuardObject(label, confidence, Number(60), action, words)
MCReplies ==
    {NotAsked, Raises, OtherJson, Object("benign", Number(95), "allow", {}),
     Object("jailbreak_attempt", Number(90), "deny", {}),
     Object("jailbreak_attempt", Number(60), "deny", {}),
     Object("secret_exfiltration_intent", NaN, "block", {}),
     Object("sensitive_data_submission", Number(8000), "allow", {}),
     Object(OtherName, Number(80), OtherName, {"exploit"}),
     Prose({"safe", "allow"}), Prose({"email", "redact"}),
     Prose({"safe", "unsafe", "dan", "deny"})}

Probe(scans, dlps, replies, permissions, stepUps) ==
    [scan : scans, dlp : dlps, reply : replies, permitted : permissions, stepUp : stepUps]

\* Only the last rule looks at the step-up: pairs of findings come with one.
MCFewDlpScans == {MCNoDlp, MCHighDlp, dlp_scan(Matching(DlpFindings, {"pii"}))}
MCProbes == Probe(MCScans, MCFewDlpScans, MCReplies, {TRUE}, {TRUE})
                \cup Probe(MCLoneScans, MCFewDlpScans, MCReplies, {TRUE}, {FALSE})
                \cup Probe(MCNoScan, MCDlpScans, MCReplies, BOOLEAN, BOOLEAN)
MCFewProbes == Probe(MCScans, {MCNoDlp, MCHighDlp}, MCReplies, {TRUE}, BOOLEAN)

\* A session with refusals, attempts and tool requests behind it.
MCAged == [requests |-> 18, refusals |-> 2, toolRequests |-> 4,
           injections |-> 2, escalations |-> 0, state |-> "normal"]
MCBlocked == [requests |-> 20, refusals |-> 3, toolRequests |-> 5,
              injections |-> 3, escalations |-> 0, state |-> "blocked"]
MCHistories == {Fresh, MCAged, MCBlocked}
=============================================================================
