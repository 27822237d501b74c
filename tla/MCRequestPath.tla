--------------------------- MODULE MCRequestPath ---------------------------
(* Small instances of the request path.  Each set of scenarios varies what *)
(* one part of the path depends on and leaves the rest as in Plain.        *)
EXTENDS RequestPath

GuardSays(action, confidence, risk) ==
    [action |-> action, confidence |-> confidence, risk |-> risk]

Own == Chunk("t1", "internal", "right", "right", FALSE, Text({}, 1))
AllTools == DOMAIN TOOL_REGISTRY
PlainText == ReplyText(1, 0, {})
Under(key, text) == Reply([NoReply.values EXCEPT ![key] = text], text)

Plain == [texts |-> [user |-> Text({}, 1), history |-> NoText, content |-> NoText],
          attachments |-> NoText, claimsRedacted |-> FALSE,
          decision |-> default_decision, label |-> "benign", tenant |-> "t1",
          permissions |-> AllTools, tools |-> <<>>, chunks |-> <<Own>>,
          gatewayReply |-> Under("answer", PlainText), ollamaText |-> PlainText,
          guardAnswer |-> GuardSays("allow", 95, 10)]

\* What is said, attached and retrieved, and what is masked of it.
MCUserTexts ==
    {Text(marks, 1) : marks \in {{}, {"pii"}, {"key"}, {"pii", "key_by_pii"}, {"shielded_pii"},
                                 {"shielded_pii", "key_by_pii"}, {"shielded_pii", "pii"}}}
    \cup {Text({"pii"}, 3)}
MCOtherTexts == {NoText, Text({"pii"}, 1)}
MCTexts ==
    [user : MCUserTexts, history : MCOtherTexts, content : {NoText}]
    \cup [user : MCUserTexts, history : {NoText}, content : MCOtherTexts]
MCRetrieved == {<<>>, Down, <<[Own EXCEPT !.text = Text({"pii"}, 1)]>>,
                <<Own, [Own EXCEPT !.text = Text({"key", "shielded_key"}, 1)]>>}
MCTextScenarios ==
    {[Plain EXCEPT !.texts = t, !.attachments = a, !.decision = d, !.chunks = c] :
        t \in MCTexts, a \in {NoText, Text({}, 1), Text({"pii"}, 1)},
        d \in {default_decision, Limited}, c \in MCRetrieved}
    \cup {[Plain EXCEPT !.texts = t, !.claimsRedacted = TRUE] : t \in MCTexts}

\* What the backend sends, to whom.
MCChunks ==
    {[Own EXCEPT !.tenant = t, !.sensitivity = s] :
        t \in {NoTenant, "t1", "t2"}, s \in DOMAIN sensitivity_rank}
    \cup {[Own EXCEPT !.hash = h, !.signature = g] :
        h, g \in {"none", "right", "wrong"}}
    \cup {[Own EXCEPT !.injection = TRUE]}
MCChunkScenarios ==
    {[Plain EXCEPT !.chunks = c, !.tenant = t, !.decision = d] :
        c \in {<<x>> : x \in MCChunks} \cup {<<Own, x>> : x \in MCChunks}
              \cup {Down, Malformed},
        t \in {NoTenant, "t1"}, d \in LetIn}

\* Tools asked for, alone and in pairs, with and without the permission.
MCToolRequests ==
    [name : {"browser.search", "kb.lookup", "email.send", "unknown", "null"},
     arguments : {"plain", "injection", "tool_call", "tool_like"}]
MCFewToolRequests ==
    {r \in MCToolRequests : r.name \in {"kb.lookup", "browser.search"}}
MCToolAsked == {<<x>> : x \in MCToolRequests} \cup {<<x, y>> : x, y \in MCFewToolRequests}
MCToolScenarios ==
    {[Plain EXCEPT !.tools = r, !.decision = d] : r \in MCToolAsked, d \in LetIn}
    \cup {[Plain EXCEPT !.tools = r, !.permissions = {"browser.search"}] : r \in MCToolAsked}
    \cup {[Plain EXCEPT !.tools = r, !.label = "exploit_or_malware_intent"] :
              r \in MCToolAsked}

\* What the upstream replies, and the guard model of it.
MCReplyTexts ==
    {PlainText, ReplyText(1, 30, {"secret"}), ReplyText(1, 60, {"secret"}),
     ReplyText(1, 60, {"secret", "pii", "leak"}), ReplyText(1, 20, {"pii"}),
     ReplyText(1, 0, {"leak"}), ReplyText(12, 60, {"secret", "leak"}), EmptyText}
MCReplies ==
    {Under(key, text) : key \in ToSet(ReplyKeys), text \in MCReplyTexts}
    \cup {Reply([NoReply.values EXCEPT !["answer"] = NotText], PlainText),
          Reply([NoReply.values EXCEPT !["answer"] = NotText,
                                       !["message"] = PlainText], PlainText),
          Reply([NoReply.values EXCEPT !["answer"] = EmptyText,
                                       !["message"] = ReplyText(1, 60, {"secret"})], PlainText),
          Reply(NoReply.values, ReplyText(1, 60, {"secret"}))}
MCGuardAnswers ==
    {GuardSays("allow", 95, 10), GuardSays("block", 95, 85), GuardSays("block", 90, 85),
     GuardSays("deny", 80, 60), GuardSays("allow_with_restrictions", 40, 35),
     GuardSays("allow_with_restrictions", 40, 70)}
MCReplyScenarios ==
    {[Plain EXCEPT !.gatewayReply = r, !.guardAnswer = a, !.decision = d] :
        r \in MCReplies, a \in MCGuardAnswers, d \in {default_decision, Limited}}
    \cup {[Plain EXCEPT !.gatewayReply = Down, !.ollamaText = t, !.guardAnswer = a] :
        t \in MCReplyTexts \cup {Down}, a \in MCGuardAnswers}

MCScenarios ==
    MCTextScenarios \cup MCChunkScenarios \cup MCToolScenarios \cup MCReplyScenarios

\* The default settings, and others that differ in all that is read here.
Default == [guardEnabled |-> TRUE, llmOnly |-> TRUE, hasKey |-> FALSE, gateway |-> FALSE,
            failOpen |-> TRUE, budget |-> "off", maxChars |-> 9]
MCDeployments ==
    {Default,
     [Default EXCEPT !.gateway = TRUE, !.hasKey = TRUE, !.budget = "truncate", !.maxChars = 3],
     [Default EXCEPT !.gateway = TRUE, !.failOpen = FALSE, !.llmOnly = FALSE,
                     !.budget = "block", !.maxChars = 4],
     [Default EXCEPT !.guardEnabled = FALSE, !.gateway = TRUE, !.llmOnly = FALSE,
                     !.budget = "truncate", !.maxChars = 1],
     [Default EXCEPT !.guardEnabled = FALSE, !.failOpen = FALSE, !.hasKey = TRUE],
     [Default EXCEPT !.llmOnly = FALSE, !.budget = "truncate", !.maxChars = 0]}
=============================================================================
