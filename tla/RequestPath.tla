---------------------------- MODULE RequestPath ----------------------------
(***************************************************************************)
(* One request after the policy has let it in: redaction, retrieval,       *)
(* redaction again, tools, prompt, budget, forwarding, the output guard    *)
(* and the answer (SessionPolicyStep from its redaction on,                *)
(* RetrievalAndPromptStep and UpstreamAndOutputStep of                     *)
(* app/chat_pipeline.py, app/forwarder.py, app/audit_bus.py).              *)
(*                                                                         *)
(* ChatPipeline interleaves requests and leaves open what each await       *)
(* brings; here one request is followed with its data.  It shares nothing  *)
(* these steps read.  What it says and what the services it meets will     *)
(* answer is its scenario; how each redaction call of the guard model ends *)
(* is left open.                                                           *)
(***************************************************************************)
EXTENDS ContentPolicy, ContextGateways, PromptAssembly, OutputPath

CONSTANTS
    Scenarios,      \* what is said and what the services answer
    Deployments,    \* settings
    Down,           \* in place of an answer: none came, or an error status
    Malformed       \* in place of chunks: some that do not validate

\* Every decision of the default bundle that lets a request in.
LetIn == {d \in {rules[i].decision : i \in DOMAIN rules} \cup {default_decision} :
              d.action \notin {"deny", "challenge"}}

Texts == [marks : SUBSET Marks, size : Nat]
Chunks == [tenant : STRING, sensitivity : DOMAIN sensitivity_rank,
           hash : {"none", "right", "wrong"}, signature : {"none", "right", "wrong"},
           injection : BOOLEAN, text : Texts]
ToolRequests == [name : STRING, arguments : {"plain", "injection", "tool_call", "tool_like"}]
ReplyTexts == [kind : {"text"}, size : Nat, score : Nat,
               marks : SUBSET {"secret", "pii", "leak"}]
Replies == [values : [ToSet(ReplyKeys) -> {NoValue, NotText} \cup ReplyTexts],
            whole : ReplyTexts]

ASSUME ScenariosAssumption ==
    \A s \in Scenarios :
        /\ s.decision \in LetIn
        /\ s.texts \in [{"user", "history", "content"} -> Texts]
        /\ s.attachments \in Texts
        /\ s.claimsRedacted \in BOOLEAN
        /\ s.tenant \in STRING
        /\ s.tools \in Seq(ToolRequests)
        /\ s.chunks \in {Down, Malformed} \/ s.chunks \in Seq(Chunks)
        /\ s.gatewayReply = Down \/ s.gatewayReply \in Replies
        /\ s.ollamaText = Down \/ s.ollamaText \in ReplyTexts
ASSUME DeploymentsAssumption ==
    \A d \in Deployments :
        /\ {d.guardEnabled, d.llmOnly, d.hasKey, d.gateway, d.failOpen} \subseteq BOOLEAN
        /\ d.budget \in {"off", "block", "truncate"}
        /\ d.maxChars \in Nat

VARIABLES
    scenario, deployment,
    phase,         \* the await the request is at
    envelope,      \* the canonical envelope, as far as these steps fill it
    modelDown,     \* history: no redaction call has been answered
    upstream,      \* the upstream's reply
    client,        \* the reply in the response
    events,        \* audit events emitted for the request
    status

vars == <<scenario, deployment, phase, envelope, modelDown, upstream, client, events, status>>

Phases == {"redaction", "retrieval", "second_redaction", "upstream", "output_guard", "answered"}
NoAnswer == 0
NoPackage == [sections |-> <<>>, size |-> 0, residual |-> FALSE, sliced |-> FALSE]
NoReply == Reply([k \in ToSet(ReplyKeys) |-> NoValue], EmptyText)
NoResult == Result("none", NoValue)

TypeOK ==
    /\ phase \in Phases
    /\ \A k \in DOMAIN envelope.texts : envelope.texts[k].marks \subseteq Marks
    /\ envelope.llmApplied \in BOOLEAN /\ modelDown \in BOOLEAN
    /\ Len(envelope.decisions) \in {0, Len(scenario.tools)}
    /\ Len(envelope.records) = Len(envelope.decisions)
    /\ envelope.package.size \in Nat
    /\ envelope.result.action \in {"none", "allow", "redact", "block"}
    /\ status \in {NoAnswer, 200, 413, 500, 502}
    /\ status = NoAnswer <=> phase # "answered"

Init ==
    /\ scenario \in Scenarios
    /\ deployment \in Deployments
    /\ phase = "redaction"
    /\ envelope = [texts |-> scenario.texts, chunks |-> <<>>,
                   llmApplied |-> scenario.claimsRedacted,
                   decisions |-> <<>>, records |-> <<>>,
                   package |-> NoPackage, result |-> NoResult]
    /\ modelDown = TRUE
    /\ upstream = NoReply /\ client = NoReply
    /\ events = {}
    /\ status = NoAnswer

-----------------------------------------------------------------------------
Await(next) == phase' = next /\ UNCHANGED status
Answered(code) == phase' = "answered" /\ status' = code

Said(e) == {k \in DOMAIN e.texts : e.texts[k].size > 0}

\* How the redaction calls of one pass end, one for each text.
Endings(e) ==
    IF deployment.guardEnabled
    THEN [texts : [Said(e) -> Calls], chunks : [DOMAIN e.chunks -> Calls]]
    ELSE {[texts |-> <<>>, chunks |-> <<>>]}

NoneAnswered(calls) ==
    /\ \A k \in DOMAIN calls.texts : calls.texts[k] = "fails"
    /\ \A i \in DOMAIN calls.chunks : calls.chunks[i] = "fails"

\* What is said, in messages and attachments, and by now the chunks.  The flag
\* may have come in with the metadata of the request.
redact_envelope_pii(e, calls) ==
    LET texts == [k \in DOMAIN e.texts |->
                     IF k \in Said(e) THEN redact_text_with_llm(e.texts[k], calls.texts[k])
                                      ELSE e.texts[k]]
        chunks == [i \in DOMAIN e.chunks |->
                     [e.chunks[i] EXCEPT !.text = redact_text_with_llm(@, calls.chunks[i])]]
        Changed(call) == call \in {"masked", "shielded"}
        flagged == \/ \E k \in Said(e) : Changed(calls.texts[k]) \/ texts[k] # e.texts[k]
                   \/ \E i \in DOMAIN chunks :
                          Changed(calls.chunks[i]) \/ chunks[i] # e.chunks[i]
    IN  IF deployment.guardEnabled
        THEN [e EXCEPT !.texts = texts, !.chunks = chunks, !.llmApplied = @ \/ flagged]
        ELSE [e EXCEPT !.llmApplied = FALSE]

\* The envelopes a pass can leave, and whether the model is still silent.
Redactions(e) ==
    {[envelope |-> redact_envelope_pii(e, calls), down |-> modelDown /\ NoneAnswered(calls)] :
        calls \in Endings(e)}

RedactInput ==
    /\ phase = "redaction"
    /\ \E redacted \in Redactions(envelope) :
           /\ envelope' = redacted.envelope
           /\ modelDown' = redacted.down
    /\ Await("retrieval")
    /\ UNCHANGED <<scenario, deployment, upstream, client, events>>

\* The backend is asked, or the policy says not to; it answers, or the stub
\* chunks stand in for it, and go through the filters as well.
Retrieve ==
    LET fetched == IF scenario.chunks = Down
                   THEN StubChunks(scenario.tenant, Text({}, 1))
                   ELSE scenario.chunks
    IN  /\ phase = "retrieval"
        /\ ~ (scenario.decision.retrieval /\ scenario.chunks = Malformed)
        /\ envelope' = [envelope EXCEPT !.chunks =
                            retrieve(fetched, scenario.tenant, scenario.decision,
                                     deployment.hasKey)]
        /\ Await("second_redaction")
        /\ UNCHANGED <<scenario, deployment, modelDown, upstream, client, events>>

\* A chunk that does not validate raises out of the pipeline.
RetrievalRaised ==
    /\ phase = "retrieval"
    /\ scenario.decision.retrieval /\ scenario.chunks = Malformed
    /\ Answered(500)
    /\ UNCHANGED <<scenario, deployment, envelope, modelDown, upstream, client, events>>

\* Tools decided on and run for envelope e.
WithTools(e) ==
    LET decisions == evaluate_requested_tools(scenario.tools, scenario.decision,
                                              scenario.label, scenario.permissions)
    IN  [e EXCEPT !.decisions = decisions,
                  !.records = execute_allowed_tools(scenario.tools, decisions)]

PackageOf(e) ==
    build(scenario.decision.mode, e.texts["user"], e.texts["history"], scenario.attachments,
          e.chunks, e.llmApplied, deployment.llmOnly)

\* A tool request named null cannot be recorded.
NamesNull == \E i \in DOMAIN scenario.tools : scenario.tools[i].name = "null"

\* Redaction again, tools, prompt and budget: no await between them.
Assemble ==
    /\ phase = "second_redaction"
    /\ ~ NamesNull
    /\ \E redacted \in Redactions(envelope) :
           LET e == WithTools(redacted.envelope)
               package == PackageOf(e)
               over == package.size > deployment.maxChars /\ deployment.budget # "off"
           IN  /\ envelope' = [e EXCEPT !.package =
                                   IF over /\ deployment.budget = "truncate"
                                   THEN truncate_to_budget(package, deployment.maxChars)
                                   ELSE package]
               /\ modelDown' = redacted.down
               /\ IF over /\ deployment.budget = "block"
                  THEN Answered(413) ELSE Await("upstream")
    /\ UNCHANGED <<scenario, deployment, upstream, client, events>>

ToolsRaised ==
    /\ phase = "second_redaction"
    /\ NamesNull
    /\ \E redacted \in Redactions(envelope) :
           /\ envelope' = redacted.envelope
           /\ modelDown' = redacted.down
    /\ Answered(500)
    /\ UNCHANGED <<scenario, deployment, upstream, client, events>>

\* The answer Ollama's reply is turned into, and the one made up for it.
OllamaReply(text) == Reply([NoReply.values EXCEPT !["answer"] = text], text)
Unavailable == OllamaReply(ReplyText(1, 0, {}))

\* The gateway if one is configured; Ollama if it is not, or fails and
\* the deployment fails open.
ViaGateway == deployment.gateway /\ scenario.gatewayReply # Down
ViaOllama == ~ ViaGateway /\ (deployment.gateway => deployment.failOpen)

Delivered ==
    IF ViaGateway THEN scenario.gatewayReply
    ELSE IF scenario.ollamaText = Down THEN Unavailable
    ELSE OllamaReply(scenario.ollamaText)

ForwardFails ==
    ~ ViaGateway /\ ~ (ViaOllama /\ (scenario.ollamaText # Down \/ deployment.failOpen))

\* The guard model is asked about a text only; anything else raises.
TextRaises(reply) == deployment.guardEnabled /\ ~ IsText(OutputText(reply))

Forward ==
    /\ phase = "upstream"
    /\ ~ ForwardFails
    /\ upstream' = Delivered
    /\ IF TextRaises(Delivered) THEN Answered(500) ELSE Await("output_guard")
    /\ UNCHANGED <<scenario, deployment, envelope, modelDown, client, events>>

ForwardFailed ==
    /\ phase = "upstream"
    /\ ForwardFails
    /\ Answered(502)
    /\ UNCHANGED <<scenario, deployment, envelope, modelDown, upstream, client, events>>

\* The guard model is not asked when it is off or there is nothing to read.
GuardAnswer ==
    IF deployment.guardEnabled /\ ~ Blank(OutputText(upstream))
    THEN scenario.guardAnswer ELSE NoValue

\* emit_for_envelope; what the policy and the scanners add is of no account here.
emit_for_envelope(e) ==
    {event \in {"tool_blocked", "output_guard_action", "prompt_pii_residual_alert"} :
        CASE event = "tool_blocked" -> \E i \in DOMAIN e.decisions : ~ e.decisions[i].allowed
          [] event = "output_guard_action" -> e.result.action \in {"redact", "block"}
          [] event = "prompt_pii_residual_alert" -> e.package.residual}

Inspect ==
    LET result == guard_output(envelope.package.size, GuardAnswer,
                               scenario.decision.mode, upstream)
    IN  /\ phase = "output_guard"
        /\ envelope' = [envelope EXCEPT !.result = result]
        /\ events' = emit_for_envelope(envelope')
        /\ IF result.action = "block"
           THEN Answered(502) /\ UNCHANGED client
           ELSE Answered(200) /\ client' = apply_redaction(upstream, result)
        /\ UNCHANGED <<scenario, deployment, modelDown, upstream>>

Next ==
    \/ RedactInput \/ Retrieve \/ RetrievalRaised \/ Assemble \/ ToolsRaised
    \/ Forward \/ ForwardFailed \/ Inspect

Spec == Init /\ [][Next]_vars

-----------------------------------------------------------------------------
(* Properties *)

\* Whatever the backend sends, the stub included, and whatever is asked for:
\* no chunk of another tenant or above the ceiling of the decision, no chunk
\* with an injection and none with a wrong hash is in the envelope, and under
\* the default bundle nothing confidential is, nor does email.send ever run.
ContextWithinDecision ==
    /\ \A c \in ToSet(envelope.chunks) :
           /\ scenario.decision.retrieval
           /\ c.tenant \in {scenario.tenant, NoTenant} \/ scenario.tenant = NoTenant
           /\ c.sensitivity \in {"public", "internal"}
           /\ scenario.decision.sensitivity = "public" => c.sensitivity = "public"
           /\ ~ c.injection /\ c.hash # "wrong"
           /\ deployment.hasKey => c.signature # "wrong"
    /\ \A r \in ToSet(envelope.records) :
           r.allowed => r.tool # "email.send" /\ scenario.decision.tools

\* A tool that runs does so with arguments that were asked for it and accepted;
\* requested once, it runs exactly if its request was accepted.  (Requested
\* twice, the last decision on it holds for both: tool_gateway.py:165.)
RunsWhatWasAccepted ==
    \A i \in DOMAIN envelope.records :
        LET r == envelope.records[i]
            Same(j) == scenario.tools[j].name = r.tool
        IN  /\ r.allowed => \E j \in DOMAIN scenario.tools :
                    /\ Same(j)
                    /\ scenario.tools[j].arguments = r.arguments
                    /\ r.arguments \notin {"injection", "tool_call"}
                    /\ envelope.decisions[j].allowed
            /\ (\A j \in DOMAIN scenario.tools : Same(j) => j = i) =>
                   (r.allowed <=> /\ envelope.decisions[i].allowed
                                  /\ scenario.tools[i].arguments # "tool_like")

\* "Drop lowest-trust sections first until prompt length is within budget"
\* (prompt_builder.py:204): what is left is in order of trust and fits, and no
\* section was dropped while a less trusted one stayed.
LeastTrustGoesFirst ==
    LET left == envelope.package.sections
        trust(i) == trust_order[left[i].trust]
        all == PackageOf(envelope).sections
    IN  deployment.budget = "truncate" /\ phase \in {"upstream", "output_guard"} =>
        /\ \A i, j \in DOMAIN left : i < j => trust(i) <= trust(j)
        /\ envelope.package.size <= deployment.maxChars
        /\ \A s \in ToSet(all) \ ToSet(left), i \in DOMAIN left :
               trust(i) <= trust_order[s.trust]

\* A sensitive value that a prompt still held when it was sent, no placeholder
\* being near it, is in the audit trail once the request is answered through the
\* output guard: with any setting, for a shortened prompt too, and whether the
\* answer was blocked.  (One placeholder, put there by a redaction or written by
\* the user, exempts what is near it: prompt_builder.py:57.)
ResidualAlerted ==
    /\ envelope.result # NoResult
    /\ \E s \in ToSet(envelope.package.sections) :
           s.text.marks \cap {"pii", "key", "key_by_pii"} # {}
    => "prompt_pii_residual_alert" \in events

\* The guard model failing costs no masking of what the detectors count: when
\* none of its redaction calls was answered, the prompt holds no value of that
\* kind the patterns could have masked, but in the names of attachments, which
\* are never redacted.  One that was near a placeholder is left only where the
\* builder takes the sections as they are.
OutageStillMasks ==
    deployment.guardEnabled /\ modelDown =>
        \A s \in ToSet(envelope.package.sections) :
            /\ s.text.marks \cap {"pii", "key_by_pii"} # {} =>
                   s.name = "UNTRUSTED_ATTACHMENTS_METADATA"
            /\ "shielded_pii" \in s.text.marks =>
                   deployment.llmOnly \/ envelope.llmApplied

\* What either endpoint shows of a reply with one text is what the guard left
\* of it, a blocked reply is shown by neither.  (Of a reply with several texts
\* the guard reads one and the endpoints may show another.)
GuardedTextShown ==
    LET texts == {k \in ToSet(ReplyKeys) : upstream.values[k] # NoValue}
        shown == ChatTexts(client) \cup {extract_assistant_text(client, envelope.result)}
    IN  /\ envelope.result.action = "block" => client = NoReply /\ status = 502
        /\ status = 200 /\ Cardinality(texts) <= 1
               /\ (\A k \in texts : IsText(upstream.values[k])) =>
               \A text \in shown : text = envelope.result.text
=============================================================================
