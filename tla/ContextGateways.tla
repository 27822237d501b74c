-------------------------- MODULE ContextGateways --------------------------
(***************************************************************************)
(* What is put at a request's disposal after the policy has decided on it: *)
(* the chunks the retrieval gateway lets through (app/retrieval_gateway.py) *)
(* and the tools the tool gateway runs (app/tool_gateway.py).  Both only   *)
(* compute; RequestPath calls them in turn.                                *)
(*                                                                         *)
(* A decision is a record of ContentPolicy: tools, retrieval and           *)
(* sensitivity are what it disables, allows and caps.  The patterns looked *)
(* for in chunks and arguments are left out: a chunk or an argument is     *)
(* described by which of them match.                                       *)
(***************************************************************************)
EXTENDS Lists

sensitivity_rank == [public |-> 0, internal |-> 1, confidential |-> 2, restricted |-> 3]

Within(sensitivity, decision) ==
    sensitivity_rank[sensitivity] <= sensitivity_rank[decision.sensitivity]

-----------------------------------------------------------------------------
(* Retrieval.  A chunk: its tenant, sensitivity, the state of its hash and   *)
(* of its signature ("none", "right" or "wrong"), whether it carries an      *)
(* injection, and its text, which only the prompt builder looks at.          *)

NoTenant == "none"

Chunk(tenant, sensitivity, hash, signature, injection, text) ==
    [tenant |-> tenant, sensitivity |-> sensitivity, hash |-> hash,
     signature |-> signature, injection |-> injection, text |-> text]

OfTenant(chunk, tenant) == NoTenant \in {tenant, chunk.tenant} \/ chunk.tenant = tenant

\* A signature is only looked at when the deployment has a key for it.
is_chunk_integrity_valid(chunk, hasKey) ==
    chunk.hash # "wrong" /\ ~ (hasKey /\ chunk.signature = "wrong")

\* Variant: the tenant not compared, the backend being asked for one tenant.
filter_by_sensitivity(chunks, tenant, decision, hasKey) ==
    Kept(chunks, {c \in ToSet(chunks) :
        Within(c.sensitivity, decision) /\ is_chunk_integrity_valid(c, hasKey)})

filter_chunks(chunks, tenant, decision, hasKey) ==
    Kept(chunks, {c \in ToSet(chunks) :
        /\ OfTenant(c, tenant)
        /\ Within(c.sensitivity, decision)
        /\ is_chunk_integrity_valid(c, hasKey)})

filter_chunks_for_injection(chunks) == Kept(chunks, {c \in ToSet(chunks) : ~ c.injection})

\* What stands in for a backend that fails: one chunk of two sensitivities,
\* under the tenant of the caller.
StubChunks(tenant, text) ==
    << Chunk(tenant, "internal", "none", "none", FALSE, text),
       Chunk(tenant, "confidential", "none", "none", FALSE, text) >>

\* A policy that allows no retrieval is obeyed before the backend is asked.
retrieve(fetched, tenant, decision, hasKey) ==
    IF decision.retrieval
    THEN filter_chunks_for_injection(filter_chunks(fetched, tenant, decision, hasKey))
    ELSE <<>>

-----------------------------------------------------------------------------
(* Tools.  A request for a tool: its name, and which patterns its arguments  *)
(* match: "injection" and "tool_call" are looked for in the arguments,       *)
(* "tool_like" only in what the tool would be run with.                      *)

Tool(sensitivity) == [enabled |-> TRUE, sensitivity |-> sensitivity]

TOOL_REGISTRY ==
    [name \in {"browser.search", "kb.lookup", "ticket.create", "email.send"} |->
        CASE name = "browser.search" -> Tool("public")
          [] name \in {"kb.lookup", "ticket.create"} -> Tool("internal")
          [] name = "email.send" -> Tool("confidential")]

\* Each tool has a permission of its own; "*" is no wildcard here.
MayUse(name, permissions) == name \in permissions

AttackLabels == {"prompt_injection", "jailbreak_attempt", "secret_exfiltration_intent",
                 "exploit_or_malware_intent"}

ToolAllowed(request, decision, label, permissions) ==
    /\ request.name \in DOMAIN TOOL_REGISTRY
    /\ TOOL_REGISTRY[request.name].enabled
    /\ decision.tools
    /\ MayUse(request.name, permissions)
    /\ Within(TOOL_REGISTRY[request.name].sensitivity, decision)
    /\ label \notin AttackLabels
    /\ request.arguments \notin {"injection", "tool_call"}

\* Every request gets a decision, a rejected one without its arguments.
ToolDecision(request, allowed) ==
    [tool |-> request.name, allowed |-> allowed,
     arguments |-> IF allowed THEN request.arguments ELSE "none"]

evaluate_requested_tools(requests, decision, label, permissions) ==
    [i \in DOMAIN requests |->
        ToolDecision(requests[i], ToolAllowed(requests[i], decision, label, permissions))]

LastOn(name, decisions) ==
    decisions[SelectLastInSeq(decisions, LAMBDA d : d.tool = name)]

\* Variant: the arguments taken from the request once its tool is allowed.
execute_as_requested(requests, decisions) ==
    [i \in DOMAIN requests |->
        LET runs == LastOn(requests[i].name, decisions).allowed
        IN  [tool |-> requests[i].name, allowed |-> runs,
             arguments |-> IF runs THEN requests[i].arguments ELSE "none"]]

\* Variant: no record of what did not run.
execute_and_record_runs(requests, decisions) ==
    LET records == execute_as_requested(requests, decisions)
    IN  Kept(records, {r \in ToSet(records) : r.allowed})

\* A request is run by the last decision on a tool of its name, with the
\* arguments of that decision, unless they look like a call themselves.
execute_allowed_tools(requests, decisions) ==
    [i \in DOMAIN requests |->
        LET last == LastOn(requests[i].name, decisions)
            runs == last.allowed /\ last.arguments # "tool_like"
        IN  [tool |-> requests[i].name, allowed |-> runs,
             arguments |-> IF runs THEN last.arguments ELSE "none"]]
=============================================================================
