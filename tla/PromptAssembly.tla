--------------------------- MODULE PromptAssembly ---------------------------
(***************************************************************************)
(* The prompt package (app/prompt_builder.py): which sections it has, in   *)
(* which order, what redaction leaves in them and what is left of them     *)
(* when the prompt is over its budget.                                     *)
(*                                                                         *)
(* A text is a size and its marks, the values the DLP detectors would find *)
(* in it.  The redaction patterns mask some of them, and not a private key  *)
(* that has lost its last line: the detectors know it by its first.         *)
(*   "pii"           a value the patterns mask                              *)
(*   "key"           one they do not                                        *)
(*   "key_by_pii"    one they do not, so near to one they mask that the     *)
(*                   placeholder put there is near to it                    *)
(*   "shielded_pii", "shielded_key"   either, with a placeholder near       *)
(* Near is within the 20 characters on either side that the detectors keep  *)
(* as evidence (dlp_engine.py); what is shielded is no residue to them.     *)
(* Sizes are in units of their own; the lines around a section count as     *)
(* part of it.                                                              *)
(***************************************************************************)
EXTENDS Lists

Marks == {"pii", "key", "key_by_pii", "shielded_pii", "shielded_key"}
Text(marks, size) == [marks |-> marks, size |-> size]
NoText == Text({}, 0)

detect_regex_residual_sensitive_patterns(text) ==
    text.marks \cap {"pii", "key", "key_by_pii"} # {}

\* What the patterns mask is gone; a key beside it is shielded now.
Unmaskable(marks) ==
    (marks \cap {"key", "shielded_key"})
        \cup {m \in {"shielded_key"} : "key_by_pii" \in marks}

redact_pii_for_prompt(text) == [text EXCEPT !.marks = Unmaskable(@)]

\* Only if there is a residue; but then everything is masked.
apply_residual_failsafe_redaction(text) ==
    IF detect_regex_residual_sensitive_patterns(text) THEN redact_pii_for_prompt(text) ELSE text

-----------------------------------------------------------------------------
(* Redaction by the guard model (app/llm_guard.py).  A call ends in          *)
(*   "fails"     no answer, or none that can be read                         *)
(*   "unmasked"  the text given back with its values                         *)
(*   "masked"    the text without them                                       *)
(*   "shielded"  the text with placeholders beside the values it leaves      *)
(*   "unflagged" another text and was_redacted false                         *)
(* After each the failsafe masks what the detectors still find.              *)

Calls == {"fails", "unmasked", "masked", "shielded", "unflagged"}

Shielded(marks) ==
    {m \in {"shielded_pii"} : marks \cap {"pii", "shielded_pii"} # {}}
        \cup {m \in {"shielded_key"} : marks \cap {"key", "key_by_pii", "shielded_key"} # {}}

\* Variant: no failsafe when the model fails.
redact_trusting_model(text, call) ==
    CASE call = "masked" -> [text EXCEPT !.marks = {}]
      [] call = "shielded" -> [text EXCEPT !.marks = Shielded(@)]
      [] OTHER -> text

\* An unflagged answer leaves nothing for the failsafe to flag either: the
\* text given is kept, values and all.
redact_text_with_llm(text, call) ==
    CASE call \in {"fails", "unmasked"} -> apply_residual_failsafe_redaction(text)
      [] call = "masked" -> [text EXCEPT !.marks = {}]
      [] call = "shielded" -> [text EXCEPT !.marks = Shielded(@)]
      [] call = "unflagged" -> text

-----------------------------------------------------------------------------
(* Sections *)

trust_order == [trusted |-> 0, semi_trusted |-> 1, untrusted |-> 2]

Section(name, trust, text) == [name |-> name, trust |-> trust, text |-> text]

\* The policy block is longer the stricter the mode.
PolicySize(mode) == IF mode = "normal" THEN 1 ELSE 2

\* What there is to build from: what each role said, the attachments' names
\* and the chunks retrieved.
AllSections(mode, user, history, attachments, chunks) ==
    << Section("TRUSTED_SYSTEM_POLICY", "trusted", Text({}, PolicySize(mode))),
       Section("DEVELOPER_TASK", "trusted", Text({}, 1)),
       Section("SEMI_TRUSTED_RETRIEVED_CONTEXT", "semi_trusted", chunks),
       Section("SEMI_TRUSTED_ASSISTANT_HISTORY", "semi_trusted",
               IF mode = "restricted" THEN NoText ELSE history),
       Section("UNTRUSTED_USER_INPUT", "untrusted", user),
       Section("UNTRUSTED_ATTACHMENTS_METADATA", "untrusted", attachments) >>

\* A section with nothing in it is left out.
Sections(mode, user, history, attachments, chunks) ==
    LET all == AllSections(mode, user, history, attachments, chunks)
    IN  Kept(all, {s \in ToSet(all) : s.text.size > 0})

\* The chunks are one section, each under a line of its own that keeps the
\* values of one away from the placeholders of another.
ChunkText(chunks) == Text(UNION {c.text.marks : c \in ToSet(chunks)}, SizeOf(chunks))

\* Once the model has redacted any text, or is to be the only one to, the
\* sections are taken as they are.
Treated(sections, llmApplied, llmOnly) ==
    IF llmApplied \/ llmOnly
    THEN sections
    ELSE [i \in DOMAIN sections |->
             [sections[i] EXCEPT !.text = redact_pii_for_prompt(@)]]

\* Variant: only what the user has written.
ResidualOfUser(sections) ==
    \E s \in ToSet(sections) :
        s.trust = "untrusted" /\ detect_regex_residual_sensitive_patterns(s.text)

\* The lines between two sections are too long for one to shield the other.
Residual(sections) ==
    \E s \in ToSet(sections) : detect_regex_residual_sensitive_patterns(s.text)

\* residual is the metadata that the audit event is made from.
build(mode, user, history, attachments, chunks, llmApplied, llmOnly) ==
    LET sections == Treated(Sections(mode, user, history, attachments, ChunkText(chunks)),
                            llmApplied, llmOnly)
    IN  [sections |-> sections, size |-> SizeOf(sections),
         residual |-> Residual(sections), sliced |-> FALSE]

-----------------------------------------------------------------------------
(* The budget *)

OfTrust(sections, trust) == Kept(sections, {s \in ToSet(sections) : s.trust = trust})

\* Sorting is stable: sections of one trust keep their order either way.
ByTrust(sections) ==
    OfTrust(sections, "trusted") \o OfTrust(sections, "semi_trusted")
        \o OfTrust(sections, "untrusted")

\* Variant: the order of the prompt.
PromptOrder(sections) == ByTrust(sections)

LeastTrustedFirst(sections) ==
    OfTrust(sections, "untrusted") \o OfTrust(sections, "semi_trusted")
        \o OfTrust(sections, "trusted")

WithoutFirst(n, s) == SubSeq(s, n + 1, Len(s))

\* Sections go, the least trusted first, until the rest fits; when not even
\* one does, the text is cut off and no section is listed.
truncate_to_budget(package, maxChars) ==
    LET order == LeastTrustedFirst(package.sections)
        Left(n) == ByTrust(WithoutFirst(n, order))
        fitting == {n \in 0..Len(order) - 1 : SizeOf(Left(n)) <= maxChars}
        sections == Left(Min(fitting))
    IN  IF fitting # {}
        THEN [package EXCEPT !.sections = sections, !.size = SizeOf(sections)]
        ELSE [package EXCEPT !.sections = <<>>, !.size = maxChars, !.sliced = TRUE]
=============================================================================
