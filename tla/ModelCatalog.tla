---------------------------- MODULE ModelCatalog ----------------------------
(***************************************************************************)
(* The pure part of model-router: which model a role gets (index.ts), what *)
(* the adapters of the three providers accept, and what they make of it.   *)
(* A catalogue is fixed; roles are routed and requests adapted one after   *)
(* the other.                                                              *)
(***************************************************************************)
EXTENDS Naturals, Sequences, SequencesExt, FiniteSets, FiniteSetsExt

CONSTANTS
    Catalogue,      \* sequence of [tools, structured, context, english, score]
    Needs,          \* what roles ask for: [tools, context]
    Conversations,  \* sequences of [role, texts]
    ToolCounts,     \* how many tools a request may carry
    Asked,          \* the names the tables are asked for: sequences of parts
    MaxTimes        \* bound: how often the same messages are adapted

Providers == {"anthropic", "google", "openai"}

VARIABLES
    row,            \* the row of its tables a provider found last
    decision,       \* what routeRoleModel decided last
    prompt,         \* the message objects of the caller
    sent            \* the request the adapter made of them last

catalogVars == <<row, decision, prompt, sent>>

NoDecision == [need |-> [tools |-> FALSE, context |-> 0], candidates |-> <<>>, fallbackChain |-> <<>>,
               result |-> "none"]
NoRequest == [provider |-> "none", model |-> "none", messages |-> <<>>, temperature |-> "none",
              maxTokens |-> "none", tools |-> 0, times |-> 0, result |-> "none"]

NoRow == [provider |-> "none", name |-> <<>>, found |-> <<>>]

CatalogInit == row = NoRow /\ decision = NoDecision /\ prompt = <<>> /\ sent = NoRequest

-----------------------------------------------------------------------------
(* The rows of the tables of qualities, reliabilities and context limits,  *)
(* which have one order, with names cut at their dashes.                   *)
TableRows(provider) ==
    CASE provider = "openai" ->
           << <<"o1">>, <<"gpt", "4o">>, <<"o1", "mini">>, <<"gpt", "4", "turbo">>,
              <<"gpt", "4">>, <<"gpt", "4o", "mini">>, <<"gpt", "3.5", "turbo">> >>
      [] provider = "anthropic" ->
           << <<"claude", "opus", "4">>, <<"claude", "sonnet", "4.5">>,
              <<"claude", "sonnet", "3.7">>, <<"claude", "haiku", "3.5">> >>
      [] provider = "google" ->
           << <<"gemini", "2.0", "flash", "thinking", "exp">>, <<"gemini", "2.0", "flash">>,
              <<"gemini", "1.5", "pro">>, <<"gemini", "1.5", "flash">>,
              <<"gemini", "1.5", "flash", "8b">> >>

NormalizeModelName(provider, name) ==
    CASE provider = "anthropic" /\ name[1] # "claude" -> <<"claude">> \o name
      [] provider = "google" /\ name[1] # "gemini" -> <<"gemini">> \o name
      [] OTHER -> name

(* Mutant: only the full name of a model finds its row.                    *)
ExactRowFits(provider, entry, name) == entry = name

RowFits(provider, entry, name) ==
    IF provider = "anthropic"
    THEN \E k \in 0..Len(name) : IsPrefix(entry, SubSeq(name, k + 1, Len(name)))
    ELSE IsPrefix(entry, name)

(* getModelQuality, getToolReliability, getContextLimit: the first row that*)
(* fits, or the default.                                                   *)
Lookup(provider, name) ==
    LET rows == TableRows(provider)
        fits == {i \in DOMAIN rows : RowFits(provider, rows[i], NormalizeModelName(provider, name))}
    IN IF fits = {} THEN <<>> ELSE rows[Min(fits)]

GetModelQuality == \E provider \in Providers, name \in Asked :
    /\ row' = [provider |-> provider, name |-> NormalizeModelName(provider, name),
                found |-> Lookup(provider, name)]
    /\ UNCHANGED <<decision, prompt, sent>>

-----------------------------------------------------------------------------
(* applyHardFilters with the options routeRoleModel gives it.              *)
ApplyHardFilters(need) == {i \in DOMAIN Catalogue :
    LET m == Catalogue[i] IN
    /\ need.tools => m.tools
    /\ m.structured /\ m.english
    /\ m.context >= need.context}

(* The candidates by descending score; the sort is stable.                 *)
Scored(need) == SetToSortSeq(ApplyHardFilters(need), LAMBDA i, j :
    Catalogue[i].score > Catalogue[j].score \/ (Catalogue[i].score = Catalogue[j].score /\ i < j))

(* Mutant: the chain starts with the selected model.                       *)
SelfFallbackChain(scored) == SubSeq(scored, 1, IF Len(scored) < 3 THEN Len(scored) ELSE 3)

FallbackChain(scored) == SubSeq(scored, 2, IF Len(scored) < 4 THEN Len(scored) ELSE 4)

RouteRoleModel(need) ==
    /\ decision' = IF ApplyHardFilters(need) = {} THEN [NoDecision EXCEPT !.need = need, !.result = "threw"]
                   ELSE [need |-> need, candidates |-> Scored(need),
                         fallbackChain |-> FallbackChain(Scored(need)), result |-> "ok"]
    /\ UNCHANGED <<row, prompt, sent>>

-----------------------------------------------------------------------------
Roles(messages) == {messages[i].role : i \in DOMAIN messages}
OfSystem(m) == m.role = "system"
NotSystem(m) == m.role # "system"

(* validateMessages of the three adapters.                                 *)
ValidMessages(provider, messages) ==
    LET systems == SelectSeq(messages, OfSystem)
        others == SelectSeq(messages, NotSystem)
    IN
    /\ messages # <<>>
    /\ CASE provider = "openai" ->
              /\ Roles(messages) \subseteq {"system", "user", "assistant", "tool"}
              /\ "user" \in Roles(messages)
         [] provider = "anthropic" ->
              Len(systems) <= 1 /\ others # <<>> /\ others[1].role = "user"
         [] provider = "google" ->
              /\ Roles(messages) \subseteq {"system", "user", "assistant"}
              /\ "user" \in Roles(messages)
              /\ systems # <<>> => messages[1].role = "system"

(* validateTools: Google has no limit.                                     *)
ValidTools(provider, tools) ==
    CASE provider = "openai" -> tools <= 128
      [] provider = "anthropic" -> tools <= 64
      [] provider = "google" -> TRUE

Kinds(provider) == CASE provider = "openai" -> {"gpt", "o1"}
                     [] provider = "google" -> {"gemini", "thinking"}
                     [] provider = "anthropic" -> {"claude"}

(* The first user message, whose object adaptO1Request changes.            *)
FirstUser(messages) == SelectInSeq(messages, LAMBDA m : m.role = "user")
SystemTexts(messages) ==
    FoldLeft(LAMBDA texts, m : texts \o m.texts, <<>>, SelectSeq(messages, OfSystem))
Prepended(messages) ==
    IF SelectSeq(messages, OfSystem) = <<>> \/ FirstUser(messages) = 0 THEN messages
    ELSE [messages EXCEPT ![FirstUser(messages)].texts = SystemTexts(messages) \o @]

(* adaptRequest: o1 models take neither a temperature nor system messages. *)
Defaults(provider, kind) ==
    CASE provider = "openai" -> [temperature |-> "0.7", maxTokens |-> "none"]
      [] provider = "anthropic" -> [temperature |-> "1.0", maxTokens |-> "4096"]
      [] kind = "thinking" -> [temperature |-> "0.5", maxTokens |-> "none"]
      [] OTHER -> [temperature |-> "0.9", maxTokens |-> "8192"]

(* Mutant: the system messages of an o1 request are only filtered out.     *)
MuteAdapted(kind, messages, request) ==
    IF kind # "o1" THEN request
    ELSE [request EXCEPT !.temperature = "none", !.maxTokens = "none",
                         !.messages = SelectSeq(messages, NotSystem)]

Adapted(kind, messages, request) ==
    IF kind # "o1" THEN request
    ELSE [request EXCEPT !.temperature = "none", !.maxTokens = "none",
                         !.messages = SelectSeq(Prepended(messages), NotSystem)]

(* The caller validates and adapts; a retry adapts the same objects again. *)
Adapt(provider, kind, tools) == LET d == Defaults(provider, kind) IN
    /\ IF ValidMessages(provider, prompt) /\ ValidTools(provider, tools)
       THEN /\ sent' = Adapted(kind, prompt,
                 [provider |-> provider, model |-> kind, messages |-> prompt, tools |-> tools,
                  temperature |-> d.temperature, maxTokens |-> d.maxTokens, times |-> sent.times + 1, result |-> "ok"])
            /\ prompt' = IF kind = "o1" THEN Prepended(prompt) ELSE prompt
       ELSE sent' = [NoRequest EXCEPT !.result = "threw"] /\ UNCHANGED prompt
    /\ UNCHANGED <<row, decision>>

AdaptRequest == \E provider \in Providers, tools \in ToolCounts : \E kind \in Kinds(provider) :
    /\ \/ sent.result = "none"
       \/ /\ sent.result = "ok" /\ sent.times < MaxTimes
          /\ sent.provider = provider /\ sent.model = kind /\ sent.tools = tools
    /\ Adapt(provider, kind, tools)

(* The caller has its messages ready.                                      *)
Converse ==
    /\ prompt = <<>> /\ prompt' \in Conversations
    /\ UNCHANGED <<row, decision, sent>>

CatalogNext ==
    \/ <<row, decision, sent>> = <<NoRow, NoDecision, NoRequest>>
       /\ \/ Converse
          \/ prompt = <<>> /\ (GetModelQuality \/ \E need \in Needs : RouteRoleModel(need))
    \/ row = NoRow /\ decision = NoDecision /\ AdaptRequest

-----------------------------------------------------------------------------
(* A model of the tables, dated or not, never falls to the default, and is *)
(* taken for itself unless the name of an earlier row begins its own; no   *)
(* other name gets a row.  What openai.ts:208 and google.ts make of the    *)
(* three that are begun so (o1-mini, gpt-4o-mini, gemini-1.5-flash-8b get  *)
(* the figures of another model) is not asked for here: see the README.    *)
Shadowed == {<<"o1", "mini">>, <<"gpt", "4o", "mini">>, <<"gemini", "1.5", "flash", "8b">>}
RowsOfTheirOwn == row # NoRow =>
    LET own == {r \in ToSet(TableRows(row.provider)) : IsPrefix(r, row.name)}
    IN /\ row.found = <<>> <=> own = {}
       /\ \A best \in own \ Shadowed :
            (\A r \in own : Len(r) <= Len(best)) => row.found = best

(* Whoever is routed a model gets the best of those that fit its needs,    *)
(* and a chain of up to three other models that fit too, none of which is  *)
(* worse than one that was left out; it throws only when no model fits.    *)
FallbacksFit == LET d == decision IN
    d # NoDecision =>
        LET fits == {i \in DOMAIN Catalogue : /\ Catalogue[i].structured /\ Catalogue[i].english
                                              /\ Catalogue[i].context >= d.need.context
                                              /\ d.need.tools => Catalogue[i].tools}
            top == IF d.candidates = <<>> THEN {} ELSE {d.candidates[1]}
            chain == ToSet(d.fallbackChain)
        IN
        /\ d.result = "threw" <=> fits = {}
        /\ ToSet(d.candidates) = fits
        /\ chain \subseteq fits \ top
        /\ Cardinality(chain) = Len(d.fallbackChain)
        /\ \A i \in top \cup chain, j \in fits \ (top \cup chain) :
             Catalogue[i].score >= Catalogue[j].score
        /\ Len(d.fallbackChain) < 3 => fits = top \cup chain

(* What an adapter makes of a request it accepts is a request it accepts,  *)
(* with every text of the caller still in it; for an o1 model, where no    *)
(* system message may be left (openai.ts:126-137), the first user message  *)
(* has the texts of the system, in their order, ahead of the user's own.   *)
AdaptedIsValid == sent.result = "ok" =>
    LET texts(messages) == UNION {ToSet(messages[i].texts) : i \in DOMAIN messages}
        asked == sent.messages[FirstUser(sent.messages)].texts
    IN
    /\ ValidMessages(sent.provider, sent.messages)
    /\ texts(sent.messages) = texts(prompt)
    /\ sent.model = "o1" =>
         /\ "system" \notin Roles(sent.messages)
         /\ IsPrefix(SystemTexts(prompt), asked)
         /\ Last(asked) \notin ToSet(SystemTexts(prompt))

CatalogCorrect == RowsOfTheirOwn /\ FallbacksFit /\ AdaptedIsValid
=============================================================================
