------------------------------- MODULE Thinking -------------------------------
(***************************************************************************)
(* The thinking settings of a request (internal/thinking): how they are    *)
(* translated, read, overridden by the suffix of the model's name,         *)
(* validated against what the model supports and written back.  A request  *)
(* goes to the Claude executor or to the OpenAI-compatible one.            *)
(***************************************************************************)
EXTENDS Integers, Sequences, SequencesExt, FiniteSetsExt

CONSTANTS
    Models,    \* records: the executor it goes to (to), user-defined (user), and, when it
               \* supports thinking, min, max, zero, dynamic and levels of its
               \* ThinkingSupport, its type and its max_completion_tokens (limit)
    Budgets,   \* budgets that clients ask for
    Efforts,   \* efforts that clients ask for
    Limits     \* values of max_tokens

VARIABLES
    main,  \* a request on its way: its body, the setting found and what became of it
    twin,  \* another one that it is compared with
    stage

vars == <<main, twin, stage>>

Absent == -99  \* a number that is not there; "" is an effort that is not

\* The settings of a body: those of Claude, and reasoning_effort.
Body(type, budget, effort, max, reasoning) ==
    [type |-> type, budget |-> budget, effort |-> effort, max |-> max, reasoning |-> reasoning]

Config(mode, budget, level) == [mode |-> mode, budget |-> budget, level |-> level]
NoConfig == Config("budget", 0, "")
Off  == Config("none", 0, "")
Auto == Config("auto", -1, "")
Found(config) == config # NoConfig
Rejected == Config("error", 0, "")

-----------------------------------------------------------------------------
(* Levels and budgets. *)
LevelOrder == <<"minimal", "low", "medium", "high", "xhigh", "max">>
LevelIndex(level) == SelectInSeq(LevelOrder, LAMBDA l : l = level)
LevelToBudget == [none |-> 0, auto |-> -1, minimal |-> 512, low |-> 1024, medium |-> 8192,
                  high |-> 24576, xhigh |-> 32768, max |-> 128000]
BudgetToLevel(budget) ==
    CASE budget < -1 -> ""
      [] budget = -1 -> "auto"
      [] budget = 0 -> "none"
      [] budget \in 1..512 -> "minimal"
      [] budget \in 513..1024 -> "low"
      [] budget \in 1025..8192 -> "medium"
      [] budget \in 8193..24576 -> "high"
      [] OTHER -> "xhigh"

\* MapToClaudeEffort; what it does not know is passed on.
ClaudeEffort(level, supportsMax) ==
    CASE level = "minimal" -> "low"
      [] level \in {"xhigh", "max"} -> IF supportsMax THEN "max" ELSE "high"
      [] OTHER -> level

-----------------------------------------------------------------------------
(* The translation of a request. *)
OfEffort(effort, m, max) ==  \* to Claude, of reasoning_effort or reasoning.effort
    LET adaptive == m.supports /\ m.levels # <<>>
        budget == LevelToBudget[effort]
    IN CASE effort = "" -> Body("", Absent, "", max, "")
         [] effort # "" /\ adaptive /\ effort = "none" -> Body("disabled", Absent, "", max, "")
         [] effort # "" /\ adaptive /\ effort = "auto" -> Body("adaptive", Absent, "", max, "")
         [] effort \notin {"", "none", "auto"} /\ adaptive ->
              Body("adaptive", Absent, ClaudeEffort(effort, Contains(m.levels, "max")), max, "")
         [] effort # "" /\ ~adaptive /\ effort \notin DOMAIN LevelToBudget -> Body("", Absent, "", max, "")
         [] OTHER -> CASE budget = 0 -> Body("disabled", Absent, "", max, "")
                       [] budget = -1 -> Body("enabled", Absent, "", max, "")
                       [] OTHER -> Body("enabled", budget, "", max, "")

OfClaude(b) ==  \* to OpenAI, of a Claude request
    LET reasoning ==
            CASE b.type = "enabled" -> BudgetToLevel(IF b.budget = Absent THEN -1 ELSE b.budget)
              [] b.type \in {"adaptive", "auto"} -> IF b.effort = "" THEN "xhigh" ELSE b.effort
              [] b.type = "disabled" -> "none"
              [] OTHER -> ""
    IN Body("", Absent, "", b.max, reasoning)

Translated(r) ==
    LET to == r.model.to IN
    CASE r.from = "claude" /\ to = "claude" -> r.body
      [] r.from = "claude" /\ to = "openai" -> OfClaude(r.body)
      [] r.from # "claude" /\ to = "openai" -> r.body
      [] OTHER -> OfEffort(r.body.reasoning, r.model, IF r.body.max = Absent THEN 32000 ELSE r.body.max)

-----------------------------------------------------------------------------
(* What a body asks for, and what the suffix of the model's name does. *)
ClaudeConfig(b) ==
    CASE b.type = "disabled" -> Off
      [] b.type \in {"adaptive", "auto"} ->
            CASE b.effort = "" -> NoConfig
              [] b.effort = "none" -> Off
              [] b.effort = "auto" -> Auto
              [] OTHER -> Config("level", 0, b.effort)
      [] OTHER -> CASE b.budget = 0 -> Off
                    [] b.budget = -1 -> Auto
                    [] b.budget \notin {Absent, 0, -1} -> Config("budget", b.budget, "")
                    [] OTHER -> IF b.type = "enabled" THEN Auto ELSE NoConfig

OpenAIConfig(b) ==
    CASE b.reasoning = "" -> NoConfig
      [] b.reasoning = "none" -> Off
      [] OTHER -> Config("level", 0, b.reasoning)

Extract(b, format) ==
    CASE format = "claude" -> ClaudeConfig(b)
      [] format = "openai" -> OpenAIConfig(b)
      [] OTHER -> NoConfig

\* A suffix is a level, "none", "auto", or a number; another one says nothing.
HasSuffix(r) == r.suffix.is # "absent"
SuffixConfig(suffix) ==
    CASE suffix.is = "level" /\ suffix.level = "none" -> Off
      [] suffix.is = "level" /\ suffix.level = "auto" -> Auto
      [] suffix.is = "level" /\ Contains(LevelOrder, suffix.level) -> Config("level", 0, suffix.level)
      [] suffix.is = "number" /\ suffix.number = 0 -> Off
      [] suffix.is = "number" /\ suffix.number > 0 -> Config("budget", suffix.number, "")
      [] suffix.is = "number" /\ suffix.number = -1 -> Auto
      [] OTHER -> NoConfig

-----------------------------------------------------------------------------
(* ValidateConfig. *)
SameFamily(from, to) == from = to \/ {from, to} \subseteq {"openai", "openai-response", "codex"}

HasBudget(m) == m.min > 0 \/ m.max > 0
HasLevels(m) == m.levels # <<>>
Supported(level, m) == Contains(m.levels, level)

ClampLevel(level, m) ==
    LET known == {LevelIndex(l) : l \in Range(m.levels)} \ {0}
        Far(i) == Max({LevelIndex(level) - i, i - LevelIndex(level)})
    IN IF Supported(level, m) \/ LevelIndex(level) = 0 \/ known = {} THEN level
       ELSE LevelOrder[CHOOSE i \in known : \A j \in known :
                Far(i) < Far(j) \/ (Far(i) = Far(j) /\ i <= j)]

ClampBudget(value, m) ==
    CASE value = -1 -> value
      [] value = 0 /\ ~m.zero -> m.min
      [] value = 0 /\ m.zero -> 0
      [] value \notin {-1, 0} /\ m.min = 0 /\ m.max = 0 -> value
      [] OTHER -> CASE value < m.min -> m.min [] value > m.max -> m.max [] OTHER -> value

\* To the form the model knows: budgets to levels or levels to budgets.
Converted(c, m) ==
    CASE HasBudget(m) /\ ~HasLevels(m) /\ c.mode = "level" /\ c.level # "auto" ->
            IF c.level \in DOMAIN LevelToBudget THEN Config("budget", LevelToBudget[c.level], "")
            ELSE Rejected
      [] HasLevels(m) /\ ~HasBudget(m) /\ c.mode = "budget" ->
            IF BudgetToLevel(c.budget) = "" THEN Rejected
            ELSE Config("level", 0, ClampLevel(BudgetToLevel(c.budget), m))
      [] OTHER -> c

Special(c) ==
    CASE c.mode = "level" /\ c.level = "none" -> Off
      [] c.mode = "level" /\ c.level = "auto" -> Auto
      [] c.mode = "budget" /\ c.budget = 0 -> Off
      [] OTHER -> c

CheckedLevel(c, m, clamp) ==
    LET level == IF clamp THEN ClampLevel(c.level, m) ELSE c.level IN
    CASE c.mode # "level" \/ ~HasLevels(m) \/ Supported(c.level, m) -> c
      [] OTHER -> IF Supported(level, m) THEN [c EXCEPT !.level = level] ELSE Rejected

CheckedBudget(c, m, strict) ==
    IF /\ strict /\ c.mode = "budget" /\ (m.min # 0 \/ m.max # 0)
       /\ (c.budget < m.min \/ c.budget > m.max)
    THEN Rejected ELSE c

\* convertAutoToMidRange
Fixed(c, m) ==
    LET mid == (m.min + m.max) \div 2 IN
    CASE c.mode # "auto" \/ m.dynamic -> c
      [] c.mode = "auto" /\ ~m.dynamic /\ HasLevels(m) /\ m.min = 0 /\ m.max = 0 ->
            Config("level", 0, ClampLevel("medium", m))
      [] OTHER -> CASE mid > 0 -> Config("budget", mid, "")
                    [] mid <= 0 /\ m.zero -> Off
                    [] OTHER -> Config("budget", m.min, "")

Ranged(c, m, to) ==
    IF c.mode = "none" /\ to = "claude" THEN Off
    ELSE LET d == IF c.mode = "level" THEN c ELSE [c EXCEPT !.budget = ClampBudget(@, m)]
             stuck == ~m.zero /\ ~Supported("none", m)
         IN IF d.mode = "none" /\ HasLevels(m) /\ (d.budget > 0 \/ stuck)
            THEN [d EXCEPT !.level = m.levels[1]] ELSE d

\* ValidateConfig in two steps: to the model's form and levels, then into its range.
Mismatch(r) == ~SameFamily(r.from, r.model.type) \/ ~SameFamily(r.model.to, r.model.type)
Formed(c, r) ==
    LET clamp == HasLevels(r.model) /\ (~SameFamily(r.from, r.model.to) \/ Mismatch(r))
        converted == Converted(c, r.model)
    IN IF converted = Rejected THEN Rejected ELSE CheckedLevel(Special(converted), r.model, clamp)
Validated(c, r, derived) ==
    LET strict == ~HasSuffix(r) /\ SameFamily(r.from, r.model.to) /\ ~Mismatch(r)
        checked == CheckedBudget(c, r.model, strict /\ ~derived)
    IN IF checked = Rejected THEN Rejected ELSE Ranged(Fixed(checked, r.model), r.model, r.model.to)

-----------------------------------------------------------------------------
(* The appliers. *)
Disabled(b) == [b EXCEPT !.type = "disabled", !.budget = Absent, !.effort = ""]
Enabled(b, budget) == [b EXCEPT !.type = "enabled", !.budget = budget, !.effort = ""]
Adaptive(b, effort) == [b EXCEPT !.type = "adaptive", !.budget = Absent, !.effort = effort]

NormalizedToMost(b, m) ==  \* mutant of Normalized: a budget of max_tokens is left
    LET default == b.max = Absent /\ m.limit > 0
        most == IF b.max # Absent THEN b.max ELSE m.limit
        adjusted == IF most > 0 /\ b.budget > most THEN most - 1 ELSE b.budget
        c == IF default THEN [b EXCEPT !.max = m.limit] ELSE b
    IN CASE b.budget <= 0 -> b
         [] b.budget > 0 /\ m.min > 0 /\ adjusted > 0 /\ adjusted < m.min -> c
         [] OTHER -> [c EXCEPT !.budget = adjusted]

\* normalizeClaudeBudget: below max_tokens, or the model's limit that is sent for
\* it, unless that is below the minimum.
Normalized(b, m) ==
    LET default == b.max = Absent /\ m.limit > 0
        most == IF b.max # Absent THEN b.max ELSE m.limit
        adjusted == IF most > 0 /\ b.budget >= most THEN most - 1 ELSE b.budget
        c == IF default THEN [b EXCEPT !.max = m.limit] ELSE b
    IN CASE b.budget <= 0 -> b
         [] b.budget > 0 /\ m.min > 0 /\ adjusted > 0 /\ adjusted < m.min -> c
         [] OTHER -> [c EXCEPT !.budget = adjusted]

ApplyClaude(b, c, m) ==
    LET budget == IF c.mode = "level" THEN LevelToBudget[c.level] ELSE c.budget IN
    CASE c.mode = "none" -> Disabled(b)
      [] c.mode = "level" /\ HasLevels(m) -> Adaptive(b, c.level)
      [] c.mode = "level" /\ ~HasLevels(m) /\ c.level \notin DOMAIN LevelToBudget -> b
      [] c.mode = "auto" -> IF HasLevels(m) THEN Adaptive(b, "") ELSE Enabled(b, Absent)
      [] OTHER -> IF budget = 0 THEN Disabled(b) ELSE Normalized(Enabled(b, budget), m)

ApplyOpenAI(b, c, m) ==
    LET none == IF c.budget = 0 /\ (m.zero \/ Supported("none", m)) THEN <<"none">> ELSE <<>>
        efforts == none \o (IF c.level = "" THEN <<>> ELSE <<c.level>>) \o m.levels
    IN CASE c.mode = "level" -> [b EXCEPT !.reasoning = c.level]
         [] c.mode = "none" /\ efforts # <<>> -> [b EXCEPT !.reasoning = efforts[1]]
         [] OTHER -> b

\* For models of the configuration, which the upstream is left to judge.
ApplyCompatibleClaude(b, c) ==
    CASE c.mode = "none" -> Disabled(b)
      [] c.mode = "auto" -> Enabled(b, Absent)
      [] c.mode = "level" -> Adaptive(b, c.level)
      [] OTHER -> Enabled(b, c.budget)
ApplyCompatibleOpenAI(b, c) ==
    LET effort == CASE c.mode = "none" -> IF c.level = "" THEN "none" ELSE c.level
                    [] c.mode = "level" -> c.level
                    [] c.mode = "auto" -> "auto"
                    [] OTHER -> BudgetToLevel(c.budget)
    IN IF effort = "" THEN b ELSE [b EXCEPT !.reasoning = effort]

-----------------------------------------------------------------------------
(* ApplyThinking and applyUserDefinedModel. *)
Asked(r, b) ==
    LET m == r.model own == Extract(b, r.from) IN
    CASE HasSuffix(r) -> SuffixConfig(r.suffix)
      [] ~HasSuffix(r) /\ m.user /\ Found(own) -> own
      [] OTHER -> Extract(b, m.to)

Stripped(b, to) ==
    IF to = "claude" THEN [b EXCEPT !.type = "", !.budget = Absent, !.effort = ""]
    ELSE [b EXCEPT !.reasoning = ""]

\* What is not validated: a model that does not think loses its settings, and one of
\* the configuration is left to the upstream.
Judged(x) == x.request.model.supports /\ ~x.request.model.user /\ x.found
Applied(x) ==
    LET m == x.request.model c == x.config IN
    CASE ~m.user /\ ~m.supports ->
            IF Found(Extract(x.body, m.to)) THEN Stripped(x.body, m.to) ELSE x.body
      [] m.user /\ x.found ->
            IF m.to = "claude" THEN ApplyCompatibleClaude(x.body, c) ELSE ApplyCompatibleOpenAI(x.body, c)
      [] Judged(x) /\ c # Rejected ->
            IF m.to = "claude" THEN ApplyClaude(x.body, c, m) ELSE ApplyOpenAI(x.body, c, m)
      [] OTHER -> x.body

\* The Claude executor adds a limit where there is none, and takes thinking back
\* when a tool has to be used.
DefaultMax == 1024
Limited(b, m) ==
    IF b.max # Absent THEN b ELSE [b EXCEPT !.max = IF m.limit > 0 THEN m.limit ELSE DefaultMax]
Forced(b) == Stripped(b, "claude")
Prepared(x) ==
    LET limited == Limited(x.body, x.request.model) IN
    CASE x.request.model.to # "claude" -> x.body
      [] x.request.model.to = "claude" /\ x.request.forced -> Forced(limited)
      [] OTHER -> limited

-----------------------------------------------------------------------------
(* Requests. *)
ClaudeBodies ==
    {Body(type, Absent, "", max, "") :
        type \in {"", "disabled", "enabled", "adaptive"}, max \in Limits \cup {Absent}}
    \cup {Body("enabled", budget, "", max, "") : budget \in Budgets, max \in Limits \cup {Absent}}
    \cup {Body("adaptive", Absent, effort, max, "") : effort \in Efforts, max \in Limits}
OpenAIBodies == {Body("", Absent, "", max, e) : e \in Efforts \cup {""}, max \in Limits \cup {Absent}}

NoSuffix == [is |-> "absent"]
NameSuffixes ==
    {NoSuffix} \cup {[is |-> "level", level |-> e] : e \in Efforts}
    \cup {[is |-> "number", number |-> n] : n \in Budgets}

Request(from, m, suffix, body, forced) ==
    [from |-> from, model |-> m, suffix |-> suffix, body |-> body, forced |-> forced]
NoRequest == [on |-> FALSE]
Taken(r) ==
    [on |-> TRUE, request |-> r, body |-> Translated(r), config |-> NoConfig,
     found |-> FALSE, derived |-> FALSE, failed |-> FALSE]

\* The requests one is compared with: one with another effort, or with nothing but
\* the suffix.
Twins(r) ==
    CASE HasSuffix(r) -> {[r EXCEPT !.body = Body("", Absent, "", r.body.max, "")]}
      [] ~HasSuffix(r) /\ LevelIndex(r.body.reasoning) > 0 ->
            {[r EXCEPT !.body.reasoning = l] : l \in Range(LevelOrder)}
      [] OTHER -> {r}

Init == main = NoRequest /\ twin = NoRequest /\ stage = "none"

Send(from, m, suffix, body) ==
    /\ stage' = "translated"
    /\ \E forced \in IF m.to = "claude" THEN BOOLEAN ELSE {FALSE} :
       \E r \in {Request(from, m, suffix, body, forced)} : \E t \in Twins(r) :
          main' = Taken(r) /\ twin' = Taken(t)

Ask(x) == [x EXCEPT !.config = Asked(x.request, x.body)]
Note(x) == [x EXCEPT !.found = Found(x.config)]
Form(x) ==
    IF ~Judged(x) THEN x
    ELSE [x EXCEPT !.config = Formed(@, x.request),
                   !.derived = x.config.mode = "level" /\ Converted(x.config, x.request.model).mode = "budget"]
Validate(x) ==
    IF ~Judged(x) \/ x.config = Rejected THEN x
    ELSE [x EXCEPT !.config = Validated(@, x.request, x.derived)]
Apply(x) == [x EXCEPT !.body = Applied(x), !.failed = Judged(x) /\ x.config = Rejected]
Finish(x) == [x EXCEPT !.body = Prepared(x)]

Step(from, to) == stage = from /\ stage' = to
Next ==
    \/ stage = "none" /\ \E m \in Models, suffix \in NameSuffixes :
          \/ \E body \in ClaudeBodies : Send("claude", m, suffix, body)
          \/ \E from \in {"openai", "openai-response"}, body \in OpenAIBodies :
                Send(from, m, suffix, body)
    \/ Step("translated", "asked") /\ main' = Note(Ask(main)) /\ twin' = Note(Ask(twin))
    \/ Step("asked", "formed") /\ main' = Form(main) /\ twin' = Form(twin)
    \/ Step("formed", "validated") /\ main' = Validate(main) /\ twin' = Validate(twin)
    \/ Step("validated", "applied") /\ main' = Apply(main) /\ twin' = Apply(twin)
    \/ Step("applied", "sent") /\ main' = Finish(main) /\ twin' = Finish(twin)

Spec == Init /\ [][Next]_vars

-----------------------------------------------------------------------------
(* What is sent is within what the model supports and the upstream takes,   *)
(* whatever the client asked for, in whatever form: budgets in the range    *)
(* and below max_tokens, efforts among the levels, and no thinking with a   *)
(* tool that has to be used.                                                *)
Sent == stage = "sent" /\ ~main.failed
Model == main.request.model

ClaudeIsAccepted ==
    Sent /\ Judged(main) /\ Model.to = "claude" =>
        /\ main.body.type = "enabled" /\ main.body.budget # Absent =>
              /\ main.body.max # Absent
              /\ main.body.max > Model.min => main.body.budget < main.body.max
              /\ Model.max > 0 => main.body.budget \in Model.min..Model.max
        /\ main.body.type = "adaptive" => HasLevels(Model)
        /\ main.body.effort # "" => main.body.type = "adaptive" /\ Supported(main.body.effort, Model)
        /\ main.request.forced => main.body.type = "" /\ main.body.effort = ""

LevelsOnly(m) == HasLevels(m) /\ ~HasBudget(m) /\ ~m.dynamic
OpenAIIsAccepted ==
    Sent /\ Judged(main) /\ Model.to = "openai" /\ LevelsOnly(Model) =>
        main.body.reasoning \in Range(Model.levels) \cup (IF Model.zero THEN {"none"} ELSE {})

\* The suffix decides, whatever the body asks for: unless nothing is written,
\* as for a budget or an automatic setting of an OpenAI model.
SuffixDecides ==
    Sent /\ Judged(main) /\ HasSuffix(main.request) /\ (Model.to = "claude" \/ LevelsOnly(Model)) =>
        main.body = twin.body

\* Who asks for more effort gets no less of it.
Amount(b) ==
    CASE b.type = "adaptive" -> LevelIndex(b.effort)
      [] b.type = "enabled" -> b.budget
      [] OTHER -> LevelIndex(b.reasoning)
Effort(x) == LevelIndex(x.request.body.reasoning)
MoreIsMore ==
    /\ Sent /\ Judged(main) /\ ~twin.failed /\ main.request.from # "claude"
    /\ ~HasSuffix(main.request) /\ Effort(main) > 0 /\ Effort(twin) > Effort(main)
    => Amount(main.body) <= Amount(twin.body)

ThinkingIsAccepted ==
    /\ ClaudeIsAccepted /\ OpenAIIsAccepted /\ SuffixDecides /\ MoreIsMore
=============================================================================
