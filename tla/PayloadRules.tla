---------------------------- MODULE PayloadRules ----------------------------
(***************************************************************************)
(* The rules of the configuration about the body of an upstream request    *)
(* (internal/runtime/executor/helps/payload_helpers.go).  Default rules    *)
(* write what the client left out, override rules what they please, and    *)
(* filter rules remove.  Raw rules follow the others of their kind and do  *)
(* as they do: a phase stands for both.  Before, the tool that generates   *)
(* images is taken out.                                                    *)
(***************************************************************************)
EXTENDS Integers, Sequences, SequencesExt, FiniteSets, TLC

CONSTANTS
    Rules,    \* [phase, rule]: rules that may be configured
    Bodies,   \* bodies: fields by path, tools, and whether the image tool is chosen
    Clients,  \* [mode, images, model, base, suffix, from, to, headers]: the mode of
              \* disable-image-generation, how the request came and where it goes
    Prepared, \* fields that the executor itself may have put into the body
    MaxRules  \* bound: rules of a configuration

VARIABLES
    rules,    \* the rules configured, by phase
    client,   \* how the request came
    source,   \* originalTranslated: the client's body
    given,    \* history: the body as the executor has prepared it
    out,      \* the body to be sent
    phase,
    index,    \* the rule in turn
    left,     \* its parameters still to apply
    applied,  \* appliedDefaults
    matched   \* history: the rules that applied, in order

vars == <<rules, client, source, given, out, phase, index, left, applied, matched>>

Phases == <<"default", "override", "filter">>
Object == "object"
Absent == "absent"

\* A parameter names a field by its path, or tools whose type a query accepts: all of
\* them (#(...)#) or the first (#(...)).  Where it is written, or compared, the path
\* goes on to the mark of the tool; a filter ends at the tool itself.
Field(path)        == [path |-> path, query |-> {}, all |-> FALSE]
IsField(place)     == place.query = {}

-----------------------------------------------------------------------------
(* Bodies.  A slot is a path with its queries resolved: at is the position  *)
(* of a tool, or 0.  A field below another makes that one an object.        *)
Below(body, path) == {p \in DOMAIN body.fields : IsPrefix(path, p)}
Above(path) == {SubSeq(path, 1, n) : n \in 1 .. Len(path) - 1}

\* A query is a disjunction: the types it accepts.
Accepts(place, tool) == tool.type \in place.query

\* resolvePayloadRulePaths
Resolve(body, place) ==
    LET hits == SelectSeq([i \in DOMAIN body.tools |-> i], LAMBDA i : Accepts(place, body.tools[i]))
        chosen == IF place.all \/ hits = <<>> THEN hits ELSE <<hits[1]>>
    IN IF IsField(place) THEN <<[path |-> place.path, at |-> 0]>>
       ELSE [k \in DOMAIN chosen |-> [path |-> <<"tools">>, at |-> chosen[k]]]

ValueAt(body, slot) ==
    IF slot.at = 0
    THEN IF slot.path \in DOMAIN body.fields THEN body.fields[slot.path] ELSE Absent
    ELSE IF slot.at \in DOMAIN body.tools THEN body.tools[slot.at].mark ELSE Absent

SetAt(body, slot, value) ==
    IF slot.at # 0 THEN [body EXCEPT !.tools[slot.at].mark = value]
    ELSE [body EXCEPT !.fields = [a \in Above(slot.path) |-> Object] @@ (slot.path :> value)
                                 @@ [p \in DOMAIN @ \ Below(body, slot.path) |-> @[p]]]

DeleteAt(body, slot) ==
    IF slot.at # 0 THEN [body EXCEPT !.tools = RemoveAt(@, slot.at)]
    ELSE [body EXCEPT !.fields = [p \in DOMAIN @ \ Below(body, slot.path) |-> @[p]]]

\* From the last to the first, for a deletion moves the tools behind it.
DeleteAll(body, slots) == FoldRight(LAMBDA slot, b : DeleteAt(b, slot), slots, body)

-----------------------------------------------------------------------------
(* shouldStripImageGeneration, and the removal of the tool and its choice. *)
Strips == client.mode = "all" \/ (client.mode = "chat" /\ ~client.images)
Stripped(body) ==
    [body EXCEPT !.tools = SelectSeq(@, LAMBDA t : t.type # "image"), !.chosen = FALSE]

\* payloadModelCandidates: the upstream model, and the one the client asked for.
Candidates == {<<client.model>>, <<client.base>>} \cup (IF client.suffix THEN {<<client.base, "suffix">>} ELSE {})

\* Of a place with a query, any of the values it resolves to will do.
Found(body, place) ==
    {ValueAt(body, slot) : slot \in ToSet(Resolve(body, place))} \ {Absent}

\* payloadModelRuleConditionsMatch: a condition is about the body as the rules before
\* have left it.
Holds(entry, body) ==
    /\ \A c \in entry.match    : c.value \in Found(body, c.place)
    /\ \A c \in entry.notMatch : c.value \notin Found(body, c.place)
    /\ \A p \in entry.exist    : Found(body, p) # {}
    /\ \A p \in entry.notExist : Found(body, p) = {}

\* A pattern, with its wildcards, stands for the set of what it fits.
Fits(pattern, name)   == name \in pattern
ComesFrom(protocol)   == protocol \in {"", client.from}
GoesTo(protocol)      == protocol \in {"", client.to}
HeadersMatch(demands) == \A pattern \in demands : \E h \in client.headers : Fits(pattern, h)

\* payloadModelRulesMatch: one of the rule's entries, for one of the names.
Matches(rule, body) ==
    \E entry \in rule.models, name \in Candidates :
        /\ GoesTo(entry.to) /\ ComesFrom(entry.from) /\ HeadersMatch(entry.headers)
        /\ Fits(entry.name, name)
        /\ Holds(entry, body)

Init ==
    /\ client \in Clients /\ source \in Bodies
    /\ \E fields \in Prepared : given = [source EXCEPT !.fields = @ @@ fields]
    /\ out = given
    /\ rules = [p \in ToSet(Phases) |-> <<>>]
    /\ phase = "configure" /\ index = 0 /\ left = <<>> /\ applied = {} /\ matched = <<>>

\* The rules are those of the configuration in force, at most MaxRules of them.
Configure(r) ==
    /\ phase = "configure"
    /\ Len(rules["default"]) + Len(rules["override"]) + Len(rules["filter"]) < MaxRules
    /\ rules' = [rules EXCEPT ![r.phase] = Append(@, r.rule)]
    /\ UNCHANGED <<client, source, given, out, phase, index, left, applied, matched>>

Start ==
    /\ phase = "configure" /\ phase' = Phases[1]
    /\ out' = IF Strips THEN Stripped(out) ELSE out
    /\ UNCHANGED <<rules, client, source, given, index, left, applied, matched>>

\* The next rule, if it matches.  The parameters of default and override rules are a
\* Go map and come in any order; those of a filter are a list.
TakeRule ==
    /\ phase \in ToSet(Phases) /\ left = <<>> /\ index < Len(rules[phase])
    /\ index' = index + 1
    /\ LET rule == rules[phase][index'] IN
       IF Matches(rule, out)
       THEN /\ left' \in IF phase = "filter" THEN {rule.params} ELSE SetToSeqs(ToSet(rule.params))
            /\ matched' = Append(matched, [phase |-> phase, params |-> rule.params])
       ELSE UNCHANGED <<left, matched>>
    /\ UNCHANGED <<rules, client, source, given, out, phase, applied>>

NextPhase ==
    /\ phase \in ToSet(Phases) /\ left = <<>> /\ index = Len(rules[phase])
    /\ index' = 0
    /\ phase' = CASE phase = "default" -> "override" [] phase = "override" -> "filter"
                  [] phase = "filter" -> "done"
    /\ UNCHANGED <<rules, client, source, given, out, left, applied, matched>>

\* A default is not written where the client's body has something at the slot, nor
\* where an earlier default was.
Wanted(slots) ==
    SelectSeq(slots, LAMBDA s : ValueAt(source, s) = Absent /\ s \notin applied)

SetAll(body, slots, value) == FoldLeft(LAMBDA b, s : SetAt(b, s, value), body, slots)

Apply ==
    /\ left # <<>> /\ left' = Tail(left)
    /\ LET slots == Resolve(out, left[1].place) IN
       \/ /\ phase = "default"
          /\ out' = SetAll(out, Wanted(slots), left[1].value)
          /\ applied' = applied \cup ToSet(Wanted(slots))
       \/ /\ phase = "override"
          /\ out' = SetAll(out, slots, left[1].value) /\ UNCHANGED applied
       \/ /\ phase = "filter"
          /\ out' = DeleteAll(out, slots) /\ UNCHANGED applied
    /\ UNCHANGED <<rules, client, source, given, phase, index, matched>>

Next ==
    \/ \E r \in Rules : Configure(r)
    \/ Start \/ TakeRule \/ NextPhase \/ Apply

Spec == Init /\ [][Next]_vars

-----------------------------------------------------------------------------
(* Rules whose places lie apart: none is above another or above or below a  *)
(* value of the body, an object above it excepted.  Where they do not,    *)
(* the order of a Go map decides, a default above another overwrites it,    *)
(* and one below a value of the client replaces that value.                 *)
Writes(kind) == FlattenSeq([i \in DOMAIN matched |->
                    IF matched[i].phase = kind THEN matched[i].params ELSE <<>>])
Places == UNION {{p.place : p \in ToSet(m.params)} : m \in ToSet(matched)}
RulePaths == {p.path : p \in {q \in Places : IsField(q)}}
Objects == {p \in DOMAIN given.fields : given.fields[p] = Object}
Apart ==
    \A p \in RulePaths, q \in RulePaths \cup DOMAIN given.fields :
        /\ IsPrefix(p, q) => p = q /\ q \notin Objects
        /\ IsPrefix(q, p) => p = q \/ q \in Objects

\* What the writes make of a value: the last override, else what the client sent, else
\* the first default, else what the executor put there.
Expected(selected, sent, prepared) ==
    LET overrides == SelectSeq(Writes("override"), LAMBDA p : p.place \in selected)
        defaults  == SelectSeq(Writes("default"), LAMBDA p : p.place \in selected)
    IN CASE overrides # <<>> -> overrides[Len(overrides)].value
         [] sent # Absent -> sent
         [] defaults # <<>> -> defaults[1].value
         [] OTHER -> prepared

\* Every field is what the rules say, gone where a filter names it, and as the client
\* sent it where no rule does.
FieldsFollow ==
    \A path \in RulePaths \cup (DOMAIN given.fields \ Objects) :
        LET slot == [path |-> path, at |-> 0] IN
        ValueAt(out, slot) =
            IF \E p \in ToSet(Writes("filter")) : p.place = Field(path) THEN Absent
            ELSE Expected({Field(path)}, ValueAt(source, slot), ValueAt(given, slot))

\* The tools that are left are those the filters do not select, one after the other, and
\* each is marked as the rules say.  A default looks at the client's tools by the
\* position in a body the image tool may be gone from: only where none was taken out
\* does it spare the marks of the client.
Taken(tools, place) ==
    LET hits == SelectSeq(tools, LAMBDA t : Accepts(place, t))
    IN IF place.all THEN ToSet(hits) ELSE IF hits = <<>> THEN {} ELSE {hits[1]}
ToolsFollow ==
    LET start == IF Strips THEN Stripped(given).tools ELSE given.tools
        filters == SelectSeq(Writes("filter"), LAMBDA p : ~IsField(p.place))
        kept == FoldLeft(LAMBDA tools, p : SelectSeq(tools, LAMBDA t : t \notin Taken(tools, p.place)),
                         start, filters)
        Marked(t) == [t EXCEPT !.mark =
            Expected({p \in Places : ~IsField(p) /\ t \in Taken(start, p)}, t.mark, Absent)]
    IN /\ [i \in DOMAIN out.tools |-> out.tools[i].n] = [i \in DOMAIN kept |-> kept[i].n]
       /\ start = source.tools => out.tools = [i \in DOMAIN kept |-> Marked(kept[i])]

\* The body that is sent is the client's, changed by the rules and nothing else.
RulesAreFollowed == phase = "done" => (Apart => FieldsFollow) /\ ToolsFollow
=============================================================================
