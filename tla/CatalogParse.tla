---------------------------- MODULE CatalogParse ----------------------------
(***************************************************************************)
(* What the handlers of indices, templates, aliases and bulks make of a    *)
(* request before they touch the store.                                    *)
(*                                                                         *)
(* The name of an index or of an alias is a sequence of characters, also   *)
(* where it is a key.  A body is blank, not JSON, or a JSON value; a line  *)
(* of a bulk is a body.                                                    *)
(***************************************************************************)
EXTENDS Mapping
LOCAL INSTANCE Integers
LOCAL INSTANCE Sequences
LOCAL INSTANCE FiniteSets
LOCAL INSTANCE SequencesExt

Blank == [text |-> "blank"]
NotJson == [text |-> "not json"]
Body(v) == [text |-> "json", json |-> v]
IsJson(b) == b.text = "json"

Default(v, k, d) == IF Has(v, k) THEN Get(v, k) ELSE d
Empty == Obj(NoKeys)

-----------------------------------------------------------------------------
(* Names.                                                                  *)

IndexForbidden == {":", "\"", "*", "+", "/", "\\", "|", "?", "#", ">", "<", ",", " ", "\t"}
TemplateForbidden == {"\"", "*", "/", "\\", "|", "?", "#", ">", "<", ",", " ", "\t"}
Uppercase == {"A", "B", "C", "D", "E", "F", "G", "H", "I", "J", "K", "L", "M", "N", "O", "P", "Q",
              "R", "S", "T", "U", "V", "W", "X", "Y", "Z"}

Trimmed(n) ==
    LET solid == {i \in DOMAIN n : n[i] # " "}
    IN  IF solid = {} THEN <<>>
        ELSE SubSeq(n, CHOOSE i \in solid : \A j \in solid : i <= j, CHOOSE i \in solid : \A j \in solid : i >= j)

\* The blanks around a name are not looked at.
validate_index_name(n) ==
    LET t == Trimmed(n)
    IN  /\ t # <<>>
        /\ t[1] \notin {"_", "-"}
        /\ \A i \in DOMAIN t : t[i] \notin IndexForbidden \cup Uppercase

validate_template_name(n) == Trimmed(n) # <<>> /\ \A i \in DOMAIN n : n[i] \notin TemplateForbidden

-----------------------------------------------------------------------------
(* Index and template bodies.                                              *)

parse_properties_object(v) == Checked(is_object(v), v)

\* The properties of a mappings body, also under "_doc".
PropertiesOf(mappings) ==
    IF ~is_object(mappings) THEN Invalid
    ELSE IF Has(mappings, "properties") THEN parse_properties_object(Get(mappings, "properties"))
    ELSE IF Has(mappings, "_doc") /\ is_object(Get(mappings, "_doc"))
    THEN parse_properties_object(Default(Get(mappings, "_doc"), "properties", Empty))
    ELSE Checked(mappings = Empty, Empty)

ParsedMapping(mappings) ==
    LET p == PropertiesOf(mappings)
    IN  IF ~IsOk(p) THEN p ELSE from_properties_value(p.ok)

\* The alias definitions of an index or of a template.
ParsedAliases(v) ==
    Checked(is_object(v) /\ \A a \in DOMAIN v.obj : Trimmed(a) # <<>> /\ is_object(v.obj[a]), v.obj)

\* The settings of an index also give its analyzers.
parse_create_index_request(b) ==
    LET v        == b.json
        settings == Default(v, "settings", Empty)
        aliases  == ParsedAliases(Default(v, "aliases", Empty))
        mapping  == ParsedMapping(Default(v, "mappings", Empty))
        analysis == from_index_settings_value(settings)
    IN  IF b = Blank THEN Ok([mapping |-> EmptyMapping, settings |-> Empty, aliases |-> NoKeys])
        ELSE IF ~IsJson(b) \/ ~is_object(v) THEN Invalid
        ELSE IF ~(DOMAIN v.obj \subseteq {"settings", "mappings", "aliases"}) \/ ~is_object(settings) THEN Invalid
        ELSE IF ~IsOk(aliases) \/ ~IsOk(mapping) \/ ~IsOk(analysis) THEN Invalid
        ELSE Ok([mapping |-> [mapping.ok EXCEPT !.analysis = analysis.ok], settings |-> settings, aliases |-> aliases.ok])

\* parse_template_object, _mapping, _settings and _aliases.  The settings of a
\* template give no analyzers.
ParsedTemplate(v) ==
    LET t        == Default(v, "template", Empty)
        settings == Default(t, "settings", Empty)
        aliases  == ParsedAliases(Default(t, "aliases", Empty))
        mapping  == ParsedMapping(Default(t, "mappings", Empty))
    IN  IF ~is_object(t) \/ ~is_object(settings) \/ ~IsOk(aliases) \/ ~IsOk(mapping) THEN Invalid
        ELSE Ok([mapping |-> mapping.ok, settings |-> settings, aliases |-> aliases.ok])

parse_component_template_request(b) == IF ~IsJson(b) \/ ~is_object(b.json) THEN Invalid ELSE ParsedTemplate(b.json)

\* A list of names none of which is blank.
NameList(v) ==
    Checked(is_array(v) /\ \A i \in DOMAIN v.arr : is_string(v.arr[i]) /\ Trimmed(v.arr[i].str) # <<>>,
            [i \in DOMAIN v.arr |-> v.arr[i].str])

parse_index_patterns(v) == IF Has(v, "index_patterns") /\ Get(v, "index_patterns") # Arr(<<>>)
                           THEN NameList(Get(v, "index_patterns")) ELSE Invalid
parse_composed_of(v) == NameList(Default(v, "composed_of", Arr(<<>>)))
parse_priority(v) == LET p == Default(v, "priority", Num(0)) IN IF is_u64(p) THEN Ok(p.num) ELSE Invalid

parse_index_template_request(b) ==
    LET patterns    == parse_index_patterns(b.json)
        composed_of == parse_composed_of(b.json)
        priority    == parse_priority(b.json)
        template    == ParsedTemplate(b.json)
    IN  IF ~IsJson(b) \/ ~is_object(b.json) THEN Invalid
        ELSE IF ~IsOk(patterns) \/ ~IsOk(composed_of) \/ ~IsOk(priority) \/ ~IsOk(template) THEN Invalid
        ELSE Ok([index_patterns |-> patterns.ok, composed_of |-> composed_of.ok, priority |-> priority.ok,
                 mapping |-> template.ok.mapping, settings |-> template.ok.settings, aliases |-> template.ok.aliases])

\* The properties are the body itself when it has no key of that name.
parse_put_mapping_request(b) ==
    IF b = Blank THEN Ok(Empty)
    ELSE IF ~IsJson(b) \/ ~is_object(b.json) THEN Invalid
    ELSE IF Has(b.json, "properties") THEN parse_properties_object(Get(b.json, "properties")) ELSE Ok(b.json)

parse_document_source(b) == IF IsJson(b) /\ is_object(b.json) THEN Ok(b.json) ELSE Invalid

-----------------------------------------------------------------------------
(* Alias actions.                                                          *)

NamedIn(v, k) == Has(v, k) /\ is_string(Get(v, k)) /\ Get(v, k).str # <<>>

\* The definition is what the action says beside the names.
alias_definition_from_action(v) == Obj([k \in DOMAIN v.obj \ {"index", "alias"} |-> v.obj[k]])

parse_alias_action(v) ==
    LET op == TheKey(v) inner == Get(v, op)
    IN  IF ~OneKey(v) \/ ~is_object(inner) THEN Invalid
        ELSE IF ~NamedIn(inner, "index") \/ ~NamedIn(inner, "alias") THEN Invalid
        ELSE Checked(op \in {"add", "remove"} /\ validate_index_name(Get(inner, "index").str),
                     [op |-> op, index |-> Get(inner, "index").str, alias |-> Get(inner, "alias").str,
                      definition |-> alias_definition_from_action(inner)])

parse_aliases_request(b) ==
    IF ~IsJson(b) \/ ~Has(b.json, "actions") THEN Invalid
    ELSE LET actions == Get(b.json, "actions")
         IN  IF ~is_array(actions) \/ actions.arr = <<>> THEN Invalid
             ELSE Collect([i \in DOMAIN actions.arr |-> parse_alias_action(actions.arr[i])])

-----------------------------------------------------------------------------
(* A bulk: action lines, most of them followed by a source line.           *)

TakesSource == {"index", "create", "update"}

\* optional_string_field, of "_index" and of "_id".
parse_metadata(v) ==
    LET ok(k) == Has(v, k) => is_string(Get(v, k)) /\ Get(v, k).str # <<>>
        opt(k) == IF Has(v, k) THEN Some(Get(v, k).str) ELSE None
    IN  Checked(is_object(v) /\ ok("_index") /\ ok("_id") /\ (Has(v, "_index") => validate_index_name(Get(v, "_index").str)),
                [index |-> opt("_index"), id |-> opt("_id")])

\* The action and its metadata; a mistake in the metadata leaves the action
\* known, any other one does not.
parse_action_line(line) ==
    IF ~IsJson(line) \/ ~OneKey(line.json) THEN [action |-> None, metadata |-> Invalid]
    ELSE [action |-> Some(TheKey(line.json)), metadata |-> parse_metadata(Get(line.json, TheKey(line.json)))]

parse_required_source(lines, at) == IF at > Len(lines) THEN Invalid ELSE parse_document_source(lines[at])

\* Mutant: the source of an action with broken metadata is not skipped.
SkipNothing(line) ==
    LET a == parse_action_line(line) IN IF a.action # None /\ IsOk(a.metadata) /\ a.action[1] \in TakesSource THEN 2 ELSE 1

\* The lines an action takes up.
LinesOf(line) == LET a == parse_action_line(line) IN IF a.action # None /\ a.action[1] \in TakesSource THEN 2 ELSE 1

\* One item: an operation, or the mistake; both with what is known of the target.
parse_bulk_item(lines, at) ==
    LET a == parse_action_line(lines[at])
        kind == IF a.action # None /\ a.action[1] \in TakesSource \cup {"delete"} THEN a.action[1] ELSE "index"
        source == IF kind = "delete" THEN Ok(Empty) ELSE parse_required_source(lines, at + 1)
        known == IF IsOk(a.metadata) THEN a.metadata.ok ELSE [index |-> None, id |-> None]
        fine  == IsOk(a.metadata) /\ a.action[1] \in TakesSource \cup {"delete"} /\ IsOk(source)
    IN  [kind |-> IF IsOk(a.metadata) THEN kind ELSE "index", index |-> known.index, id |-> known.id, ok |-> fine,
         source |-> IF fine THEN source.ok ELSE Empty]

parse_bulk_ndjson(lines) ==
    LET parsed == FoldLeft(LAMBDA acc, at : IF at < acc.next THEN acc
                                            ELSE [next |-> at + LinesOf(lines[at]),
                                                  items |-> Append(acc.items, parse_bulk_item(lines, at))],
                           [next |-> 1, items |-> <<>>], [i \in DOMAIN lines |-> i])
    IN  parsed.items

\* A bulk without one well-formed operation is refused as a whole.
require_any_valid_operation(items) == items = <<>> \/ \E i \in DOMAIN items : items[i].ok

apply_default_index(item, default) == IF item.ok /\ item.index = None THEN [item EXCEPT !.index = default] ELSE item
=============================================================================
