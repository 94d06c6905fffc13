------------------------------ MODULE Catalog -------------------------------
(***************************************************************************)
(* The store of an AppState: its indices with their mappings, settings and *)
(* documents, the aliases, the component and index templates; and the      *)
(* handlers that change them.  Every action is what a handler does under   *)
(* one lock: a name is resolved or an index looked up under one lock, and  *)
(* written to under a later one, and in between others come first.         *)
(*                                                                         *)
(* The inverted index behind an index is left to InMemoryIndex, the cache  *)
(* to SearchCache.  A store is a record of indices and aliases.            *)
(***************************************************************************)
EXTENDS CatalogParse
LOCAL INSTANCE Integers
LOCAL INSTANCE Sequences
LOCAL INSTANCE FiniteSets
LOCAL INSTANCE Functions
LOCAL INSTANCE SequencesExt
LOCAL INSTANCE TLC

CONSTANTS
    Client,
    Requests,       \* the requests a client may send
    NameLess(_, _), \* the order of names (BTreeMap)
    MaxRequests     \* bound on the requests sent

VARIABLES
    store, component_templates, index_templates,
    pc, req, work,  \* per client: the step it is at, its request, its local values
    sent,
    made,           \* history: what every index was made from
    declared,       \* history: what every index template was composed of
    bulks           \* history: the last bulk of a client, the store after it, the answer

vars == <<store, component_templates, index_templates, pc, req, work, sent, made, declared, bulks>>
templates == <<component_templates, index_templates, declared>>
history == <<made, bulks>>

NoWork == [k |-> 0]
NoEntries == [n \in {} |-> NoWork]

Init ==
    /\ store = [indices |-> NoEntries, aliases |-> NoEntries]
    /\ component_templates = NoEntries /\ index_templates = NoEntries
    /\ pc = [c \in Client |-> "idle"] /\ req = [c \in Client |-> NoWork] /\ work = [c \in Client |-> NoWork]
    /\ sent = 0 /\ made = NoEntries /\ declared = NoEntries /\ bulks = [c \in Client |-> None]

Without(f, x) == Restrict(f, DOMAIN f \ {x})
With(f, x, v) == [y \in DOMAIN f \cup {x} |-> IF y = x THEN v ELSE f[y]]

\* BTreeMap::extend.
Extended(f, g) == [y \in DOMAIN f \cup DOMAIN g |-> IF y \in DOMAIN g THEN g[y] ELSE f[y]]

index_exists(i) == i \in DOMAIN store.indices

-----------------------------------------------------------------------------
(* Aliases, as functions of the store.                                     *)

AliasIn(s, a) == IF a \in DOMAIN s.aliases THEN s.aliases[a] ELSE NoEntries

add_alias_with_definition(s, i, a, definition) ==
    IF i \notin DOMAIN s.indices THEN s
    ELSE [s EXCEPT !.aliases = With(@, a, With(AliasIn(s, a), i, definition))]

\* An alias without an index is dropped.
remove_alias(s, i, a) ==
    LET left == Without(AliasIn(s, a), i)
    IN  [s EXCEPT !.aliases = IF DOMAIN left = {} THEN Without(@, a) ELSE With(@, a, left)]

\* Mutant: the aliases of a deleted index are left alone.
delete_index_only(s, i) == [s EXCEPT !.indices = Without(@, i)]

delete_index(s, i) ==
    LET left(a) == Without(s.aliases[a], i)
        kept    == {a \in DOMAIN s.aliases : DOMAIN left(a) # {}}
    IN  [indices |-> Without(s.indices, i), aliases |-> [a \in kept |-> left(a)]]

\* An index goes before an alias of the same name.
resolve_index(s, n) == IF n \in DOMAIN s.indices THEN {n} ELSE DOMAIN AliasIn(s, n)

\* The index of an alias with one, else the only one that is marked; a name
\* nobody has is the name of an index to be.
resolve_write_target(s, n) ==
    LET entry  == AliasIn(s, n)
        marked == {i \in DOMAIN entry : Has(entry[i], "is_write_index") /\ Get(entry[i], "is_write_index") = Bool(TRUE)}
        only   == IF Cardinality(DOMAIN entry) = 1 THEN DOMAIN entry ELSE marked
    IN  IF n \in DOMAIN s.indices \/ n \notin DOMAIN s.aliases THEN Ok(n)
        ELSE IF Cardinality(only) = 1 THEN Ok(CHOOSE i \in only : TRUE) ELSE Err("no write index")

-----------------------------------------------------------------------------
(* Templates.                                                              *)

merge_mapping_fields(target, source) ==
    [fields |-> Extended(target.fields, source.fields),
     analysis |-> IF source.analysis # NoAnalysis THEN source.analysis ELSE target.analysis]

\* Objects are merged key by key, anything else is replaced.  Settings nest
\* three deep here.
MergeKeys(target, source, merge(_, _)) ==
    Obj([k \in DOMAIN target.obj \cup DOMAIN source.obj |->
            IF k \notin DOMAIN source.obj THEN target.obj[k]
            ELSE IF k \in DOMAIN target.obj /\ is_object(target.obj[k]) /\ is_object(source.obj[k])
            THEN merge(target.obj[k], source.obj[k]) ELSE source.obj[k]])

merge_settings(target, source) ==
    MergeKeys(target, source, LAMBDA t, s : MergeKeys(t, s, LAMBDA u, v : MergeKeys(u, v, LAMBDA x, y : y)))

NoTemplate == [mapping |-> EmptyMapping, settings |-> Empty, aliases |-> NoKeys]

Merged(target, source) ==
    [mapping |-> merge_mapping_fields(target.mapping, source.mapping),
     settings |-> merge_settings(target.settings, source.settings),
     aliases |-> Extended(target.aliases, source.aliases)]

MergedAll(parts) == FoldLeft(Merged, NoTemplate, parts)

\* The components as they are now, then what the template says itself.
snapshot_component_templates(t) ==
    MergedAll([i \in DOMAIN t.composed_of |-> component_templates[t.composed_of[i]]] \o <<t>>)

\* '*' stands for any characters, '?' for one.
index_pattern_matches(pattern, index) ==
    LET m[p \in 0 .. Len(pattern), i \in 0 .. Len(index)] ==
            IF p = 0 THEN i = 0
            ELSE IF pattern[p] = "*" THEN m[p - 1, i] \/ (i > 0 /\ m[p, i - 1])
            ELSE i > 0 /\ m[p - 1, i - 1] /\ pattern[p] \in {"?", index[i]}
    IN  m[Len(pattern), Len(index)]

Matching(all, index) ==
    {n \in DOMAIN all : \E k \in DOMAIN all[n].index_patterns : index_pattern_matches(all[n].index_patterns[k], index)}

\* Least priority first, then by name.
Precedes(all, m, n) ==
    all[m].priority < all[n].priority \/ (all[m].priority = all[n].priority /\ NameLess(m, n))

\* Mutant: in the order of their names alone.
matching_by_name(index) ==
    LET names == Matching(index_templates, index)
    IN  [k \in 1 .. Cardinality(names) |-> CHOOSE n \in names : Cardinality({m \in names : NameLess(m, n)}) = k - 1]

matching_index_templates(index) ==
    LET names == Matching(index_templates, index)
    IN  [k \in 1 .. Cardinality(names) |->
            CHOOSE n \in names : Cardinality({m \in names : Precedes(index_templates, m, n)}) = k - 1]

template_defaults_for_new_index(index) ==
    LET names == matching_index_templates(index) IN MergedAll([k \in DOMAIN names |-> index_templates[names[k]]])

NewIndex(i, explicit) == Merged(template_defaults_for_new_index(i), explicit)

\* What the request says wins over the templates.  The aliases are entered
\* whether or not an index has such a name.
create_index_if_missing(s, i, explicit) ==
    LET new == NewIndex(i, explicit)
        fresh == [mapping |-> new.mapping, settings |-> new.settings, docs |-> NoKeys]
    IN  IF i \in DOMAIN s.indices THEN s
        ELSE [indices |-> With(s.indices, i, fresh),
              aliases |-> [a \in DOMAIN s.aliases \cup DOMAIN new.aliases |->
                              IF a \in DOMAIN new.aliases THEN With(AliasIn(s, a), i, new.aliases[a]) ELSE s.aliases[a]]]

\* upsert_document: the fields a document brings are added to the mapping.
upsert_document(s, i, id, source) ==
    [s EXCEPT !.indices[i].docs = With(@, id, source), !.indices[i].mapping = ensure_fields(@, source.obj)]

index_document(s, i, id, source) == upsert_document(create_index_if_missing(s, i, NoTemplate), i, id, source)

\* What the indices that came to be were made from.
Remember(explicit) ==
    made' = [i \in DOMAIN store'.indices |->
                IF i \in DOMAIN store.indices THEN made[i]
                ELSE [explicit |-> explicit, templates |-> declared,
                      dynamic |-> UNION {DOMAIN store'.indices[i].docs[d].obj : d \in DOMAIN store'.indices[i].docs},
                      fields |-> store'.indices[i].mapping.fields,
                      aliases |-> [a \in {b \in DOMAIN store'.aliases : i \in DOMAIN store'.aliases[b]} |-> store'.aliases[a][i]]]]

-----------------------------------------------------------------------------
(* Steps of a handler.                                                     *)

Goto(c, label, values) == pc' = [pc EXCEPT ![c] = label] /\ work' = [work EXCEPT ![c] = values]

\* The answer is sent: nothing is left of the request.
Done(c) == Goto(c, "idle", NoWork) /\ req' = [req EXCEPT ![c] = NoWork]

\* A request comes in and its handler takes its first step.
Receive(c, op, q) ==
    /\ pc[c] = "idle" /\ q.op = op
    /\ sent < MaxRequests /\ sent' = sent + 1

Refuse(c) == UNCHANGED <<pc, req, work>>
Accept(c, q, label, values) == Goto(c, label, values) /\ req' = [req EXCEPT ![c] = q]

Look == UNCHANGED <<store, templates, history>>
Later == UNCHANGED sent

-----------------------------------------------------------------------------
(* Indices.                                                                *)

CreateIndexCheck(c, q) ==
    /\ Receive(c, "create_index", q)
    /\ \E parsed \in {parse_create_index_request(q.body)} :
           IF ~validate_index_name(q.index) \/ ~IsOk(parsed) \/ index_exists(q.index) THEN Refuse(c)
           ELSE Accept(c, q, "create_index", parsed.ok)
    /\ Look

\* Acknowledged also when the index came to be in between.
CreateIndex(c) ==
    /\ pc[c] = "create_index"
    /\ store' = create_index_if_missing(store, req[c].index, work[c])
    /\ Remember(work[c])
    /\ Done(c) /\ Later /\ UNCHANGED <<templates, bulks>>

DeleteIndexCheck(c, q) ==
    /\ Receive(c, "delete_index", q)
    /\ IF ~validate_index_name(q.index) \/ ~index_exists(q.index) THEN Refuse(c) ELSE Accept(c, q, "delete_index", NoWork)
    /\ Look

DeleteIndex(c) ==
    /\ pc[c] = "delete_index"
    /\ store' = delete_index(store, req[c].index)
    /\ Remember(NoTemplate)
    /\ Done(c) /\ Later /\ UNCHANGED <<templates, bulks>>

\* Mutant: a field may change its type.
merge_any_field_mappings(s, i, fields) == Ok([s EXCEPT !.indices[i].mapping.fields = Extended(@, fields)])

\* All fields or none; the mapping they are merged into is read under the same lock.
merge_field_mappings(s, i, fields) ==
    LET old == s.indices[i].mapping.fields
    IN  IF i \notin DOMAIN s.indices THEN Err("missing")
        ELSE IF \E f \in DOMAIN fields \cap DOMAIN old : fields[f].type # old[f].type THEN Err("type")
        ELSE Ok([s EXCEPT !.indices[i].mapping.fields = Extended(@, fields)])

PutMappingResolve(c, q) ==
    LET target == resolve_write_target(store, q.index)
    IN  /\ Receive(c, "put_mapping", q)
        /\ IF ~validate_index_name(q.index) \/ ~IsOk(target) THEN Refuse(c)
           ELSE Accept(c, q, "put_mapping_check", [index |-> target.ok])
        /\ Look

PutMappingCheck(c) ==
    LET properties == parse_put_mapping_request(req[c].body)
        mapping    == from_properties_value(properties.ok)
    IN  /\ pc[c] = "put_mapping_check"
        /\ IF ~index_exists(work[c].index) \/ ~IsOk(properties) THEN Done(c)
           ELSE IF ~IsOk(mapping) THEN Done(c)
           ELSE Goto(c, "put_mapping", [index |-> work[c].index, fields |-> mapping.ok.fields]) /\ UNCHANGED req
        /\ Look /\ Later

PutMapping(c) ==
    LET merged == merge_field_mappings(store, work[c].index, work[c].fields)
    IN  /\ pc[c] = "put_mapping"
        /\ store' = IF IsOk(merged) THEN merged.ok ELSE store
        /\ Done(c) /\ Later /\ UNCHANGED <<templates, history>>

-----------------------------------------------------------------------------
(* Templates: one step each.                                               *)

PutComponentTemplate(c, q) ==
    /\ Receive(c, "put_component", q)
    /\ \E parsed \in {parse_component_template_request(q.body)} :
           component_templates' = IF validate_template_name(q.name) /\ IsOk(parsed)
                                  THEN With(component_templates, q.name, parsed.ok) ELSE component_templates
    /\ Refuse(c) /\ UNCHANGED <<store, index_templates, declared, history>>

DeleteComponentTemplate(c, q) ==
    /\ Receive(c, "delete_component", q)
    /\ component_templates' = Without(component_templates, q.name)
    /\ Refuse(c) /\ UNCHANGED <<store, index_templates, declared, history>>

\* A component that is not there is an error; those that are are merged in now.
PutIndexTemplate(c, q) ==
    /\ Receive(c, "put_template", q)
    /\ \E parsed \in {parse_index_template_request(q.body)} :
        LET t      == parsed.ok
            stored == [index_patterns |-> t.index_patterns, priority |-> t.priority] @@ snapshot_component_templates(t)
            known  == \A i \in DOMAIN t.composed_of : t.composed_of[i] \in DOMAIN component_templates
        IN  IF validate_template_name(q.name) /\ IsOk(parsed) /\ known
            THEN /\ index_templates' = With(index_templates, q.name, stored)
                 /\ declared' = With(declared, q.name, [index_patterns |-> t.index_patterns, priority |-> t.priority,
                                         parts |-> [i \in DOMAIN t.composed_of |-> component_templates[t.composed_of[i]]] \o <<t>>])
            ELSE UNCHANGED <<index_templates, declared>>
    /\ Refuse(c) /\ UNCHANGED <<store, component_templates, history>>

DeleteIndexTemplate(c, q) ==
    /\ Receive(c, "delete_template", q)
    /\ index_templates' = Without(index_templates, q.name)
    /\ declared' = Without(declared, q.name)
    /\ Refuse(c) /\ UNCHANGED <<store, component_templates, history>>

-----------------------------------------------------------------------------
(* Aliases.                                                                *)

\* POST _aliases: the indices to be added are looked up one by one, then the
\* actions are taken one by one.  PUT of one alias is one such action.
UpdateAliases(c, q) ==
    LET parsed == parse_aliases_request(q.body)
    IN  /\ Receive(c, "aliases", q)
        /\ IF ~IsOk(parsed) THEN Refuse(c) ELSE Accept(c, q, "alias_check", [k |-> 1, actions |-> parsed.ok])
        /\ Look

CheckAlias(c) ==
    LET w == work[c] a == w.actions[w.k]
    IN  /\ pc[c] = "alias_check"
        /\ IF a.op = "add" /\ ~index_exists(a.index) THEN Done(c)
           ELSE /\ UNCHANGED req
                /\ IF w.k < Len(w.actions) THEN Goto(c, "alias_check", [w EXCEPT !.k = @ + 1])
                   ELSE Goto(c, "alias", [w EXCEPT !.k = 1])
        /\ Look /\ Later

ApplyAlias(c) ==
    LET w == work[c] a == w.actions[w.k]
    IN  /\ pc[c] = "alias"
        /\ store' = IF a.op = "add" THEN add_alias_with_definition(store, a.index, a.alias, a.definition)
                    ELSE remove_alias(store, a.index, a.alias)
        /\ IF w.k < Len(w.actions) THEN Goto(c, "alias", [w EXCEPT !.k = @ + 1]) /\ UNCHANGED req ELSE Done(c)
        /\ Later /\ UNCHANGED <<templates, history>>

\* PUT and DELETE of one alias of one index, in the path.
IndexAliasCheck(c, q) ==
    /\ Receive(c, "index_alias", q)
    /\ IF ~validate_index_name(q.index) \/ ~index_exists(q.index) THEN Refuse(c)
       ELSE Accept(c, q, "alias", [k |-> 1, actions |-> <<[op |-> q.act, index |-> q.index, alias |-> q.alias,
                                                          definition |-> Empty]>>])
    /\ Look

-----------------------------------------------------------------------------
(* Documents.                                                              *)

DocumentResolve(c, q) ==
    LET target == resolve_write_target(store, q.index)
    IN  /\ Receive(c, "document", q)
        /\ IF \/ ~validate_index_name(q.index) \/ Trimmed(q.id) = <<>>
              \/ ~IsOk(target) \/ ~IsOk(parse_document_source(q.body)) THEN Refuse(c)
           ELSE Accept(c, q, "document", [index |-> target.ok])
        /\ Look

\* The index is made when it is not there, also when it was deleted meanwhile.
WriteDocument(c) ==
    /\ pc[c] = "document"
    /\ store' = index_document(store, work[c].index, req[c].id, parse_document_source(req[c].body).ok)
    /\ Remember(NoTemplate)
    /\ Done(c) /\ Later /\ UNCHANGED <<templates, bulks>>

\* The path may name the index of the actions that name none.
StartBulk(c, q) ==
    LET items == parse_bulk_ndjson(q.lines)
    IN  /\ Receive(c, "bulk", q)
        /\ IF \/ q.index # None /\ ~validate_index_name(q.index[1])
              \/ ~require_any_valid_operation(items) THEN Refuse(c)
           ELSE Accept(c, q, IF items = <<>> THEN "bulk" ELSE "bulk_resolve",
                       [k |-> 1, items |-> [i \in DOMAIN items |-> apply_default_index(items[i], q.index)],
                        targets |-> [i \in DOMAIN items |-> None]])
        /\ Look

\* resolve_bulk_target: an operation needs an id and a target.
ResolveItem(c) ==
    LET w      == work[c]
        item   == w.items[w.k]
        target == resolve_write_target(store, item.index[1])
        found  == IF ~item.ok \/ item.id = None \/ item.index = None THEN None
                  ELSE IF IsOk(target) THEN Some(target.ok) ELSE None
        next   == [w EXCEPT !.k = @ + 1, !.targets[w.k] = found]
    IN  /\ pc[c] = "bulk_resolve"
        /\ Goto(c, IF w.k < Len(w.items) THEN "bulk_resolve" ELSE "bulk", next)
        /\ UNCHANGED req /\ Look /\ Later

\* An update stores its "doc", or all of its source.
BulkSource(item) == IF item.kind = "update" THEN Default(item.source, "doc", item.source) ELSE item.source

\* One write of apply_document_writes: the store after it and its status.
ApplyItem(s, item, i) ==
    LET s1 == create_index_if_missing(s, i, NoTemplate)
        id == item.id[1]
    IN  CASE item.kind \in {"index", "update"} ->
               [store |-> upsert_document(s1, i, id, BulkSource(item)), status |-> IF item.kind = "index" THEN 201 ELSE 200]
          [] item.kind = "create" ->
               IF id \in DOMAIN s1.indices[i].docs THEN [store |-> s1, status |-> 409]
               ELSE [store |-> upsert_document(s1, i, id, item.source), status |-> 201]
          [] item.kind = "delete" ->
               [store |-> IF i \in DOMAIN s.indices THEN [s EXCEPT !.indices[i].docs = Without(@, id)] ELSE s, status |-> 200]

\* All writes under one lock, in order; what was refused before has status 400.
ApplyBulk(c) ==
    LET w    == work[c]
        step(acc, k) == IF w.targets[k] = None THEN [acc EXCEPT !.statuses = Append(@, 400)]
                        ELSE LET r == ApplyItem(acc.store, w.items[k], w.targets[k][1])
                             IN  [store |-> r.store, statuses |-> Append(acc.statuses, r.status)]
        done == FoldLeft(step, [store |-> store, statuses |-> <<>>], [k \in DOMAIN w.items |-> k])
    IN  /\ pc[c] = "bulk"
        /\ store' = done.store
        /\ bulks' = [bulks EXCEPT ![c] = Some([request |-> req[c], targets |-> w.targets,
                                               after |-> done.store, statuses |-> done.statuses])]
        /\ Remember(NoTemplate)
        /\ Done(c) /\ Later /\ UNCHANGED templates

-----------------------------------------------------------------------------
First(c, q) ==
    \/ CreateIndexCheck(c, q) \/ DeleteIndexCheck(c, q) \/ PutMappingResolve(c, q)
    \/ PutComponentTemplate(c, q) \/ DeleteComponentTemplate(c, q)
    \/ PutIndexTemplate(c, q) \/ DeleteIndexTemplate(c, q)
    \/ UpdateAliases(c, q) \/ IndexAliasCheck(c, q) \/ DocumentResolve(c, q) \/ StartBulk(c, q)

Further(c) ==
    \/ CreateIndex(c) \/ DeleteIndex(c) \/ PutMappingCheck(c) \/ PutMapping(c)
    \/ CheckAlias(c) \/ ApplyAlias(c) \/ WriteDocument(c) \/ ResolveItem(c) \/ ApplyBulk(c)

Next == \E c \in Client : Further(c) \/ \E q \in Requests : First(c, q)

Spec == Init /\ [][Next]_vars

-----------------------------------------------------------------------------
(* Properties.                                                             *)

\* However lookups and writes of the handlers interleave, an alias names
\* indices that exist, and at least one.
AliasesPointAtIndices ==
    \A a \in DOMAIN store.aliases : DOMAIN store.aliases[a] # {} /\ DOMAIN store.aliases[a] \subseteq DOMAIN store.indices

\* What index i, made from m, should have under f: what the request said, else
\* the matching template of the highest priority that has f, where a template
\* has what it said itself, else the last of its components that has it, as
\* they were when the template was put.
Chosen(i, m, part(_), f) ==
    LET has(t)  == {k \in DOMAIN t.parts : f \in DOMAIN part(t.parts[k])}
        matches == {n \in Matching(m.templates, i) : has(m.templates[n]) # {}}
        top     == m.templates[CHOOSE n \in matches : \A o \in matches : o = n \/ Precedes(m.templates, o, n)]
        last    == CHOOSE k \in has(top) : \A j \in has(top) : j <= k
    IN  IF f \in DOMAIN part(m.explicit) THEN Some(part(m.explicit)[f])
        ELSE IF matches = {} THEN None ELSE Some(part(top.parts[last])[f])

\* A new index has the fields and the aliases of the request, of the templates
\* that match its name and of their components, each from the most specific, and
\* no other but those its first documents bring;
\* also when templates and components changed while requests were under way.
TemplatesApplied ==
    \A i \in DOMAIN made :
        LET m          == made[i]
            fields(t)  == t.mapping.fields
            aliases(t) == t.aliases
            parts      == {m.explicit} \cup UNION {Range(m.templates[n].parts) : n \in DOMAIN m.templates}
            agree(got, part(_), f) == Chosen(i, m, part, f) = IF f \in DOMAIN got THEN Some(got[f]) ELSE None
        IN  /\ \A f \in UNION {DOMAIN fields(t) : t \in parts} :
                   agree(m.fields, fields, f) \/ (Chosen(i, m, fields, f) = None /\ f \in m.dynamic)
            /\ \A a \in UNION {DOMAIN aliases(t) : t \in parts} : agree(m.aliases, aliases, a)

\* A bulk answers every operation that was sent, in order, malformed ones in
\* between included, and leaves the documents that its well-formed operations
\* leave one after the other.
BulkFaithful ==
    \A c \in Client : bulks[c] # None =>
        LET b   == bulks[c][1]
            ops == b.request.ops
            accepted(k) == b.statuses[k] # 400
            docs(s, k) == IF b.targets[k][1] \in DOMAIN s.indices THEN s.indices[b.targets[k][1]].docs ELSE NoKeys
            writers(k) == {j \in DOMAIN ops : accepted(j) /\ b.statuses[j] # 409 /\ b.targets[j] = b.targets[k] /\ ops[j].id = ops[k].id}
            last(k)    == CHOOSE j \in writers(k) : \A l \in writers(k) : l <= j
        IN  /\ Len(b.statuses) = Len(ops)
            /\ \A k \in DOMAIN ops :
                   /\ accepted(k) => ops[k].fine
                   /\ accepted(k) /\ writers(k) # {} =>
                          IF ops[last(k)].kind = "delete" THEN ops[k].id \notin DOMAIN docs(b.after, k)
                          ELSE ops[k].id \in DOMAIN docs(b.after, k) /\ docs(b.after, k)[ops[k].id] = ops[last(k)].doc

\* The type of a field stays what it is as long as its index is there, whatever
\* mappings and documents are put.
FieldTypesStable ==
    [][\A i \in DOMAIN store.indices \cap DOMAIN store'.indices : \A f \in DOMAIN store.indices[i].mapping.fields :
           /\ f \in DOMAIN store'.indices[i].mapping.fields
           /\ store'.indices[i].mapping.fields[f].type = store.indices[i].mapping.fields[f].type]_vars
=============================================================================
