----------------------------- MODULE ObjectLink -----------------------------
(***************************************************************************)
(* Separate compilation: what compile-object decides about one unit, what  *)
(* link decides about a set of objects, and what the one-shot compile      *)
(* decides about the same chunks (object_compile.rs, object.rs, link.rs,   *)
(* interface_summary.rs, compiler_core.rs).                                *)
(* Headers and locks are those of ObjectHeaders.                           *)
(***************************************************************************)
EXTENDS LinkVerify, ObjectHeaders

CONSTANT ConfigOf   \* chunk -> its configuration, a package record

by_name(S) == SetToSortSeq(S, LAMBDA f, g : rank(f.name) < rank(g.name))
by_id(S) == SetToSortSeq(S, LAMBDA a, b : rank(a.id) < rank(b.id))
merged_map(F) ==
    [x \in UNION {DOMAIN f : f \in F} |-> (CHOOSE f \in F : x \in DOMAIN f)[x]]

\* merge_partial of each chunk in turn (and merge_into when linking).
repository(C) ==
    LET configs == {ConfigOf[c] : c \in C} IN
    [facets |-> by_name(UNION {ToSet(m.facets) : m \in configs}),
     catalogues |-> merged_map({m.catalogues : m \in configs}),
     bindings |-> by_id(UNION {ToSet(m.bindings) : m \in configs}),
     definitions |-> merged_map({m.definitions : m \in configs}),
     components |-> by_id(UNION {ToSet(m.components) : m \in configs}),
     constraints |-> by_id(UNION {ToSet(m.constraints) : m \in configs}),
     artifacts |-> UNION {m.artifacts : m \in configs},
     charset |-> \A m \in configs : m.charset,
     ill_typed |-> UNION {m.ill_typed : m \in configs}]

-----------------------------------------------------------------------------
(* -------------------------- Interface summaries ------------------------ *)

declares(m) ==
    [definitions |-> DOMAIN m.definitions, components |-> component_ids(m), artifacts |-> m.artifacts,
     facets |-> facet_names(m.facets), bindings |-> {b.id : b \in ToSet(m.bindings)},
     catalogues |-> DOMAIN m.catalogues, constraints |-> {c.id : c \in ToSet(m.constraints)}]

exported(C, n) == UNION {declares(ConfigOf[c])[n] : c \in C}

\* summarize each chunk and merge: the maps take the first declaration, the
\* exports list every one.
merge(C) ==
    LET seq == chunk_order(C)
        config(i) == ConfigOf[seq[i]]
        first(f(_)) == FoldLeft(LAMBDA acc, m : acc @@ f(m), <<>>, [i \in DOMAIN seq |-> config(i)])
        bound(m) == [id \in {b.id : b \in ToSet(m.bindings)} |->
                        CHOOSE b \in ToSet(m.bindings) : b.id = id]
        domains(m) == [n \in facet_names(m.facets) |-> facet_named(m.facets, n).values]
        entries(m) == m.catalogues
        required(c) == [j \in DOMAIN c.requires |->
                           [binding |-> c.requires[j].binding, listed |-> c.requires[j].listed,
                            accepts |-> c.requires[j].accepts, condition |-> c.condition]]
    IN  [exports |-> [n \in Namespaces |->
                         FlattenSeq([i \in DOMAIN seq |-> SetToSortSeq(declares(config(i))[n],
                                                             LAMBDA a, b : rank(a) < rank(b))])],
         facet_domains |-> first(domains),
         catalogue_entries |-> first(entries),
         binding_links |-> first(bound),
         requirements |-> FlattenSeq([i \in DOMAIN seq |->
             LET cs == config(i).components IN FlattenSeq([k \in DOMAIN cs |-> required(cs[k])])])]

\* What a unit names and does not itself declare.
inherited(m) == {p.inherits : p \in UNION {ToSet(payloads(q)) : q \in parameters(m)}} \ {None}
collect_imports(C) ==
    LET configs == {ConfigOf[c] : c \in C}
    IN  [components |-> UNION {UNION {ToSet(c.depends_on) : c \in ToSet(m.components)} : m \in configs}
                            \ exported(C, "components"),
         definitions |-> UNION {inherited(m) : m \in configs} \ exported(C, "definitions"),
         bindings |-> UNION {UNION {{r.binding : r \in ToSet(c.requires)} : c \in ToSet(m.components)} :
                                m \in configs} \ exported(C, "bindings"),
         catalogues |-> UNION {{b.catalogue : b \in ToSet(m.bindings)} : m \in configs} \ exported(C, "catalogues")]

-----------------------------------------------------------------------------
(* ---------------------------- Adding chunks ---------------------------- *)

\* merge_partial: an id is declared once, and facets and bindings share one
\* id space.
Clash(m, n) ==
    \/ \E s \in Namespaces : declares(m)[s] \cap declares(n)[s] # {}
    \/ declares(m).facets \cap declares(n).bindings # {}
    \/ declares(m).bindings \cap declares(n).facets # {}
merge_partial(C) ==
    /\ \A c \in C : declares(ConfigOf[c]).facets \cap declares(ConfigOf[c]).bindings = {}
    /\ \A c, d \in C : c # d => ~Clash(ConfigOf[c], ConfigOf[d])

binding_facets(m) ==
    {binding_facet(m, b) : b \in {x \in ToSet(m.bindings) : x.catalogue \in DOMAIN m.catalogues}}

verify_complete_model(C) ==
    LET m == repository(C)
        effective_facets == by_name(binding_facets(m) \cup ToSet(m.facets))
    IN  /\ validate_definition_inheritance(m.definitions, "Complete")
        /\ validate_component_dependencies(m, "Complete")
        /\ validate_catalogues(m)
        /\ validate_parameter_values(m)
        /\ validate_merged_summary(merge(C), "Complete")
        /\ validate_facets(m, effective_facets)
        /\ validate_facet_bindings(m, effective_facets, "Complete")
        /\ validate_constraints(m.constraints, effective_facets, "Complete")

-----------------------------------------------------------------------------
(* ----------------------------- compile-object -------------------------- *)

\* What the interface headers declare, the first header that does winning.
\* Whether an external facet is open is not among it.
from_headers(headers) ==
    LET first(f(_)) == FoldLeft(LAMBDA acc, h : acc @@ f(h), <<>>, headers)
        domains(h) == merge(h.chunks).facet_domains
        entries(h) == merge(h.chunks).catalogue_entries
        bound(h) == merge(h.chunks).binding_links
    IN  [facet_domains |-> first(domains), catalogue_entries |-> first(entries),
         binding_links |-> first(bound)]
external_facets(ext) ==
    LET bound == {b \in DOMAIN ext.binding_links :
                     ext.binding_links[b].catalogue \in DOMAIN ext.catalogue_entries}
    IN  {[name |-> b, values |-> ext.catalogue_entries[ext.binding_links[b].catalogue],
          default |-> ext.binding_links[b].default, open |-> FALSE] : b \in bound}
        \cup {[name |-> n, values |-> ext.facet_domains[n], default |-> None, open |-> FALSE] :
                 n \in DOMAIN ext.facet_domains \ bound}

visible_summary(C, headers) ==
    LET s == merge(C)
        ext == from_headers(headers)
    IN  [s EXCEPT !.facet_domains = @ @@ ext.facet_domains,
                  !.catalogue_entries = @ @@ ext.catalogue_entries,
                  !.binding_links = @ @@ ext.binding_links]
visible_facets(C, headers) ==
    LET m == repository(C)
        own == ToSet(m.facets) \cup
                 {f \in binding_facets(m) : f.name \notin facet_names(m.facets)}
    IN  by_name(own \cup {f \in external_facets(from_headers(headers)) :
                              f.name \notin {g.name : g \in own}})

verify_object(C, headers) ==
    LET m == repository(C)
        facets == visible_facets(C, headers)
    IN  /\ validate_definition_inheritance(m.definitions, "UnitLocal")
        /\ validate_component_dependencies(m, "UnitLocal")
        /\ validate_catalogues(m)
        /\ validate_parameter_values(m)
        /\ validate_merged_summary(visible_summary(C, headers), "UnitLocal")
        /\ validate_facets(m, facets)
        /\ validate_constraints(m.constraints, facets, "UnitLocal")
        /\ validate_facet_bindings(m, facets, "UnitLocal")

unit_name_agrees(C) == C # {} /\ \A c, d \in C : UnitOf[c] = UnitOf[d]
object_compiles(C, headers) == merge_partial(C) /\ unit_name_agrees(C) /\ verify_object(C, headers)

-----------------------------------------------------------------------------
(* ------------------------------ Linking -------------------------------- *)

order_objects(headers) == Cardinality({h.unit : h \in headers}) = Cardinality(headers)

check_duplicate_ids(headers) ==
    \A n \in Namespaces : \A g, h \in headers :
        g # h => exported(g.chunks, n) \cap exported(h.chunks, n) = {}
check_unresolved_imports(headers) ==
    \A n \in {"components", "definitions", "bindings", "catalogues"} : \A h \in headers :
        collect_imports(h.chunks)[n] \subseteq
            UNION {exported(g.chunks, n) : g \in headers}

link_stage_headers(headers) ==
    /\ order_objects(headers)
    /\ check_interface_hashes(headers)
    /\ check_duplicate_ids(headers)
    /\ check_unresolved_imports(headers)
    /\ validate_merged_summary(merge(all_chunks(headers)), "Complete")

\* The chunks of a one-shot compile, grouped into objects by their package.
in_memory_headers(C) ==
    LET units == {UnitOf[c] : c \in C}
    IN  SetToSortSeq({ObjectHeader(u, {c \in C : UnitOf[c] = u}, {}) : u \in units},
                     LAMBDA a, b : rank(a.unit) < rank(b.unit))

compiles(C) == merge_partial(C) /\ verify_complete_model(C) /\ link_stage_headers(ToSet(in_memory_headers(C)))
=============================================================================
