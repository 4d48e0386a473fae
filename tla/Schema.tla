------------------------------- MODULE Schema -------------------------------
(***************************************************************************)
(* Schemas, their changes, and what they make of a record                  *)
(* (logpose-types/src/schema, record and value; logpose-wal/src/codec.rs). *)
(* A schema is [version, next, names, fields, index, retired]: the id each *)
(* name has now, the type of each id, the ids with a sorted and with an    *)
(* inverted index, and the names that were dropped or renamed away.  Rows  *)
(* are stored by id; a record is by name, with the keys the schema does    *)
(* not declare in its dynamic part.                                        *)
(***************************************************************************)
EXTENDS Values, FiniteSetsExt, SequencesExt

CONSTANT FieldIds       \* what IdAllocator hands out, a sequence

ASSUME FieldIdsDistinct == \A i, j \in DOMAIN FieldIds : FieldIds[i] = FieldIds[j] => i = j

Refused == [ok |-> FALSE, v |-> <<>>]
Accepted(v) == [ok |-> TRUE, v |-> v]

----------------------------------------------------------------------------
(* Changes.                                                                *)

\* add_field: a nullable field under a new id; the name is retired no longer.
AddField(schema, name, type, sorted, inverted) ==
    LET id == FieldIds[schema.next]
    IN IF name \in DOMAIN schema.names THEN Refused
       ELSE Accepted([schema EXCEPT !.version = @ + 1, !.next = @ + 1,
                                    !.names = name :> id @@ @, !.fields = id :> type @@ @,
                                    !.index.sorted = IF sorted THEN @ \cup {id} ELSE @,
                                    !.index.inverted = IF inverted THEN @ \cup {id} ELSE @,
                                    !.retired = @ \ {name}])

\* drop_field.
DropField(schema, name) ==
    LET id == schema.names[name]
    IN IF name \notin DOMAIN schema.names THEN Refused
       ELSE Accepted([schema EXCEPT !.version = @ + 1, !.names = Restrict(@, DOMAIN @ \ {name}),
                                    !.fields = Restrict(@, DOMAIN @ \ {id}),
                                    !.index = [sorted |-> @.sorted \ {id}, inverted |-> @.inverted \ {id}],
                                    !.retired = @ \cup {name}])

\* rename_field.
RenameField(schema, from, to) ==
    IF from \notin DOMAIN schema.names \/ to \in DOMAIN schema.names THEN Refused
    ELSE Accepted([schema EXCEPT !.version = @ + 1, !.retired = (@ \ {to}) \cup {from},
                                 !.names = to :> schema.names[from] @@ Restrict(@, DOMAIN @ \ {from})])

\* SchemaChange::apply_to.
ApplyChange(schema, change) ==
    CASE change.op = "add" -> AddField(schema, change.name, change.type, change.sorted, change.inverted)
      [] change.op = "drop" -> DropField(schema, change.name)
      [] change.op = "rename" -> RenameField(schema, change.name, change.to)

\* shadows_dynamic_key and retain_visible_dynamic.
ShadowsWhileDeclared(schema, key) == key \in DOMAIN schema.names
ShadowsDynamicKey(schema, key) == key \in schema.retired \/ key \in DOMAIN schema.names
VisibleDynamic(schema, extra) == Restrict(extra, {key \in DOMAIN extra : ~ ShadowsDynamicKey(schema, key)})

----------------------------------------------------------------------------
(* Records.                                                                *)

\* conform and into_json.
Conform(type, value) ==
    IF IsNull(value) THEN Accepted(Null)
    ELSE IF value.t = type \/ (type = "json" /\ value.t \in {"json_number", "json_string", "json_object"})
    THEN Accepted(value) ELSE Refused
IntoJson(value) ==
    CASE value.t = "int64" -> JsonNumber(2 * value.v[1])
      [] value.t = "float64" -> JsonNumber(value.v[1])
      [] value.t = "string" -> JsonString(value.v[1])
      [] IsNull(value) -> JsonNull
      [] OTHER -> value

\* check_dynamic_key and check_fields: [vals, extra] by name, or a refusal.
CheckFields(schema, fields, extra) ==
    LET typed == DOMAIN fields \cap DOMAIN schema.names
        loose == DOMAIN fields \ typed
        conformed == [name \in typed |-> Conform(schema.fields[schema.names[name]], fields[name])]
    IN IF \/ \E key \in DOMAIN extra \cup loose : ShadowsDynamicKey(schema, key)
          \/ loose \cap DOMAIN extra # {} \/ \E name \in typed : ~ conformed[name].ok
       THEN Refused
       ELSE Accepted([vals |-> [name \in typed |-> conformed[name].v],
                      extra |-> [key \in loose |-> IntoJson(fields[key])] @@ extra])

\* validate_record and RowImage::from_record: the row as it is logged and stored, without its
\* sequence number; a null value is not kept.
FromRecord(schema, record) ==
    LET checked == CheckFields(schema, record.fields, record.extra)
        vals == checked.v.vals
        named(id) == CHOOSE name \in DOMAIN schema.names : schema.names[name] = id
        kept == {schema.names[name] : name \in {n \in DOMAIN vals : vals[n] # Null}}
    IN IF record.vec = <<>> \/ ~ checked.ok THEN Refused
       ELSE Accepted([pk |-> record.pk, vec |-> record.vec, extra |-> checked.v.extra,
                      vals |-> [id \in kept |-> vals[named(id)]]])

\* RowImage::to_record.
ToRecord(schema, image) ==
    LET has(name) == schema.names[name] \in DOMAIN image.vals /\ image.vals[schema.names[name]] # Null
    IN [pk |-> image.pk, vec |-> image.vec, extra |-> VisibleDynamic(schema, image.extra),
        fields |-> [name \in {n \in DOMAIN schema.names : has(n)} |-> image.vals[schema.names[name]]]]

\* validate_update, PartialUpdate::apply_to and merge_update: null removes.
MergeUpdate(schema, image, update) ==
    LET checked == CheckFields(schema, update.fields, update.extra)
        old == ToRecord(schema, image)
        overlaid(base, change) ==
          LET all == change @@ base IN Restrict(all, {k \in DOMAIN all : k \notin DOMAIN change \/ ~ IsNull(all[k])})
    IN IF ~ checked.ok THEN Refused
       ELSE FromRecord(schema, [old EXCEPT !.vec = IF update.vec = <<>> THEN @ ELSE update.vec,
                                           !.fields = overlaid(@, checked.v.vals),
                                           !.extra = overlaid(@, checked.v.extra)])
=============================================================================
