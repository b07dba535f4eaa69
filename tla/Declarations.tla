---------------------------- MODULE Declarations ----------------------------
(***************************************************************************)
(* Spaces and collections declared through a Store: registered in the      *)
(* catalog tables of the file, written with the next commit, and restored  *)
(* when the store is opened again (src/src/db: space, schema, schema_doc,  *)
(* collection; src/src/file: registration, codec_io, catalog_io,           *)
(* internals).                                                             *)
(*                                                                         *)
(* A schema document is the list of its fields; it is read back as written *)
(* (JSON), and only once committed, for the frame of a pending one has no  *)
(* URI yet.  A dimension of SketchWidth stands for 64.                     *)
(***************************************************************************)
EXTENDS Integers, Sequences, FiniteSets, SequencesExt, TLC

CONSTANTS
  MaxSteps,    \* bound on the definitions, declarations and registrations
  MaxOpens     \* bound on the times the store is opened again

Formats == INSTANCE Quantizers WITH WordBits <- 7, GroupBits <- 3

VARIABLES
  eng,      \* the ValiseFile: rows, next ids and dirty ids of each table, caches
  reg,      \* the SchemaRegistry
  disk,     \* the committed chain of deltas of each table, and the next ids
  seen,     \* what the properties remember
  left      \* how many steps and opens the bounds leave

declVars == <<eng, reg, disk, seen, left>>

Tables == {"collection", "doc", "text", "analyzer", "schema", "profile",
           "space", "codec", "fusion"}
NoRows == [t \in Tables |-> <<>>]
FirstIds == [t \in Tables |-> 1]
Clean == [t \in Tables |-> {}]
EmptyEng == [rows |-> NoRows, next |-> FirstIds, dirty |-> Clean,
             codecs |-> <<>>, analyzers |-> {}]
EmptyReg == [vectors |-> <<>>, texts |-> <<>>, colls |-> <<>>]

(* The creation contract of the file.                                      *)
Contract == [maxDim |-> 16, dtypes |-> {"F32", "F8E4M3"}]

-----------------------------------------------------------------------------
(* Registration in the file.  An operation gives [ok, e, id].              *)

Done(e, id) == [ok |-> TRUE, e |-> e, id |-> id]
Refused(e) == [ok |-> FALSE, e |-> e, id |-> 0]

Ids(e, t) == {e.rows[t][i].id : i \in DOMAIN e.rows[t]}
Row(e, t, id) == e.rows[t][CHOOSE i \in DOMAIN e.rows[t] : e.rows[t][i].id = id]

(* Mutant of Added: the new row is not marked for the next commit.         *)
AddedClean(e, t, row) ==
  [e EXCEPT !.rows[t] = Append(@, row @@ [id |-> e.next[t]]),
            !.next[t] = @ + 1]

(* An id is allocated, the row upserted and marked dirty.                  *)
Added(e, t, row) ==
  [e EXCEPT !.rows[t] = Append(@, row @@ [id |-> e.next[t]]),
            !.next[t] = @ + 1, !.dirty[t] = @ \cup {e.next[t]}]
Register(e, t, row) == Done(Added(e, t, row), e.next[t])

(* CodecParams::decode, then instantiate.                                  *)
Instantiate(family, p) ==
  IF p.ok /\ Formats!Instantiable(family, p.val)
  THEN [ok |-> TRUE, dim |-> p.val.dim] ELSE [ok |-> FALSE, dim |-> 0]
CodecOf(family, bytes) == Instantiate(family, Formats!DecodeParams(family, bytes))

(* register_codec: the row is in the table before the codec is built from  *)
(* its parameters, which may fail.                                         *)
CodecAdded(e, id, codec) ==
  IF codec.ok THEN Done([e EXCEPT !.codecs = (id :> codec.dim) @@ @], id)
  ELSE Refused(e)
RegisterBytes(e, family, bytes, codec) ==
  IF ~bytes.ok THEN Refused(e)
  ELSE CodecAdded(Added(e, "codec", [family |-> family, params |-> bytes.val]),
                  e.next.codec, codec)
RegisterCodec(e, family, p) ==
  RegisterBytes(e, family, Formats!EncodeParams(family, p),
                Instantiate(family, [ok |-> TRUE, val |-> p]))

(* register_embedding_space.                                               *)
SpaceAccepted(e, s) ==
  /\ s.dim <= Contract.maxDim /\ s.dtype \in Contract.dtypes
  /\ Formats!IsF8(s.dtype) <=> s.codec = 0
  /\ s.codec # 0 => /\ s.codec \in Ids(e, "codec")
                    /\ s.codec \in DOMAIN e.codecs
                    /\ e.codecs[s.codec] = s.dim
RegisterEmbeddingSpace(e, s) ==
  IF SpaceAccepted(e, s) THEN Register(e, "space", s) ELSE Refused(e)

(* Analyzer::from_desc.                                                    *)
Tokenizable(a) == a.tokenizer \in {"UnicodeWords", "Whitespace"}

(* register_text_space: the id is taken before the analyzer is built.      *)
RegisterTextSpace(e, name, a, f, p) ==
  IF ~(a \in Ids(e, "analyzer") /\ f \in Ids(e, "schema") /\ p \in Ids(e, "profile"))
  THEN Refused(e)
  ELSE IF ~Tokenizable(Row(e, "analyzer", a))
  THEN Refused([e EXCEPT !.next.text = @ + 1])
  ELSE [Register(e, "text", [name |-> name, analyzer |-> a,
                             schema |-> f, profile |-> p])
          EXCEPT !.e.analyzers = @ \cup {e.next.text}]

(* FusionProfileDesc::validate; a weight that is not finite is -1 too.     *)
ValidFusion(f) ==
  /\ \A i \in DOMAIN f.weights : f.weights[i] >= 0
  /\ \E i \in DOMAIN f.weights : f.weights[i] > 0
  /\ f.rrf # 0
RegisterFusion(e, f) ==
  IF ValidFusion(f) THEN Register(e, "fusion", f) ELSE Refused(e)

-----------------------------------------------------------------------------
(* The store's specs.  A codec is [family, cells], or prebuilt with        *)
(* parameters; a field's bind is <<>> (inline) or <<space>> (shared).      *)

SketchWidth == 4
Metrics == {"Cosine", "Dot", "L2"}
ToEngine(m) == [Cosine |-> "Cosine", Dot |-> "InnerProduct", L2 |-> "L2"][m]
FromEngine(m) == CHOOSE d \in Metrics : ToEngine(d) = m

VectorRef(name, dim) == [name |-> name, kind |-> "vector", dim |-> dim]
TextRef(name) == [name |-> name, kind |-> "text", dim |-> 0]
AutoName(coll, field) == <<"auto", coll, field>>
SharedName == <<"shared">>

(* analyzer_desc.                                                          *)
AnalyzerDesc(lang) ==
  IF lang = "english"
  THEN [lang |-> lang, tokenizer |-> "UnicodeWords"]
  ELSE [lang |-> lang, tokenizer |-> "Whitespace"]

(* What calibrating on a sample gives, [ok, p]: for_calibration_with_bits  *)
(* and fit_from_sample check the dimensions (and Upq the cells) first.     *)
(* Samples are finite vectors of the dimension; sigma is fitted to 1.      *)
FittedQam(dim, block, c, sigma) ==
  [ok |-> Formats!WithConfigOk(dim, block, c.amp, c.phase),
   p |-> Formats!ToQamParams(dim, block, c.amp, c.phase, sigma)]
FittedUpq(dim, block, c, sigma) ==
  [ok |-> Formats!ValidDims(dim, block, c.cells),
   p |-> [Formats!UpqExample(c.cells, <<4, 4>>) EXCEPT
            !.dim = dim, !.pairs = dim \div 2, !.block = block, !.sigma = sigma]]
Fitted(dim, c, sigma) ==
  IF c.family = "QamLloydMax"
  THEN FittedQam(dim, Formats!CalibrationBlock(dim), c, sigma)
  ELSE FittedUpq(dim, Formats!DefaultBlockFor(dim), c, sigma)

(* register_codec_for.                                                     *)
RegisterFitted(e, family, f) ==
  IF f.ok THEN RegisterCodec(e, family, f.p) ELSE Refused(e)
RegisterCodecFor(e, dim, c) ==
  RegisterFitted(e, c.family, IF c.prebuilt # <<>>
                              THEN [ok |-> TRUE, p |-> c.prebuilt[1]]
                              ELSE Fitted(dim, c, [i \in 1 .. dim \div 2 |-> 1]))

(* register_codec_for, then register_embedding_space for the store.        *)
RegisterSpaceWith(r, name, dim, metric) ==
  IF ~r.ok THEN r
  ELSE RegisterEmbeddingSpace(r.e,
         [provider |-> "valise-db", model |-> name, dim |-> dim,
          metric |-> ToEngine(metric), dtype |-> "F32", codec |-> r.id])
RegisterVectors(e, name, dim, metric, c) ==
  RegisterSpaceWith(RegisterCodecFor(e, dim, c), name, dim, metric)

-----------------------------------------------------------------------------
(* SchemaRegistry.  An operation gives [ok, e, g, space].                  *)

Ready(id) == [ready |-> TRUE, id |-> id, codec |-> <<>>, sample |-> 0]
Deferred(c, sample) ==
  [ready |-> FALSE, id |-> 0, codec |-> <<c>>, sample |-> Formats!Max({sample, 1})]

(* define_vector_space: an existing space is compared by dimension and     *)
(* metric.  Prebuilt parameters, or a sample that is given (now), are      *)
(* registered here.                                                        *)
NotDefined(e, g) == [ok |-> FALSE, e |-> e, g |-> g, space |-> <<>>]
Defined(g, name, s, r, state) ==
  IF ~r.ok THEN NotDefined(r.e, g)
  ELSE [ok |-> TRUE, e |-> r.e, space |-> VectorRef(name, s.dim),
        g |-> [g EXCEPT !.vectors =
                 (name :> [dim |-> s.dim, metric |-> s.metric, state |-> state]) @@ @]]
DefinedReady(g, name, s, r) == Defined(g, name, s, r, Ready(r.id))
DefineVectors(e, g, name, s) ==
  IF name \in DOMAIN g.vectors
  THEN IF g.vectors[name].dim = s.dim /\ g.vectors[name].metric = s.metric
       THEN [ok |-> TRUE, e |-> e, g |-> g, space |-> VectorRef(name, s.dim)]
       ELSE NotDefined(e, g)
  ELSE IF s.dim = 0 \/ s.dim % SketchWidth # 0 THEN NotDefined(e, g)
  ELSE IF s.codec.prebuilt = <<>> /\ ~s.now
  THEN Defined(g, name, s, Done(e, 0), Deferred(s.codec, s.sample))
  ELSE IF s.codec.prebuilt # <<>> /\ s.codec.prebuilt[1].dim # s.dim
  THEN NotDefined(e, g)
  ELSE DefinedReady(g, name, s, RegisterVectors(e, name, s.dim, s.metric, s.codec))

(* define_text_space: an existing space is not compared.                   *)
TextParts(e, analyzer) ==
  Added(Added(Added(e, "analyzer", analyzer), "schema", [fields |-> <<"body">>]),
        "profile", [type |-> "Bm25"])
DefineText(e, g, name, s) ==
  IF name \in DOMAIN g.texts
  THEN [ok |-> TRUE, e |-> e, g |-> g, space |-> TextRef(name)]
  ELSE LET e1 == TextParts(e, AnalyzerDesc(s.lang)) IN
       [ok |-> TRUE, space |-> TextRef(name),
        e |-> RegisterTextSpace(e1, name, e.next.analyzer, e.next.schema,
                                e.next.profile).e,
        g |-> [g EXCEPT !.texts = (name :> e.next.text) @@ @]]

(* define_space refuses a spec that binds a space.                         *)
Define(e, g, name, s) ==
  IF s.bind # <<>> THEN NotDefined(e, g)
  ELSE IF s.kind = "text" THEN DefineText(e, g, name, s)
  ELSE DefineVectors(e, g, name, s)

(* validate_schema: names and vector spaces once each, a binding of its    *)
(* own kind, one text field.                                               *)
SpaceName(coll, f) ==
  IF f.spec.bind = <<>> THEN AutoName(coll, f.name) ELSE f.spec.bind[1].name
ValidSchema(coll, schema) ==
  LET of(kind) == {i \in DOMAIN schema : schema[i].spec.kind = kind} IN
  /\ \A i, j \in DOMAIN schema : schema[i].name = schema[j].name => i = j
  /\ \A i \in DOMAIN schema :
       schema[i].spec.bind # <<>> => schema[i].spec.bind[1].kind = schema[i].spec.kind
  /\ \A i, j \in of("vector") :
       SpaceName(coll, schema[i]) = SpaceName(coll, schema[j]) => i = j
  /\ Cardinality(of("text")) <= 1

(* bind_schema: the fields in order; an error leaves the spaces defined    *)
(* before it.                                                              *)
BindSchema(e, g, coll, schema) ==
  LET with(a, f, r) ==
        [ok |-> r.ok, e |-> r.e, g |-> r.g,
         shape |-> Append(a.shape, [name |-> f.name, space |-> r.space])]
      step(a, f) ==
        IF ~a.ok THEN a
        ELSE IF f.spec.bind # <<>>
        THEN [a EXCEPT !.shape = Append(@, [name |-> f.name, space |-> f.spec.bind[1]])]
        ELSE with(a, f, Define(a.e, a.g, AutoName(coll, f.name), f.spec)) IN
  IF ~ValidSchema(coll, schema) THEN [ok |-> FALSE, e |-> e, g |-> g, shape |-> <<>>]
  ELSE FoldLeft(step, [ok |-> TRUE, e |-> e, g |-> g, shape |-> <<>>], schema)

-----------------------------------------------------------------------------
(* Schema documents.                                                       *)

MetricStr(m) == [Cosine |-> "cosine", Dot |-> "dot", L2 |-> "l2"][m]
MetricFromStr(s) == CHOOSE m \in Metrics : MetricStr(m) = s

(* CodecDoc: prebuilt parameters are written as their bytes.               *)
CodecDoc(c) ==
  IF c.prebuilt = <<>> THEN c
  ELSE [c EXCEPT !.prebuilt = Formats!EncodeParams(c.family, c.prebuilt[1]).val]
ToCodecSpec(d) ==
  IF d.prebuilt = <<>> THEN d
  ELSE [d EXCEPT !.prebuilt = <<Formats!DecodeParams(d.family, d.prebuilt).val>>]
Encodable(c) ==
  c.prebuilt # <<>> => Formats!EncodeParams(c.family, c.prebuilt[1]).ok

(* from_schema: a shared binding has no spec; a calibration sample is not  *)
(* kept.                                                                   *)
DefaultSample == 5
SpecDoc(s) ==
  IF s.bind # <<>> THEN <<>>
  ELSE IF s.kind = "text" THEN <<[lang |-> s.lang]>>
  ELSE <<[dim |-> s.dim, metric |-> MetricStr(s.metric),
          codec |-> CodecDoc(s.codec), now |-> s.now,
          sample |-> IF s.now THEN DefaultSample ELSE s.sample]>>
FromSchema(coll, schema) ==
  [i \in DOMAIN schema |->
     [name |-> schema[i].name, kind |-> schema[i].spec.kind,
      space |-> SpaceName(coll, schema[i]), spec |-> SpecDoc(schema[i].spec)]]
DocEncodes(schema) ==
  \A i \in DOMAIN schema :
    schema[i].spec.bind = <<>> /\ schema[i].spec.kind = "vector"
      => Encodable(schema[i].spec.codec)

(* check_compatible: the old fields are the first of the new ones.         *)
Compatible(old, new) == IsPrefix(old, new)

(* find_doc: the first active document of a collection that can be read.   *)
DocIds(e, coll) ==
  {r \in Ids(e, "doc") : /\ Row(e, "doc", r).active /\ Row(e, "doc", r).coll = coll}
Readable(e, coll) == DocIds(e, coll) \ e.dirty.doc
FindDoc(e, coll) ==
  IF Readable(e, coll) = {} THEN <<>>
  ELSE <<Row(e, "doc", Formats!Min(Readable(e, coll)))>>

(* plan_sync and apply_sync: nothing to do, or the document found is       *)
(* deleted and a new one put.                                              *)
ApplySync(e, coll, doc, found) ==
  LET deleted == IF found = <<>> THEN e
                 ELSE [e EXCEPT !.rows.doc =
                         [i \in DOMAIN @ |-> IF @[i].id = found[1].id
                                             THEN [@[i] EXCEPT !.active = FALSE]
                                             ELSE @[i]],
                       !.dirty.doc = @ \cup {found[1].id}] IN
  IF found # <<>> /\ found[1].fields = doc THEN e
  ELSE Added(deleted, "doc", [coll |-> coll, fields |-> doc, active |-> TRUE])

-----------------------------------------------------------------------------
(* Opening.                                                                *)

(* read_catalog_snapshot: each table from its chain, the newest row of an  *)
(* id winning.                                                             *)
ReadTable(chain) ==
  LET rows == FlattenSeq(Reverse(chain))
      ids == {rows[i].id : i \in DOMAIN rows}
      latest(id) == rows[Formats!Min({i \in DOMAIN rows : rows[i].id = id})] IN
  [i \in 1..Cardinality(ids) |->
     latest(CHOOSE id \in ids : Cardinality({j \in ids : j < id}) = i - 1)]

(* build_codec_cache and build_analyzer_cache fail on a row they cannot    *)
(* use.                                                                    *)
CodecRowsOk(rows) ==
  \A i \in DOMAIN rows : CodecOf(rows[i].family, rows[i].params).ok
AnalyzerRowsOk(e) ==
  \A t \in Ids(e, "text") :
    /\ Row(e, "text", t).analyzer \in Ids(e, "analyzer")
    /\ Tokenizable(Row(e, "analyzer", Row(e, "text", t).analyzer))

(* observe_catalog_ids.                                                    *)
NextId(next, rows) ==
  Formats!Max({next} \cup {rows[i].id + 1 : i \in DOMAIN rows})

OpenedWith(d, rows) ==
  [rows |-> rows, next |-> [t \in Tables |-> NextId(d.next[t], rows[t])],
   dirty |-> Clean,
   codecs |-> [id \in {rows.codec[i].id : i \in DOMAIN rows.codec} |->
                 LET r == rows.codec[CHOOSE i \in DOMAIN rows.codec : rows.codec[i].id = id]
                 IN CodecOf(r.family, r.params).dim],
   analyzers |-> {rows.text[i].id : i \in DOMAIN rows.text}]
OpenFile(d) == OpenedWith(d, [t \in Tables |-> ReadTable(d.chain[t])])
Opens(e) == CodecRowsOk(e.rows.codec) /\ AnalyzerRowsOk(e)

(* shape_from_doc: <<>> when a field cannot be restored.  A vector space   *)
(* that is in no table comes back deferred, if the document has its spec.  *)
ShapeFromDoc(g, fields) ==
  LET step(a, f) ==
        IF ~a.ok THEN a
        ELSE IF f.kind = "text"
        THEN IF f.space \in DOMAIN g.texts
             THEN [a EXCEPT !.shape = Append(@, [name |-> f.name, space |-> TextRef(f.space)])]
             ELSE [a EXCEPT !.ok = FALSE]
        ELSE IF f.space \in DOMAIN a.g.vectors
        THEN [a EXCEPT !.shape = Append(@, [name |-> f.name,
                space |-> VectorRef(f.space, a.g.vectors[f.space].dim)])]
        ELSE IF f.spec = <<>> THEN [a EXCEPT !.ok = FALSE]
        ELSE LET s == f.spec[1]
                 entry == [dim |-> s.dim, metric |-> MetricFromStr(s.metric),
                           state |-> Deferred(ToCodecSpec(s.codec), s.sample)] IN
             [a EXCEPT !.g.vectors = (f.space :> entry) @@ @,
                       !.shape = Append(@, [name |-> f.name,
                                            space |-> VectorRef(f.space, s.dim)])] IN
  FoldLeft(step, [ok |-> TRUE, g |-> g, shape |-> <<>>], fields)

(* SchemaRegistry::rebuild.                                                *)
Rebuild(e) ==
  LET vecs == SelectSeq(e.rows.space, LAMBDA r : r.provider = "valise-db")
      last(rows, name) == Formats!Max({i \in DOMAIN rows : rows[i].name = name})
      byModel(name) == vecs[Formats!Max({i \in DOMAIN vecs : vecs[i].model = name})]
      g == [vectors |-> [name \in {vecs[i].model : i \in DOMAIN vecs} |->
                           [dim |-> byModel(name).dim,
                            metric |-> FromEngine(byModel(name).metric),
                            state |-> Ready(byModel(name).id)]],
            texts |-> [name \in {e.rows.text[i].name : i \in DOMAIN e.rows.text} |->
                         e.rows.text[last(e.rows.text, name)].id],
            colls |-> [name \in {e.rows.collection[i].name : i \in DOMAIN e.rows.collection} |->
                         [id |-> e.rows.collection[last(e.rows.collection, name)].id,
                          shape |-> <<>>, doc |-> <<>>]]]
      restore(a, r) ==
        IF ~r.active \/ r.coll \notin DOMAIN a.colls THEN a
        ELSE LET s == ShapeFromDoc(a, r.fields) IN
             IF ~s.ok THEN s.g
             ELSE [s.g EXCEPT !.colls[r.coll].shape = <<s.shape>>,
                              !.colls[r.coll].doc = <<r.fields>>] IN
  FoldLeft(restore, g, e.rows.doc)

-----------------------------------------------------------------------------
(* The specification.                                                      *)

Qam == [family |-> "QamLloydMax", amp |-> 5, phase |-> 6, cells |-> 0, prebuilt |-> <<>>]
Upq(cells) == [family |-> "Upq", amp |-> 0, phase |-> 0, cells |-> cells, prebuilt |-> <<>>]
Prebuilt(cells) ==
  [Upq(cells) EXCEPT !.prebuilt = <<Formats!UpqExample(cells, <<4, 4>>)>>]

Text(lang) == [kind |-> "text", bind |-> <<>>, lang |-> lang]
Vector(dim, metric, codec, now) ==
  [kind |-> "vector", bind |-> <<>>, dim |-> dim, metric |-> metric,
   codec |-> codec, now |-> now, sample |-> 0]

(* Inline specs: among them a dimension no sketch fits, more cells than    *)
(* are packed (given, prebuilt), and more than the format has.             *)
InlineSpecs ==
  {Text("english"), Vector(4, "Dot", Qam, FALSE), Vector(4, "Dot", Qam, TRUE),
   Vector(6, "Dot", Qam, FALSE), Vector(4, "Cosine", Upq(64), FALSE),
   Vector(4, "Dot", Prebuilt(16), FALSE), Vector(4, "Dot", Prebuilt(64), FALSE),
   Vector(4, "Dot", Prebuilt(128), FALSE)}
SharedSpecs(handles) ==
  {[kind |-> kind, bind |-> <<s>>] : kind \in {"text", "vector"}, s \in handles}
Schemas(handles) ==
  {<<[name |-> "a", spec |-> s]>> : s \in InlineSpecs \cup SharedSpecs(handles)}
  \cup {<<[name |-> "a", spec |-> s], [name |-> "b", spec |-> t]>> :
          s \in {Text("english"), Vector(4, "Dot", Qam, FALSE)},
          t \in {Vector(4, "Cosine", Upq(64), FALSE), Vector(6, "Dot", Qam, FALSE),
                 Text("raw")} \cup SharedSpecs(handles)}

(* Specs of spaces and profiles that an application registers itself.      *)
AppSpaces ==
  {[provider |-> "app", model |-> <<"m">>, dim |-> d, metric |-> "L2",
    dtype |-> t, codec |-> c] :
     d \in {4, 32}, t \in {"F32", "F16", "F8E4M3"}, c \in {0, 1}}
AppFusions == {[weights |-> w, rrf |-> k] :
                 w \in {<<0, 0>>, <<1, 0>>, <<1, -1>>}, k \in {0, 60}}

DeclInit ==
  /\ eng = EmptyEng /\ reg = EmptyReg
  /\ disk = [chain |-> NoRows, next |-> FirstIds]
  /\ seen = [handles |-> {}, refused |-> {}, saved |-> EmptyReg]
  /\ left = [steps |-> MaxSteps, opens |-> MaxOpens]

Step ==
  /\ left.steps > 0
  /\ left' = [left EXCEPT !.steps = @ - 1]

(* Store::define_space.                                                    *)
DefineSpace ==
  /\ Step
  /\ \E s \in InlineSpecs \cup SharedSpecs(seen.handles) :
     \E r \in {Define(eng, reg, SharedName, s)} :
       /\ eng' = r.e /\ reg' = r.g
       /\ seen' = [seen EXCEPT !.handles = IF r.ok THEN @ \cup {r.space} ELSE @]
  /\ UNCHANGED disk

(* Store::collection: compare with the document in memory and the one in   *)
(* the file, bind, create, write the document, remember.                   *)
DeclareCollection ==
  /\ Step
  /\ \E schema \in {s \in Schemas(seen.handles) : DocEncodes(s)} :
     \E doc \in {FromSchema("c", schema)}, found \in {FindDoc(eng, "c")} :
       LET known == "c" \in DOMAIN reg.colls
           prev == IF known THEN reg.colls["c"].doc ELSE <<>> IN
       /\ prev # <<>> => Compatible(prev[1], doc)
       /\ found # <<>> => Compatible(found[1].fields, doc)
       /\ \E b \in {BindSchema(eng, reg, "c", schema)} :
            LET created == IF known THEN Done(b.e, reg.colls["c"].id)
                           ELSE Register(b.e, "collection", [name |-> "c"]) IN
            IF ~b.ok
            THEN eng' = b.e /\ reg' = b.g
            ELSE /\ eng' = ApplySync(created.e, "c", doc, found)
                 /\ reg' = [b.g EXCEPT !.colls = ("c" :> [id |-> created.id,
                              shape |-> <<b.shape>>, doc |-> <<doc>>]) @@ @]
  /\ UNCHANGED <<disk, seen>>

(* flush_deferred, of the spaces that vectors were staged for: they become *)
(* ready together, when all were registered.                               *)
Calibrate ==
  /\ Step
  /\ \E names \in SetToSeqs({n \in DOMAIN reg.vectors : ~reg.vectors[n].state.ready}) :
       LET with(a, n, r) == [ok |-> r.ok, e |-> r.e, ids |-> (n :> r.id) @@ a.ids]
           step(a, n) ==
             IF ~a.ok THEN a
             ELSE with(a, n, RegisterVectors(a.e, n, reg.vectors[n].dim,
                    reg.vectors[n].metric, reg.vectors[n].state.codec[1])) IN
       /\ names # <<>>
       /\ \E r \in {FoldLeft(step, [ok |-> TRUE, e |-> eng, ids |-> <<>>], names)} :
            /\ eng' = r.e
            /\ reg' = IF ~r.ok THEN reg
                      ELSE [reg EXCEPT !.vectors = [n \in DOMAIN @ |->
                              IF n \in DOMAIN r.ids
                              THEN [@[n] EXCEPT !.state = Ready(r.ids[n])]
                              ELSE @[n]]]
  /\ UNCHANGED <<disk, seen>>

(* register_embedding_space, register_fusion_profile and                   *)
(* register_text_space as an application calls them on the file (a text    *)
(* space under a name it gave to no other).                                *)
AppRegister ==
  /\ Step
  /\ \/ \E s \in AppSpaces : eng' = RegisterEmbeddingSpace(eng, s).e
     \/ \E f \in AppFusions : eng' = RegisterFusion(eng, f).e
     \/ \E t \in {"CharNgram", "Whitespace"}, p \in {1, 9} :
          /\ \A i \in DOMAIN eng.rows.text : eng.rows.text[i].name # <<"app">>
          /\ eng' = RegisterTextSpace(TextParts(eng, [lang |-> "app", tokenizer |-> t]),
                      <<"app">>, eng.next.analyzer, eng.next.schema,
                      IF p = 1 THEN eng.next.profile ELSE p).e
  /\ UNCHANGED <<reg, disk, seen>>

(* The catalog stages of a commit: a delta of the dirty rows of each       *)
(* table.                                                                  *)
CommitTables ==
  /\ \E t \in Tables : eng.dirty[t] # {}
  /\ disk' = [chain |-> [t \in Tables |->
                IF eng.dirty[t] = {} THEN disk.chain[t]
                ELSE Append(disk.chain[t],
                            SelectSeq(eng.rows[t], LAMBDA r : r.id \in eng.dirty[t]))],
              next |-> eng.next]
  /\ eng' = [eng EXCEPT !.dirty = Clean]
  /\ seen' = [seen EXCEPT !.saved = reg,
                          !.refused = Ids(eng, "codec") \ DOMAIN eng.codecs]
  /\ UNCHANGED <<reg, left>>

(* The store is dropped and opened again, with or without a commit before. *)
OpenStore ==
  /\ left.opens > 0
  /\ \E e \in {OpenFile(disk)} : Opens(e) /\ eng' = e /\ reg' = Rebuild(e)
  /\ left' = [left EXCEPT !.opens = @ - 1]
  /\ UNCHANGED <<disk, seen>>

DeclNext ==
  DefineSpace \/ DeclareCollection \/ Calibrate \/ AppRegister
    \/ CommitTables \/ OpenStore

DeclSpec == DeclInit /\ [][DeclNext]_declVars

-----------------------------------------------------------------------------
(* Properties.                                                             *)

(* What the registry calls ready is registered: its row has the name, the  *)
(* dimension and the metric of the space, and a codec of that dimension;   *)
(* a text space has its analyzer (define_vector_space, flush_deferred).    *)
SpacesRegistered ==
  /\ \A n \in DOMAIN reg.vectors :
       LET v == reg.vectors[n]
           r == Row(eng, "space", v.state.id) IN
       v.state.ready =>
         /\ v.state.id \in Ids(eng, "space")
         /\ r.model = n /\ r.dim = v.dim /\ FromEngine(r.metric) = v.metric
         /\ r.codec \in DOMAIN eng.codecs /\ eng.codecs[r.codec] = v.dim
  /\ \A n \in DOMAIN reg.texts : reg.texts[n] \in eng.analyzers
  /\ \A c \in DOMAIN reg.colls : reg.colls[c].id \in Ids(eng, "collection")

(* No id is given to two rows, and none that is committed is given again.  *)
IdsFresh ==
  \A t \in Tables :
    /\ Cardinality(Ids(eng, t)) = Len(eng.rows[t])
    /\ \A id \in Ids(eng, t) : id < eng.next[t]
    /\ disk.next[t] <= eng.next[t]

(* A vector space bound by name is restored if it was ready, or if the     *)
(* document says how to calibrate it.                                      *)
Restorable(g, shape) ==
  \A i \in DOMAIN shape :
    LET s == shape[i].space IN
    IF s.kind = "text" THEN s.name \in DOMAIN g.texts
    ELSE \/ s.name # SharedName
         \/ s.name \in DOMAIN g.vectors /\ g.vectors[s.name].state.ready

(* A space as it was, or ready at last: a flush_deferred that fails on a   *)
(* later space leaves the earlier ones in the tables.                      *)
Kept(was, now) ==
  /\ now.dim = was.dim /\ now.metric = was.metric
  /\ now.state = was.state \/ (now.state.ready /\ ~was.state.ready)

(* The space has the codec and the sample that the document gives.  It has *)
(* not when an earlier declaration failed after defining it: the second    *)
(* finds the space there and compares no codec.                            *)
Agrees(v, spec) ==
  \/ v.state.ready \/ spec = <<>>
  \/ v.state = Deferred(ToCodecSpec(spec[1].codec), spec[1].sample)

(* What a store that opens the file now would restore, of what was         *)
(* declared at the last commit: ready spaces as they are, deferred ones of *)
(* a collection with their codec and metric, and the shape of every        *)
(* collection that is not bound to a shared space that was never           *)
(* calibrated (SchemaRegistry::rebuild, schema_doc.rs "Known caveat").     *)
Restored(g, e) ==
  /\ \A n \in DOMAIN seen.saved.vectors :
       seen.saved.vectors[n].state.ready =>
         n \in DOMAIN g.vectors /\ Kept(seen.saved.vectors[n], g.vectors[n])
  /\ \A n \in DOMAIN seen.saved.texts :
       n \in DOMAIN g.texts /\ g.texts[n] = seen.saved.texts[n]
  /\ \A c \in DOMAIN seen.saved.colls :
       LET was == seen.saved.colls[c] IN
       /\ c \in DOMAIN g.colls
       /\ was.shape # <<>> /\ Restorable(seen.saved, was.shape[1]) =>
            /\ g.colls[c] = was
            /\ \A i \in DOMAIN was.shape[1] :
                 LET s == was.shape[1][i].space IN
                 s.kind = "vector" /\ Agrees(seen.saved.vectors[s.name], was.doc[1][i].spec)
                   => Kept(seen.saved.vectors[s.name], g.vectors[s.name])

(* The committed file opens and gives back what was declared, unless a     *)
(* codec is in it whose registration was refused.                          *)
DeclarationsReload ==
  /\ SpacesRegistered /\ IdsFresh
  /\ \A e \in {OpenFile(disk)} :
       IF seen.refused # {} THEN ~Opens(e)
       ELSE Opens(e) /\ Restored(Rebuild(e), e)
=============================================================================
