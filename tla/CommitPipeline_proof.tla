------------------------ MODULE CommitPipeline_proof ------------------------
(***************************************************************************)
(* Proofs about CommitPipeline for any number of writers, readers, rows    *)
(* and declarations.  The writer slot is what makes the argument work: no  *)
(* row is staged between the two phases of a commit, so as far as rows go  *)
(* the footer that phase B adopts is exactly the live catalog.  Nothing of *)
(* the kind holds for declarations, which do not take the slot.            *)
(***************************************************************************)
EXTENDS CommitPipeline, TLAPS

(* While a commit is between its phases, what phase A wrote still agrees   *)
(* with the catalog on rows and extends the adopted footer.                *)
InFlight ==
  phase \in {"fsync", "publish"} =>
    /\ prepared \cap Rows = catalog \cap Rows
    /\ footer \subseteq prepared
    /\ covers \cap Rows \subseteq prepared

(* No row is forgotten: it is under the adopted footer or still dirty.     *)
NoRowForgotten ==
  /\ catalog \cap Rows \subseteq footer \cup dirty_ids
  /\ (footer \cup dirty_ids) \cap Rows \subseteq catalog
  /\ ~dirty => dirty_ids = {}

(* The adopted footer is on disk, and bounds all that was ever promised or *)
(* shown to a reader.                                                      *)
FooterBounds ==
  /\ footer \subseteq durable
  /\ phase = "publish" => durable = prepared
  /\ promised \cap Rows \subseteq footer
  /\ published \cap Rows \subseteq footer
  /\ \A r \in Readers : pinned[r] \cap Rows \subseteq footer

(* A row the caches lack is still dirty, and no commit is between its      *)
(* phases; so no snapshot has it yet.                                      *)
CachesFresh ==
  /\ catalog \cap Rows \subseteq indexes \cup dirty_ids
  /\ phase \in {"fsync", "publish"} => catalog \cap Rows \subseteq indexes
  /\ published \cap Rows \subseteq catalog \cap indexes
  /\ \A r \in Readers : pinned[r] \cap Rows \subseteq catalog \cap indexes

Ind == TypeOK /\ InFlight /\ NoRowForgotten /\ FooterBounds /\ CachesFresh

(* The initial state satisfies the inductive invariant.                    *)
LEMMA IndInit == Init => Ind
<1> USE CommitPipelineAssumption DEF CommitPipelineAssumption
<1>1. 0 \in 0..MaxErrors
  OBVIOUS
<1> SUFFICES ASSUME Init PROVE Ind
  OBVIOUS
<1>2. TypeOK
  BY <1>1 DEF Init, TypeOK, Items
<1>3. InFlight /\ NoRowForgotten /\ FooterBounds /\ CachesFresh
  BY DEF Init, InFlight, NoRowForgotten, FooterBounds, CachesFresh
<1> QED BY <1>2, <1>3 DEF Ind

(* Staging a row in the idle phase, or a declaration at any time, keeps    *)
(* the invariant.                                                          *)
LEMMA StageStep ==
  ASSUME Ind, NEW i \in Items, Stage(i), i \in Rows => phase = "idle"
  PROVE  Ind'
<1> USE CommitPipelineAssumption DEF CommitPipelineAssumption, Items
<1>1. TypeOK'
  BY DEF Ind, TypeOK, Stage, views
<1>2. InFlight'
  BY DEF Ind, InFlight, Stage
<1>3. NoRowForgotten'
  BY DEF Ind, NoRowForgotten, Stage
<1>4. FooterBounds'
  BY DEF Ind, FooterBounds, Stage, views
<1>5. CachesFresh'
  BY DEF Ind, CachesFresh, Stage, views
<1> QED BY <1>1, <1>2, <1>3, <1>4, <1>5 DEF Ind

(* Every step of a commit keeps the invariant.                             *)
LEMMA CommitStepInd ==
  ASSUME Ind, NEW w \in Writers, CommitStep(w)
  PROVE  Ind'
<1> USE CommitPipelineAssumption
    DEF CommitPipelineAssumption, Items, Ind, staging, views
<1>1. CASE CommitNoOp(w)
  <2>1. TypeOK'  BY <1>1 DEF CommitNoOp, TypeOK
  <2>2. InFlight' /\ NoRowForgotten'
    BY <1>1 DEF CommitNoOp, InFlight, NoRowForgotten
  <2>3. FooterBounds'
    BY <1>1 DEF CommitNoOp, NoRowForgotten, FooterBounds
  <2>4. CachesFresh'
    BY <1>1 DEF CommitNoOp, CachesFresh
  <2> QED BY <2>1, <2>2, <2>3, <2>4
<1>2. CASE CommitPhaseA(w)
  <2>1. TypeOK'  BY <1>2 DEF CommitPhaseA, TypeOK
  <2>2. InFlight' /\ NoRowForgotten'
    BY <1>2 DEF CommitPhaseA, InFlight, NoRowForgotten
  <2>3. FooterBounds'
    BY <1>2 DEF CommitPhaseA, FooterBounds
  <2>4. CachesFresh'
    BY <1>2 DEF CommitPhaseA, CachesFresh
  <2> QED BY <2>1, <2>2, <2>3, <2>4
<1>3. CASE CommitPhaseAErr(w)
  <2>1. TypeOK'  BY <1>3 DEF CommitPhaseAErr, TypeOK
  <2>2. InFlight' /\ NoRowForgotten'
    BY <1>3 DEF CommitPhaseAErr, InFlight, NoRowForgotten
  <2>3. FooterBounds'
    BY <1>3 DEF CommitPhaseAErr, FooterBounds
  <2>4. CachesFresh'
    BY <1>3 DEF CommitPhaseAErr, CachesFresh
  <2> QED BY <2>1, <2>2, <2>3, <2>4
<1>4. CASE FsyncOk(w)
  <2>1. TypeOK'  BY <1>4 DEF FsyncOk, TypeOK
  <2>2. InFlight' /\ NoRowForgotten'
    BY <1>4 DEF FsyncOk, InFlight, NoRowForgotten
  <2>3. FooterBounds'
    BY <1>4 DEF FsyncOk, InFlight, FooterBounds
  <2>4. CachesFresh'
    BY <1>4 DEF FsyncOk, CachesFresh
  <2> QED BY <2>1, <2>2, <2>3, <2>4
<1>5. CASE FsyncErr(w)
  <2>1. TypeOK'  BY <1>5 DEF FsyncErr, TypeOK
  <2>2. InFlight' /\ NoRowForgotten'
    BY <1>5 DEF FsyncErr, InFlight, NoRowForgotten
  <2>3. FooterBounds'
    BY <1>5 DEF FsyncErr, FooterBounds
  <2>4. CachesFresh'
    BY <1>5 DEF FsyncErr, CachesFresh
  <2> QED BY <2>1, <2>2, <2>3, <2>4
<1>6. CASE Publish(w)
  <2>1. TypeOK'  BY <1>6 DEF Publish, Adopt, TypeOK
  <2>2. InFlight' /\ NoRowForgotten'
    BY <1>6 DEF Publish, Adopt, InFlight, NoRowForgotten
  <2>3. FooterBounds'
    BY <1>6 DEF Publish, Adopt, InFlight, FooterBounds
  <2>4. CachesFresh'
    BY <1>6 DEF Publish, Adopt, CachesFresh
  <2> QED BY <2>1, <2>2, <2>3, <2>4
<1>7. CASE PublishErr(w)
  <2>0. errors' \in 0..MaxErrors
    BY <1>7 DEF PublishErr, TypeOK
  <2>1. TypeOK'
    BY <1>7, <2>0 DEF PublishErr, Adopt, TypeOK
  <2>2. InFlight' /\ NoRowForgotten'
    BY <1>7 DEF PublishErr, Adopt, InFlight, NoRowForgotten
  <2>3. FooterBounds'
    BY <1>7 DEF PublishErr, Adopt, InFlight, FooterBounds
  <2>4. CachesFresh'
    BY <1>7 DEF PublishErr, Adopt, CachesFresh
  <2> QED BY <2>1, <2>2, <2>3, <2>4
<1> QED BY <1>1, <1>2, <1>3, <1>4, <1>5, <1>6, <1>7 DEF CommitStep

(* The invariant is inductive.                                             *)
LEMMA IndStep == Ind /\ [Next]_vars => Ind'
<1> USE CommitPipelineAssumption DEF CommitPipelineAssumption
<1> SUFFICES ASSUME Ind, [Next]_vars PROVE Ind'
  OBVIOUS
<1>1. ASSUME NEW w \in Writers, AcquireWriter(w) \/ DropWriter(w) PROVE Ind'
  <2>1. TypeOK'
    BY <1>1 DEF AcquireWriter, DropWriter, Ind, TypeOK, staging, views
  <2>2. InFlight' /\ NoRowForgotten' /\ FooterBounds' /\ CachesFresh'
    BY <1>1 DEF AcquireWriter, DropWriter, Ind, InFlight, NoRowForgotten,
                FooterBounds, CachesFresh, staging, views
  <2> QED BY <2>1, <2>2 DEF Ind
<1>2. ASSUME NEW w \in Writers, NEW i \in Rows, PutFrame(w, i) PROVE Ind'
  BY <1>2, StageStep DEF PutFrame, Items
<1>3. ASSUME NEW w \in Writers, CommitStep(w) PROVE Ind'
  BY <1>3, CommitStepInd
<1>4. ASSUME NEW i \in Decls, Declare(i) PROVE Ind'
  <2>1. i \in Items /\ i \notin Rows
    BY DEF Items
  <2> QED BY <1>4, <2>1, StageStep DEF Declare
<1>5. ASSUME NEW r \in Readers, Pin(r) PROVE Ind'
  <2>1. TypeOK'
    BY <1>5 DEF Pin, Ind, TypeOK, staging
  <2>2. InFlight' /\ NoRowForgotten'
    BY <1>5 DEF Pin, Ind, InFlight, NoRowForgotten, staging
  <2>3. FooterBounds'
    BY <1>5 DEF Pin, Ind, FooterBounds, TypeOK, staging
  <2>4. CachesFresh'
    BY <1>5 DEF Pin, Ind, CachesFresh, TypeOK, staging
  <2> QED BY <2>1, <2>2, <2>3, <2>4 DEF Ind
<1>6. CASE UNCHANGED vars
  <2>1. TypeOK'  BY <1>6 DEF Ind, TypeOK, vars
  <2>2. InFlight' /\ NoRowForgotten' /\ FooterBounds' /\ CachesFresh'
    BY <1>6 DEF Ind, InFlight, NoRowForgotten, FooterBounds, CachesFresh, vars
  <2> QED BY <2>1, <2>2 DEF Ind
<1> QED BY <1>1, <1>2, <1>3, <1>4, <1>5, <1>6 DEF Next

(* Hence it holds in every reachable state.                                *)
LEMMA IndInvariant == Spec => []Ind
BY IndInit, IndStep, PTL DEF Spec

(* The state of the pipeline keeps its type; in particular the slot is     *)
(* never free while a commit is between its phases.                        *)
THEOREM TypeCorrect == Spec => []TypeOK
<1>1. Ind => TypeOK
  BY DEF Ind
<1> QED BY <1>1, IndInvariant, PTL

(* Every row staged before a commit that returned Ok is on disk, for any   *)
(* number of writers, failures and concurrent declarations.                *)
THEOREM RowsAreCovered == Spec => []RowsCovered
<1>1. Ind => RowsCovered
  BY DEF Ind, FooterBounds, RowsCovered
<1> QED BY <1>1, IndInvariant, PTL

(* No pinned snapshot shows a row that is not on disk.                     *)
THEOREM PinnedRowsAreDurable == Spec => []PinnedRowsDurable
<1>1. Ind => PinnedRowsDurable
  BY DEF Ind, FooterBounds, PinnedRowsDurable
<1> QED BY <1>1, IndInvariant, PTL

(* Every row of a pinned snapshot is in the caches the search methods      *)
(* answer from.                                                            *)
THEOREM PinnedRowsAreSearchable == Spec => []PinnedRowsSearchable
<1>1. Ind => PinnedRowsSearchable
  BY DEF Ind, CachesFresh, PinnedRowsSearchable
<1> QED BY <1>1, IndInvariant, PTL

=============================================================================
