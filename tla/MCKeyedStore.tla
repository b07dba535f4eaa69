---------------------------- MODULE MCKeyedStore ----------------------------
(***************************************************************************)
(* Small instances of KeyedStore and of Declarations, side by side: a      *)
(* behaviour is one of the first, with nothing declared, or one of the     *)
(* second, with no record put.                                             *)
(***************************************************************************)
EXTENDS KeyedStore

CONSTANTS MaxSteps, MaxOpens

VARIABLES part, declEng, declReg, declDisk, declSeen, declLeft

D == INSTANCE Declarations WITH
       eng <- declEng, reg <- declReg, disk <- declDisk,
       seen <- declSeen, left <- declLeft

declarations == <<declEng, declReg, declDisk, declSeen, declLeft>>
allVars == <<vars, part, declarations>>

MCInit ==
  /\ Init
  /\ \/ /\ part = "records"
        /\ declEng = {} /\ declReg = {} /\ declDisk = {} /\ declSeen = {} /\ declLeft = {}
     \/ /\ part = "declarations"
        /\ D!DeclInit

RecordStep ==
  /\ part = "records"
  /\ Next
  /\ UNCHANGED <<part, declarations>>

DeclarationStep ==
  /\ part = "declarations"
  /\ D!DeclNext
  /\ UNCHANGED <<part, vars>>

MCNext == RecordStep \/ DeclarationStep

MCSpec == MCInit /\ [][MCNext]_allVars

(* The committed file opens and gives back what was declared (see          *)
(* Declarations).                                                          *)
DeclarationsReload == part = "declarations" => D!DeclarationsReload
=============================================================================
