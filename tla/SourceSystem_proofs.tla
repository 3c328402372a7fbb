------------------------ MODULE SourceSystem_proofs ------------------------
(***************************************************************************)
(* Theorems about the sources of a topic under arbitrary requests.         *)
(***************************************************************************)
EXTENDS SourceSystem, MessageSource_proofs

-----------------------------------------------------------------------------
(* Types *)

(* The environment sends nothing but requests. *)
LEMMA EnvRequestsType == EnvRequests \subseteq Request
  <1>1. ASSUME NEW k \in Sinks, NEW m \in Msgs
        PROVE  Get(k) \in Request /\ Recover(k) \in Request
                 /\ Del(k, KeyOf[m]) \in Request
    BY RequestTypes, ChannelsAssumption
  <1>2. ASSUME NEW k \in Sinks PROVE Get(k) \in Request /\ Recover(k) \in Request
    BY RequestTypes
  <1> QED
    BY <1>1, <1>2 DEF EnvRequests

(* Neither does the environment. *)
LEMMA TypeEnv ==
    ASSUME TypeInv,
           \/ \E r \in EnvRequests : EnvRequest(r)
           \/ \E s \in Sources, k \in Sinks : EnvReceive(s, k)
           \/ UNCHANGED vars
    PROVE  TypeInv'
  <1> USE DEF TypeInv, ServingOK
  <1>1. ASSUME NEW r \in EnvRequests, EnvRequest(r) PROVE TypeInv'
    <2>1. kafka' \in [Sources -> Seq(Payload)]
      BY <1>1, EnvRequestsType, ProduceType DEF EnvRequest
    <2> QED
      BY <1>1, <2>1 DEF EnvRequest, source, SourceTypeOK, ChannelsTypeOK
  <1>2. ASSUME NEW s \in Sources, NEW k \in Sinks, EnvReceive(s, k)
        PROVE  TypeInv'
    <2>1. Tail(pipe[s][k]) \in Seq(Msgs)
      BY <1>2, ToSetTail DEF EnvReceive, ZmqRecv, ChannelsTypeOK
    <2>2. pipe' \in [Sources -> [Sinks -> Seq(Msgs)]]
      BY <1>2, <2>1 DEF EnvReceive, ZmqRecv, ChannelsTypeOK
    <2> QED
      BY <1>2, <2>2 DEF EnvReceive, source, SourceTypeOK, ChannelsTypeOK
  <1>3. CASE UNCHANGED vars
    BY <1>3 DEF vars, source, channels, SourceTypeOK, ChannelsTypeOK
  <1> QED
    BY <1>1, <1>2, <1>3

(* The types hold in every reachable state. *)
LEMMA TypeInvariant == SafetySpec => []TypeInv
  <1>1. SystemInit => TypeInv
    BY TypeInit DEF SystemInit
  <1>2. TypeInv /\ [SystemNext]_vars => TypeInv'
    BY TypeStep, TypeEnv DEF SystemNext
  <1> QED
    BY <1>1, <1>2, PTL DEF SafetySpec

(* Every variable keeps its type, for any number of sources, sinks,        *)
(* messages and pending requests.                                          *)
THEOREM SystemTyped == SafetySpec => []SystemTypeOK
  <1>1. TypeInv => SystemTypeOK
    BY DEF TypeInv, SystemTypeOK
  <1> QED
    BY <1>1, TypeInvariant, PTL

-----------------------------------------------------------------------------
(* Ownership *)

(* Types and ownership together are inductive. *)
LEMMA OwnershipInvariant == SafetySpec => [](TypeInv /\ Ownership)
  <1>1. SystemInit => Ownership
    BY OwnershipInit DEF SystemInit
  <1>2. TypeInv /\ Ownership /\ [SystemNext]_vars => Ownership'
    <2> SUFFICES ASSUME TypeInv, Ownership, [SystemNext]_vars
                 PROVE  Ownership'
      OBVIOUS
    <2>1. TypeInv'
      BY TypeStep, TypeEnv DEF SystemNext
    <2>2. ASSUME NEW s \in Sources, SourceNext(s) PROVE Ownership'
      BY <2>2, OwnershipStep, SourceSystemAssumption
    <2>3. CASE \/ \E r \in EnvRequests : EnvRequest(r)
               \/ \E s \in Sources, k \in Sinks : EnvReceive(s, k)
               \/ UNCHANGED vars
      BY <2>1, <2>3, OwnershipElsewhere
         DEF EnvRequest, EnvReceive, vars, source
    <2> QED
      BY <2>2, <2>3 DEF SystemNext
  <1> QED
    BY <1>1, <1>2, TypeInvariant, PTL DEF SafetySpec

(* Whatever requests arrive, in whatever order, and whenever the source is *)
(* stopped, started again and destroyed: no message is leaked.             *)
THEOREM SystemNoLeak == SafetySpec => []NoLeak
  BY OwnershipInvariant, OwnershipImplies, PTL

(* Nothing that was deleted is referred to again. *)
THEOREM SystemNoUseAfterFree == SafetySpec => []NoUseAfterFree
  BY OwnershipInvariant, OwnershipImplies, PTL

(* While the source runs a message is in one place, and kept for the sink *)
(* whose GET took it.                                                     *)
THEOREM SystemOneOwner == SafetySpec => []OneOwner
  BY OwnershipInvariant, OwnershipImplies, PTL

(* stop() and the destructor leave no thread, socket or message behind. *)
THEOREM SystemStopLeavesNothing == SafetySpec => []StopLeavesNothing
  BY OwnershipInvariant, OwnershipImplies, PTL
=============================================================================
