---------------------------- MODULE NfsWireProofs ----------------------------
(***************************************************************************)
(* Theorems about NfsWire, for every value of the layouts, any statuses    *)
(* and any paths: each layout is exact by the theorems of XdrProofs, every *)
(* request is built in order, and from this the invariants of the module.  *)
(***************************************************************************)
EXTENDS NfsWire, XdrProofs

-----------------------------------------------------------------------------
(* The layouts. *)

\* Every discriminant and every number the layouts name fits in a word.
LEMMA Numbers ==
  /\ 0 .. 128 \subseteq Words
  /\ MaxWord \in Words
  /\ ErrorStatuses \in SUBSET Words
  /\ 0 \in Words /\ 0 \notin ErrorStatuses
<1>1. \A n \in 0 .. 128 : n \in Words
  BY SmallWord, SMT
<1>2. MaxWord \in Words
  BY MaxWordNumber DEF Words
<1>3. ErrorStatuses \in SUBSET Words /\ 0 \notin ErrorStatuses
  BY MaxWordNumber, WireAssumption DEF Words
<1> QED
  BY <1>1, <1>2, <1>3

\* Each layout of nfs4-types is exact, as its parts are.
LEMMA BlobExact == Exact(Blob) /\ Exact(String)
  BY Numbers, ExactOpaque DEF Blob, String

LEMMA NfsFh4Exact == Exact(NfsFh4)
<1>1. 128 \in Words
  BY Numbers
<1> QED
  BY <1>1, ExactOpaque DEF NfsFh4

LEMMA Verifier4Exact == Exact(Verifier4) /\ Exact(SessionId4) /\ Exact(Fixed(12))
  BY ExactFixed DEF Verifier4, SessionId4

LEMMA StateId4Exact == Exact(StateId4)
  BY ExactU32, Verifier4Exact, ExactStruct DEF StateId4

LEMMA ClientId4Exact == Exact(ClientId4)
  BY ExactU64 DEF ClientId4

LEMMA NfsTime4Exact == Exact(NfsTime4)
  BY ExactU32, ExactU64, ExactStruct DEF NfsTime4

LEMMA ChangeInfo4Exact == Exact(ChangeInfo4)
  BY ExactBool, ExactU64, ExactStruct DEF ChangeInfo4

LEMMA Bitmap4Exact == Exact(Bitmap4)
  BY ExactU32, ExactVec DEF Bitmap4

LEMMA Fattr4Exact == Exact(Fattr4)
  BY Bitmap4Exact, BlobExact, ExactStruct DEF Fattr4

LEMMA ConstExact ==
  /\ Exact(Const(0)) /\ Exact(Const(1)) /\ Exact(Const(2)) /\ Exact(Const(4))
<1>1. 0 \in Words /\ 1 \in Words /\ 2 \in Words /\ 4 \in Words
  BY Numbers
<1> QED
  BY <1>1, ExactConst

\* A result is the error it carries, or Ok and its data.
LEMMA ResultExact ==
  ASSUME NEW ok, Exact(ok)
  PROVE  Exact(Result(ok))
<1> DEFINE good == Arm({0}, ok)
           bad == Arm(ErrorStatuses, Void)
<1>1. EnumCodec(good, FALSE) /\ Quiet(good)
  BY Numbers, ExactArm DEF ExactBelow
<1>2. EnumCodec(bad, FALSE) /\ Quiet(bad)
  BY Numbers, VoidCodec, ArmCodec, ArmQuiet
<1>3. good.tags = {0} /\ bad.tags = ErrorStatuses
  BY ArmIs
<1> HIDE DEF good, bad
<1>4. good.tags \cap bad.tags = {}
  BY <1>3, Numbers
<1>5. EnumCodec(good ++ bad, FALSE) /\ Quiet(good ++ bad)
  BY <1>1, <1>2, <1>4, EnumJoins, EnumQuiet
<1>6. Exact(good ++ bad)
  BY <1>5 DEF EnumCodec, Exact
<1> QED
  BY <1>6 DEF Result, good, bad

LEMMA StatusExact == Exact(Status)
<1> DEFINE tags == {0} \cup ErrorStatuses
<1>1. tags \in SUBSET Words
  BY Numbers
<1> HIDE DEF tags
<1>2. Exact(Arm(tags, Void))
  BY <1>1, VoidCodec, ArmCodec, ArmQuiet DEF EnumCodec, Exact
<1> QED
  BY <1>2 DEF Status, tags

LEMMA SessionExact ==
  /\ Exact(ExchangeId4args) /\ Exact(ExchangeId4resok)
  /\ Exact(CreateSession4args) /\ Exact(CreateSession4resok)
  /\ Exact(Sequence4args) /\ Exact(Sequence4resok)
  /\ Exact(DestroySession4args) /\ Exact(ReclaimComplete4args)
<1>1. Exact(SpNone)
  BY ConstExact DEF SpNone
<1>2. Exact(Vec(ImplId4))
  BY BlobExact, NfsTime4Exact, ExactStruct, ExactVec DEF ImplId4
<1>3. Exact(ChannelAttrs4)
  BY ExactU32, ExactStruct, ExactVec DEF ChannelAttrs4
<1>4. Exact(Vec(CallbackSecParms4))
  BY ExactU32, ConstExact, ExactStruct, ExactVec DEF CallbackSecParms4
<1>5. Exact(ExchangeId4args)
  BY <1>1, <1>2, Verifier4Exact, BlobExact, ExactU32, ExactStruct DEF ExchangeId4args
<1>6. Exact(ExchangeId4resok)
  BY <1>1, <1>2, ClientId4Exact, BlobExact, ExactU64, ExactU32, ExactStruct
     DEF ExchangeId4resok
<1>7. Exact(CreateSession4args)
  BY <1>3, <1>4, ClientId4Exact, ExactU32, ExactStruct DEF CreateSession4args
<1>8. Exact(CreateSession4resok)
  BY <1>3, Verifier4Exact, ExactU32, ExactStruct DEF CreateSession4resok
<1>9. Exact(Sequence4args) /\ Exact(Sequence4resok)
  BY Verifier4Exact, ExactU32, ExactBool, ExactStruct DEF Sequence4args, Sequence4resok
<1>10. Exact(DestroySession4args) /\ Exact(ReclaimComplete4args)
  BY Verifier4Exact, ExactBool DEF DestroySession4args, ReclaimComplete4args
<1> QED
  BY <1>5, <1>6, <1>7, <1>8, <1>9, <1>10

LEMMA FileHandleExact ==
  /\ Exact(PutFh4args) /\ Exact(Lookup4args) /\ Exact(GetFh4resok)
  /\ Exact(GetAttr4args) /\ Exact(GetAttr4resok)
  /\ Exact(SetAttr4args) /\ Exact(SetAttr4resok)
<1>1. Exact(SetAttr4args)
  BY StateId4Exact, Fattr4Exact, ExactStruct DEF SetAttr4args
<1> QED
  BY <1>1, NfsFh4Exact, BlobExact, Bitmap4Exact, Fattr4Exact
     DEF PutFh4args, Lookup4args, GetFh4resok, GetAttr4args, GetAttr4resok, SetAttr4resok

LEMMA OpenHow4Exact == Exact(OpenHow4)
<1>1. 0 \in Words /\ 1 \in Words /\ 1 \in Nat /\ 1 <= 1
  BY Numbers
<1>2. ExactBelow(Const(0), 1)
  <2>1. ExactBelow(Const(0), 0 + 1) /\ 0 + 1 = 1
    BY <1>1, ExactConst
  <2> QED
    BY <2>1
<1>3. Exact(Const(0) ** Fattr4)
  BY ConstExact, Fattr4Exact, ExactStruct
<1>4. ExactBelow(Const(0) ++ Arm({1}, Const(0) ** Fattr4), 1 + 1)
  BY <1>1, <1>2, <1>3, ExactJoins
<1>5. Exact(Const(0) ++ Arm({1}, Const(0) ** Fattr4))
  BY <1>4, ExactEnum
<1> QED
  BY <1>5 DEF OpenHow4

LEMMA OpenClaim4Exact == Exact(OpenClaim4)
<1>1. 0 \in Words /\ 4 \in Words /\ 1 \in Nat /\ 1 <= 4
  BY Numbers
<1>2. ExactBelow(Arm({0}, String), 1)
  <2>1. ExactBelow(Arm({0}, String), 0 + 1) /\ 0 + 1 = 1
    BY <1>1, ExactArm, BlobExact
  <2> QED
    BY <2>1
<1>3. ExactBelow(Arm({0}, String) ++ Arm({4}, Void), 4 + 1)
  BY <1>1, <1>2, ExactVoid, ExactJoins
<1>4. Exact(Arm({0}, String) ++ Arm({4}, Void))
  BY <1>3, ExactEnum
<1> QED
  BY <1>4 DEF OpenClaim4, Const

LEMMA DataExact ==
  /\ Exact(Open4args) /\ Exact(Open4resok) /\ Exact(Close4args) /\ Exact(Close4resok)
  /\ Exact(Read4args) /\ Exact(Read4resok) /\ Exact(Write4args) /\ Exact(Write4resok)
  /\ Exact(ReadDir4args) /\ Exact(ReadDir4resok)
  /\ Exact(Remove4args) /\ Exact(Remove4resok)
  /\ Exact(Rename4args) /\ Exact(Rename4resok)
<1>1. Exact(OpenOwner4)
  BY ClientId4Exact, BlobExact, ExactStruct DEF OpenOwner4
<1>2. Exact(Open4args)
  BY <1>1, ExactU32, OpenHow4Exact, OpenClaim4Exact, ExactStruct DEF Open4args
<1>3. Exact(Open4resok)
  BY StateId4Exact, ChangeInfo4Exact, ExactU32, Bitmap4Exact, ConstExact, ExactStruct
     DEF Open4resok, OpenDelegation4
<1>4. Exact(Close4args) /\ Exact(Close4resok)
  BY StateId4Exact, ExactU32, ExactStruct DEF Close4args, Close4resok
<1>5. Exact(Read4args) /\ Exact(Read4resok)
  BY StateId4Exact, ExactU32, ExactU64, ExactBool, BlobExact, ExactStruct
     DEF Read4args, Read4resok
<1>6. Exact(Write4args) /\ Exact(Write4resok)
  BY StateId4Exact, ExactU32, ExactU64, Verifier4Exact, BlobExact, ExactStruct
     DEF Write4args, Write4resok
<1>7. Exact(ReadDir4args)
  BY ExactU32, ExactU64, Verifier4Exact, Bitmap4Exact, ExactStruct DEF ReadDir4args
<1>8. Exact(Chain(U64 ** String ** Fattr4))
  BY ExactU64, BlobExact, Fattr4Exact, ExactStruct, ExactChain
<1>9. Exact(ReadDir4resok)
  BY <1>8, Verifier4Exact, ExactBool, ExactStruct DEF ReadDir4resok
<1>10. Exact(Remove4args) /\ Exact(Remove4resok)
  BY BlobExact, ChangeInfo4Exact DEF Remove4args, Remove4resok
<1>11. Exact(Rename4args) /\ Exact(Rename4resok)
  BY BlobExact, ChangeInfo4Exact, ExactStruct DEF Rename4args, Rename4resok
<1> QED
  BY <1>2, <1>3, <1>4, <1>5, <1>6, <1>7, <1>9, <1>10, <1>11

\* No two operations have a number in common.
LEMMA NfsArgOp4Exact == Exact(NfsArgOp4)
<1> DEFINE e1 == Arm({4}, Close4args)
           e2 == e1 ++ Arm({9}, GetAttr4args)
           e3 == e2 ++ Arm({10}, Void)
           e4 == e3 ++ Arm({15}, Lookup4args)
           e5 == e4 ++ Arm({18}, Open4args)
           e6 == e5 ++ Arm({22}, PutFh4args)
           e7 == e6 ++ Arm({24}, Void)
           e8 == e7 ++ Arm({25}, Read4args)
           e9 == e8 ++ Arm({26}, ReadDir4args)
           e10 == e9 ++ Arm({28}, Remove4args)
           e11 == e10 ++ Arm({29}, Rename4args)
           e12 == e11 ++ Arm({34}, SetAttr4args)
           e13 == e12 ++ Arm({38}, Write4args)
           e14 == e13 ++ Arm({42}, ExchangeId4args)
           e15 == e14 ++ Arm({43}, CreateSession4args)
           e16 == e15 ++ Arm({44}, DestroySession4args)
           e17 == e16 ++ Arm({53}, Sequence4args)
           e18 == e17 ++ Arm({58}, ReclaimComplete4args)
<1>w. /\ 4 \in Words /\ 9 \in Words /\ 10 \in Words /\ 15 \in Words /\ 18 \in Words
      /\ 22 \in Words /\ 24 \in Words /\ 25 \in Words /\ 26 \in Words /\ 28 \in Words
      /\ 29 \in Words /\ 34 \in Words /\ 38 \in Words /\ 42 \in Words /\ 43 \in Words
      /\ 44 \in Words /\ 53 \in Words /\ 58 \in Words
  BY Numbers
<1>t. /\ Exact(Close4args) /\ Exact(GetAttr4args) /\ Exact(Void)
      /\ Exact(Lookup4args) /\ Exact(Open4args) /\ Exact(PutFh4args)
      /\ Exact(Read4args) /\ Exact(ReadDir4args) /\ Exact(Remove4args)
      /\ Exact(Rename4args) /\ Exact(SetAttr4args) /\ Exact(Write4args)
      /\ Exact(ExchangeId4args) /\ Exact(CreateSession4args) /\ Exact(DestroySession4args)
      /\ Exact(Sequence4args) /\ Exact(ReclaimComplete4args)
  BY SessionExact, FileHandleExact, DataExact, ExactVoid
<1>1. ExactBelow(e1, 4 + 1)
  BY <1>w, <1>t, ExactArm
<1> HIDE DEF e1
<1>2. ExactBelow(e2, 9 + 1)
  BY <1>1, <1>w, <1>t, ExactJoins, 4 + 1 \in Nat /\ 4 + 1 <= 9
<1> HIDE DEF e2
<1>3. ExactBelow(e3, 10 + 1)
  BY <1>2, <1>w, <1>t, ExactJoins, 9 + 1 \in Nat /\ 9 + 1 <= 10
<1> HIDE DEF e3
<1>4. ExactBelow(e4, 15 + 1)
  BY <1>3, <1>w, <1>t, ExactJoins, 10 + 1 \in Nat /\ 10 + 1 <= 15
<1> HIDE DEF e4
<1>5. ExactBelow(e5, 18 + 1)
  BY <1>4, <1>w, <1>t, ExactJoins, 15 + 1 \in Nat /\ 15 + 1 <= 18
<1> HIDE DEF e5
<1>6. ExactBelow(e6, 22 + 1)
  BY <1>5, <1>w, <1>t, ExactJoins, 18 + 1 \in Nat /\ 18 + 1 <= 22
<1> HIDE DEF e6
<1>7. ExactBelow(e7, 24 + 1)
  BY <1>6, <1>w, <1>t, ExactJoins, 22 + 1 \in Nat /\ 22 + 1 <= 24
<1> HIDE DEF e7
<1>8. ExactBelow(e8, 25 + 1)
  BY <1>7, <1>w, <1>t, ExactJoins, 24 + 1 \in Nat /\ 24 + 1 <= 25
<1> HIDE DEF e8
<1>9. ExactBelow(e9, 26 + 1)
  BY <1>8, <1>w, <1>t, ExactJoins, 25 + 1 \in Nat /\ 25 + 1 <= 26
<1> HIDE DEF e9
<1>10. ExactBelow(e10, 28 + 1)
  BY <1>9, <1>w, <1>t, ExactJoins, 26 + 1 \in Nat /\ 26 + 1 <= 28
<1> HIDE DEF e10
<1>11. ExactBelow(e11, 29 + 1)
  BY <1>10, <1>w, <1>t, ExactJoins, 28 + 1 \in Nat /\ 28 + 1 <= 29
<1> HIDE DEF e11
<1>12. ExactBelow(e12, 34 + 1)
  BY <1>11, <1>w, <1>t, ExactJoins, 29 + 1 \in Nat /\ 29 + 1 <= 34
<1> HIDE DEF e12
<1>13. ExactBelow(e13, 38 + 1)
  BY <1>12, <1>w, <1>t, ExactJoins, 34 + 1 \in Nat /\ 34 + 1 <= 38
<1> HIDE DEF e13
<1>14. ExactBelow(e14, 42 + 1)
  BY <1>13, <1>w, <1>t, ExactJoins, 38 + 1 \in Nat /\ 38 + 1 <= 42
<1> HIDE DEF e14
<1>15. ExactBelow(e15, 43 + 1)
  BY <1>14, <1>w, <1>t, ExactJoins, 42 + 1 \in Nat /\ 42 + 1 <= 43
<1> HIDE DEF e15
<1>16. ExactBelow(e16, 44 + 1)
  BY <1>15, <1>w, <1>t, ExactJoins, 43 + 1 \in Nat /\ 43 + 1 <= 44
<1> HIDE DEF e16
<1>17. ExactBelow(e17, 53 + 1)
  BY <1>16, <1>w, <1>t, ExactJoins, 44 + 1 \in Nat /\ 44 + 1 <= 53
<1> HIDE DEF e17
<1>18. ExactBelow(e18, 58 + 1)
  BY <1>17, <1>w, <1>t, ExactJoins, 53 + 1 \in Nat /\ 53 + 1 <= 58
<1> QED
  BY <1>18, ExactEnum DEF NfsArgOp4, e1, e2, e3, e4, e5, e6, e7, e8, e9, e10, e11, e12, e13, e14, e15, e16, e17, e18

\* Nor have two of their results.
LEMMA NfsResOp4Exact == Exact(NfsResOp4)
<1> DEFINE e1 == Arm({4}, Result(Close4resok))
           e2 == e1 ++ Arm({9}, Result(GetAttr4resok))
           e3 == e2 ++ Arm({10}, Result(GetFh4resok))
           e4 == e3 ++ Arm({15}, Result(Void))
           e5 == e4 ++ Arm({18}, Result(Open4resok))
           e6 == e5 ++ Arm({22}, Result(Void))
           e7 == e6 ++ Arm({24}, Result(Void))
           e8 == e7 ++ Arm({25}, Result(Read4resok))
           e9 == e8 ++ Arm({26}, Result(ReadDir4resok))
           e10 == e9 ++ Arm({28}, Result(Remove4resok))
           e11 == e10 ++ Arm({29}, Result(Rename4resok))
           e12 == e11 ++ Arm({34}, Result(SetAttr4resok))
           e13 == e12 ++ Arm({38}, Result(Write4resok))
           e14 == e13 ++ Arm({42}, Result(ExchangeId4resok))
           e15 == e14 ++ Arm({43}, Result(CreateSession4resok))
           e16 == e15 ++ Arm({44}, Result(Void))
           e17 == e16 ++ Arm({53}, Result(Sequence4resok))
           e18 == e17 ++ Arm({58}, Result(Void))
<1>w. /\ 4 \in Words /\ 9 \in Words /\ 10 \in Words /\ 15 \in Words /\ 18 \in Words
      /\ 22 \in Words /\ 24 \in Words /\ 25 \in Words /\ 26 \in Words /\ 28 \in Words
      /\ 29 \in Words /\ 34 \in Words /\ 38 \in Words /\ 42 \in Words /\ 43 \in Words
      /\ 44 \in Words /\ 53 \in Words /\ 58 \in Words
  BY Numbers
<1>t. /\ Exact(Result(Close4resok)) /\ Exact(Result(GetAttr4resok)) /\ Exact(Result(GetFh4resok))
      /\ Exact(Result(Void)) /\ Exact(Result(Open4resok)) /\ Exact(Result(Read4resok))
      /\ Exact(Result(ReadDir4resok)) /\ Exact(Result(Remove4resok)) /\ Exact(Result(Rename4resok))
      /\ Exact(Result(SetAttr4resok)) /\ Exact(Result(Write4resok)) /\ Exact(Result(ExchangeId4resok))
      /\ Exact(Result(CreateSession4resok)) /\ Exact(Result(Sequence4resok))
  BY SessionExact, FileHandleExact, DataExact, ExactVoid, ResultExact
<1>1. ExactBelow(e1, 4 + 1)
  BY <1>w, <1>t, ExactArm
<1> HIDE DEF e1
<1>2. ExactBelow(e2, 9 + 1)
  BY <1>1, <1>w, <1>t, ExactJoins, 4 + 1 \in Nat /\ 4 + 1 <= 9
<1> HIDE DEF e2
<1>3. ExactBelow(e3, 10 + 1)
  BY <1>2, <1>w, <1>t, ExactJoins, 9 + 1 \in Nat /\ 9 + 1 <= 10
<1> HIDE DEF e3
<1>4. ExactBelow(e4, 15 + 1)
  BY <1>3, <1>w, <1>t, ExactJoins, 10 + 1 \in Nat /\ 10 + 1 <= 15
<1> HIDE DEF e4
<1>5. ExactBelow(e5, 18 + 1)
  BY <1>4, <1>w, <1>t, ExactJoins, 15 + 1 \in Nat /\ 15 + 1 <= 18
<1> HIDE DEF e5
<1>6. ExactBelow(e6, 22 + 1)
  BY <1>5, <1>w, <1>t, ExactJoins, 18 + 1 \in Nat /\ 18 + 1 <= 22
<1> HIDE DEF e6
<1>7. ExactBelow(e7, 24 + 1)
  BY <1>6, <1>w, <1>t, ExactJoins, 22 + 1 \in Nat /\ 22 + 1 <= 24
<1> HIDE DEF e7
<1>8. ExactBelow(e8, 25 + 1)
  BY <1>7, <1>w, <1>t, ExactJoins, 24 + 1 \in Nat /\ 24 + 1 <= 25
<1> HIDE DEF e8
<1>9. ExactBelow(e9, 26 + 1)
  BY <1>8, <1>w, <1>t, ExactJoins, 25 + 1 \in Nat /\ 25 + 1 <= 26
<1> HIDE DEF e9
<1>10. ExactBelow(e10, 28 + 1)
  BY <1>9, <1>w, <1>t, ExactJoins, 26 + 1 \in Nat /\ 26 + 1 <= 28
<1> HIDE DEF e10
<1>11. ExactBelow(e11, 29 + 1)
  BY <1>10, <1>w, <1>t, ExactJoins, 28 + 1 \in Nat /\ 28 + 1 <= 29
<1> HIDE DEF e11
<1>12. ExactBelow(e12, 34 + 1)
  BY <1>11, <1>w, <1>t, ExactJoins, 29 + 1 \in Nat /\ 29 + 1 <= 34
<1> HIDE DEF e12
<1>13. ExactBelow(e13, 38 + 1)
  BY <1>12, <1>w, <1>t, ExactJoins, 34 + 1 \in Nat /\ 34 + 1 <= 38
<1> HIDE DEF e13
<1>14. ExactBelow(e14, 42 + 1)
  BY <1>13, <1>w, <1>t, ExactJoins, 38 + 1 \in Nat /\ 38 + 1 <= 42
<1> HIDE DEF e14
<1>15. ExactBelow(e15, 43 + 1)
  BY <1>14, <1>w, <1>t, ExactJoins, 42 + 1 \in Nat /\ 42 + 1 <= 43
<1> HIDE DEF e15
<1>16. ExactBelow(e16, 44 + 1)
  BY <1>15, <1>w, <1>t, ExactJoins, 43 + 1 \in Nat /\ 43 + 1 <= 44
<1> HIDE DEF e16
<1>17. ExactBelow(e17, 53 + 1)
  BY <1>16, <1>w, <1>t, ExactJoins, 44 + 1 \in Nat /\ 44 + 1 <= 53
<1> HIDE DEF e17
<1>18. ExactBelow(e18, 58 + 1)
  BY <1>17, <1>w, <1>t, ExactJoins, 53 + 1 \in Nat /\ 53 + 1 <= 58
<1> QED
  BY <1>18, ExactEnum DEF NfsResOp4, e1, e2, e3, e4, e5, e6, e7, e8, e9, e10, e11, e12, e13, e14, e15, e16, e17, e18

LEMMA CompoundExact == Exact(Compound4args) /\ Exact(Compound4res)
<1>1. Exact(Compound4args)
  BY BlobExact, ExactU32, NfsArgOp4Exact, ExactVec, ExactStruct DEF Compound4args
<1>2. Exact(Compound4res)
  BY BlobExact, StatusExact, NfsResOp4Exact, ExactVec, ExactStruct DEF Compound4res
<1> QED
  BY <1>1, <1>2

-----------------------------------------------------------------------------
(* RPC. *)

\* The body of AUTH_SYS.
SysBody == U32 ** String ** U32 ** U32 ** Vec(U32)

LEMMA SysBodyExact == Exact(SysBody)
  BY ExactU32, BlobExact, ExactVec, ExactStruct DEF SysBody

LEMMA AuthFlavorIs == AuthFlavor = Auth(SysBody)
  BY DEF AuthFlavor, SysBody

LEMMA AuthFlavorCodec == Codec(AuthFlavor, FALSE)
  BY SysBodyExact, AuthFlavorIs, AuthCodec DEF Exact

\* Where decoding a credential or verifier may end.
LEMMA AuthFlavorEnds ==
  ASSUME NEW b \in Bytes
  PROVE  AuthEnds(AuthFlavor.dec[b], b)
  BY SysBodyExact, AuthFlavorIs, AuthContained DEF Exact

LEMMA CallHeaderExact == Exact(CallHeader)
  BY ExactU32, ConstExact, ExactStruct DEF CallHeader

LEMMA ReplyHeaderExact == Exact(ReplyHeader)
  BY ExactU32, ConstExact, ExactStruct DEF ReplyHeader

\* A call is read back; its COMPOUND may swallow what follows.
LEMMA RpcCallCodec == Codec(RpcCall, TRUE)
<1>1. Codec(CallHeader, FALSE)
  BY CallHeaderExact DEF Exact
<1>2. Codec(CallHeader ** AuthFlavor, FALSE)
  BY <1>1, AuthFlavorCodec, StructCodec
<1>3. Codec(CallHeader ** AuthFlavor ** AuthFlavor, FALSE)
  BY <1>2, AuthFlavorCodec, StructCodec, ZenonT(60)
<1>4. Codec(Body(Compound4args), TRUE)
  BY CompoundExact, BodyCodec DEF Exact
<1> QED
  BY <1>3, <1>4, StructCodec DEF RpcCall

\* So may the results of a reply.
LEMMA AcceptStatusCodec == Codec(AcceptStatus, TRUE) /\ Quiet(AcceptStatus)
<1> DEFINE a == Arm({0}, Body(Compound4res))
           c == Arm({2}, U32 ** U32)
           d == Arm({1, 3, 4, 5}, Void)
<1>1. {0} \in SUBSET Words /\ {2} \in SUBSET Words /\ {1, 3, 4, 5} \in SUBSET Words
  BY Numbers
<1>2. Codec(Body(Compound4res), TRUE) /\ Quiet(Body(Compound4res))
  BY CompoundExact, BodyCodec, BodyQuiet DEF Exact
<1>3. Codec(U32 ** U32, TRUE) /\ Quiet(U32 ** U32)
  BY ExactU32, ExactStruct, CodecLast DEF Exact
<1>4. Codec(Void, TRUE) /\ Quiet(Void)
  BY VoidCodec, CodecLast
<1>5. EnumCodec(a, TRUE) /\ Quiet(a)
  BY <1>1, <1>2, ArmCodec, ArmQuiet
<1>6. EnumCodec(c, TRUE) /\ Quiet(c)
  BY <1>1, <1>3, ArmCodec, ArmQuiet
<1>7. EnumCodec(d, TRUE) /\ Quiet(d)
  BY <1>1, <1>4, ArmCodec, ArmQuiet
<1>8. a.tags = {0} /\ c.tags = {2} /\ d.tags = {1, 3, 4, 5}
  BY ArmIs
<1> HIDE DEF a, c, d
<1>9. a.tags \cap c.tags = {}
  BY <1>8
<1>10. EnumCodec(a ++ c, TRUE) /\ Quiet(a ++ c)
  BY <1>5, <1>6, <1>9, EnumJoins, EnumQuiet
<1>11. (a ++ c).tags = {0, 2}
  BY <1>8, EnumIs
<1>12. (a ++ c).tags \cap d.tags = {}
  BY <1>8, <1>11
<1>13. EnumCodec((a ++ c) ++ d, TRUE) /\ Quiet((a ++ c) ++ d)
  BY <1>7, <1>10, <1>12, EnumJoins, EnumQuiet
<1>14. AcceptStatus = (a ++ c) ++ d
  BY DEF AcceptStatus, a, c, d
<1> QED
  BY <1>13, <1>14 DEF EnumCodec

LEMMA RpcReplyCodec == Codec(RpcReply, TRUE)
<1>1. Codec(ReplyHeader, FALSE)
  BY ReplyHeaderExact DEF Exact
<1>2. Codec(ReplyHeader ** AuthFlavor, FALSE)
  BY <1>1, AuthFlavorCodec, StructCodec
<1> QED
  BY <1>2, AcceptStatusCodec, StructCodec DEF RpcReply

-----------------------------------------------------------------------------
(* Where a decoder may panic. *)

\* What t decodes is the first n bytes.
Takes(t, n) ==
  \A b \in Bytes : t.dec[b].out = "ok" => Len(b) >= n /\ t.dec[b].rest = From(b, n)

\* Of the headers, every field takes four bytes.
LEMMA U32Takes == Takes(U32, 4)
  BY U32Is, DecU32Any DEF Takes

LEMMA ConstTakes ==
  ASSUME NEW n \in Words
  PROVE  Takes(Const(n), 4)
<1> SUFFICES ASSUME NEW b \in Bytes, Const(n).dec[b].out = "ok"
             PROVE  Len(b) >= 4 /\ Const(n).dec[b].rest = From(b, 4)
  BY DEF Takes
<1>1. Const(n).dec[b] = DecArm({n}, Void, b)
  BY ArmIs DEF Const
<1>2. DecU32(b).out = "ok"
  BY <1>1 DEF DecArm
<1>3. Len(b) >= 4 /\ DecU32(b).rest = From(b, 4) /\ DecU32(b).rest \in Bytes
  BY <1>2, DecU32Any
<1>4. DecU32(b).val \in {n}
  BY <1>1, <1>2, ErrFields DEF DecArm
<1>5. Const(n).dec[b] = After(DecU32(b), Ok(<<>>, From(b, 4)))
  BY <1>1, <1>2, <1>3, <1>4, VoidIs DEF DecArm
<1>6. Const(n).dec[b].rest = From(b, 4)
  BY <1>5, OkFields DEF After
<1> QED
  BY <1>3, <1>6

LEMMA StructTakes ==
  ASSUME NEW t, NEW u, NEW m \in Nat, NEW n \in Nat, Takes(t, m), Takes(u, n)
  PROVE  Takes(t ** u, m + n)
<1> SUFFICES ASSUME NEW b \in Bytes, (t ** u).dec[b].out = "ok"
             PROVE  Len(b) >= m + n /\ (t ** u).dec[b].rest = From(b, m + n)
  BY DEF Takes
<1> DEFINE part == t.dec[b]
           c == From(b, m)
           r == u.dec[c]
<1>1. (t ** u).dec[b] = DecStruct(t, u, b)
  BY StructIs
<1>2. part.out = "ok"
  BY <1>1 DEF DecStruct
<1>3. Len(b) >= m /\ part.rest = c
  BY <1>2 DEF Takes
<1>4. (t ** u).dec[b] = After(part, r)
  BY <1>1, <1>2, <1>3 DEF DecStruct
<1>5. r.out = "ok" /\ (t ** u).dec[b].rest = r.rest
  BY <1>4, OkFields DEF After
<1>6. b \in Seq(0 .. 255) /\ m \in 0 .. Len(b)
  BY <1>3 DEF Bytes
<1>7. c \in Bytes /\ Len(c) = Len(b) - m
  BY <1>6, FromProperties DEF Bytes
<1>8. Len(c) >= n /\ r.rest = From(c, n)
  BY <1>5, <1>7 DEF Takes
<1>9. m + n <= Len(b)
  BY <1>3, <1>6, <1>7, <1>8
<1>10. From(c, n) = From(b, m + n)
  BY <1>6, <1>9, FromFrom
<1> QED
  BY <1>5, <1>6, <1>8, <1>9, <1>10

\* The credential of a call begins at byte 24, the verifier of a reply at 12.
LEMMA HeadersTake == Takes(CallHeader, 24) /\ Takes(ReplyHeader, 12)
<1>1. Takes(U32, 4) /\ Takes(Const(0), 4) /\ Takes(Const(1), 4) /\ Takes(Const(2), 4)
  <2>1. 0 \in Words /\ 1 \in Words /\ 2 \in Words
    BY Numbers
  <2> QED
    BY <2>1, U32Takes, ConstTakes
<1>2. Takes(U32 ** Const(0), 4 + 4) /\ Takes(U32 ** Const(1), 4 + 4)
  BY <1>1, StructTakes
<1>3. Takes(U32 ** Const(0) ** Const(2), 8 + 4) /\ Takes(U32 ** Const(1) ** Const(0), 8 + 4)
  BY <1>1, <1>2, StructTakes
<1>4. Takes(U32 ** Const(0) ** Const(2) ** U32, 12 + 4)
  BY <1>1, <1>3, StructTakes
<1>5. Takes(U32 ** Const(0) ** Const(2) ** U32 ** U32, 16 + 4)
  BY <1>1, <1>4, StructTakes
<1>6. Takes(U32 ** Const(0) ** Const(2) ** U32 ** U32 ** U32, 20 + 4)
  BY <1>1, <1>5, StructTakes
<1> QED
  BY <1>3, <1>6 DEF CallHeader, ReplyHeader

\* A struct panics in its first part, or in what follows it.
LEMMA StructPanics ==
  ASSUME NEW t, NEW u, NEW b, (t ** u).dec[b].out = "panic", b \in Bytes
  PROVE  \/ t.dec[b].out = "panic"
         \/ t.dec[b].out = "ok" /\ u.dec[t.dec[b].rest].out = "panic"
<1>1. (t ** u).dec[b] = DecStruct(t, u, b)
  BY StructIs
<1>2. CASE t.dec[b].out = "ok"
  <2>1. DecStruct(t, u, b) = After(t.dec[b], u.dec[t.dec[b].rest])
    BY <1>2 DEF DecStruct
  <2>2. CASE u.dec[t.dec[b].rest].out = "ok"
    <3> DEFINE part == t.dec[b]
               r == u.dec[part.rest]
    <3>1. After(part, r) = Ok(<<part.val, r.val>>, r.rest)
      BY <2>2 DEF After
    <3>2. After(part, r).out = "ok"
      <4> HIDE DEF part, r
      <4> QED
        BY <3>1, OkFields
    <3>3. DecStruct(t, u, b).out = "ok"
      BY <2>1, <3>2
    <3> QED
      BY <1>1, <3>3
  <2>3. CASE u.dec[t.dec[b].rest].out # "ok"
    BY <1>1, <1>2, <2>1, <2>3 DEF After
  <2> QED
    BY <2>2, <2>3
<1>3. CASE t.dec[b].out # "ok"
  BY <1>1, <1>3 DEF DecStruct
<1> QED
  BY <1>2, <1>3

\* What a struct leaves over is what its second part left over.
LEMMA StructRest ==
  ASSUME NEW t, NEW u, NEW b \in Bytes, (t ** u).dec[b].out = "ok"
  PROVE  /\ t.dec[b].out = "ok"
         /\ u.dec[t.dec[b].rest].out = "ok"
         /\ (t ** u).dec[b].rest = u.dec[t.dec[b].rest].rest
<1>1. (t ** u).dec[b] = DecStruct(t, u, b)
  BY StructIs
<1>2. t.dec[b].out = "ok"
  BY <1>1 DEF DecStruct
<1> DEFINE part == t.dec[b]
           r == u.dec[part.rest]
<1>3. DecStruct(t, u, b) = After(part, r)
  BY <1>2 DEF DecStruct
<1>4. After(part, r).out = "ok"
  BY <1>1, <1>3
<1> HIDE DEF part, r
<1>5. r.out = "ok"
  BY <1>4 DEF After
<1>6. After(part, r) = Ok(<<part.val, r.val>>, r.rest)
  BY <1>5 DEF After
<1>7. After(part, r).rest = r.rest
  BY <1>6, OkFields
<1> QED
  BY <1>1, <1>2, <1>3, <1>5, <1>7 DEF part, r

\* The condition of ChangeIsContained is that of AuthContained.
LEMMA OverrunsIs == \A b : Overruns(b) <=> PastEnd(b)
  BY DEF Overruns, PastEnd

\* A header of n bytes leaves the bytes after them.
LEMMA AfterHeader ==
  ASSUME NEW h, NEW n \in Nat, Exact(h), Takes(h, n), NEW b \in Bytes
  PROVE  /\ h.dec[b].out # "panic"
         /\ h.dec[b].out = "ok" => From(b, n) \in Bytes /\ h.dec[b].rest = From(b, n)
<1>1. Settles(h.dec[b], b)
  BY DEF Exact, Quiet
<1>2. h.dec[b].out \in {"ok", "err", "abort"} /\ h.dec[b].rest \in Bytes
  BY <1>1 DEF Settles
<1> QED
  BY <1>2 DEF Takes

\* Decoding a reply panics only at the length of its verifier.
LEMMA ReplyPanics ==
  ASSUME NEW b \in Bytes, RpcReply.dec[b].out = "panic"
  PROVE  Overruns(From(b, 12))
<1> DEFINE h == ReplyHeader
           c == From(b, 12)
<1>1. Exact(h) /\ Takes(h, 12)
  BY ReplyHeaderExact, HeadersTake
<1>2. h.dec[b].out # "panic" /\ (h.dec[b].out = "ok" => c \in Bytes /\ h.dec[b].rest = c)
  BY <1>1, AfterHeader
<1>3. \/ (h ** AuthFlavor).dec[b].out = "panic"
      \/ /\ (h ** AuthFlavor).dec[b].out = "ok"
         /\ AcceptStatus.dec[(h ** AuthFlavor).dec[b].rest].out = "panic"
  BY StructPanics DEF RpcReply
<1>4. CASE (h ** AuthFlavor).dec[b].out = "panic"
  <2>1. h.dec[b].out = "ok" /\ AuthFlavor.dec[h.dec[b].rest].out = "panic"
    BY <1>2, <1>4, StructPanics
  <2>2. c \in Bytes /\ AuthFlavor.dec[c].out = "panic"
    BY <1>2, <2>1
  <2> QED
    BY <2>2, AuthFlavorEnds, OverrunsIs DEF AuthEnds, Settles
<1>5. CASE /\ (h ** AuthFlavor).dec[b].out = "ok"
           /\ AcceptStatus.dec[(h ** AuthFlavor).dec[b].rest].out = "panic"
  <2> DEFINE q == AuthFlavor.dec[h.dec[b].rest].rest
  <2>1. /\ h.dec[b].out = "ok" /\ (h ** AuthFlavor).dec[b].rest = q
        /\ AuthFlavor.dec[h.dec[b].rest].out = "ok"
    BY <1>5, StructRest
  <2>2. q \in Bytes
    BY <1>2, <2>1, AuthFlavorEnds DEF AuthEnds, Settles
  <2>3. AcceptStatus.dec[q].out \in {"ok", "err", "abort"}
    BY <2>2, AcceptStatusCodec DEF Quiet, Settles
  <2> QED
    BY <1>5, <2>1, <2>3
<1> QED
  BY <1>3, <1>4, <1>5

\* Decoding a call panics only at the length of its credential or verifier.
LEMMA CallPanics ==
  ASSUME NEW b \in Bytes, RpcCall.dec[b].out = "panic"
  PROVE  Overruns(From(b, 24)) \/ Overruns(AuthFlavor.dec[From(b, 24)].rest)
<1> DEFINE h == CallHeader
           c == From(b, 24)
           ha == h ** AuthFlavor
           haa == ha ** AuthFlavor
           d == AuthFlavor.dec[c].rest
<1>1. Exact(h) /\ Takes(h, 24)
  BY CallHeaderExact, HeadersTake
<1>2. h.dec[b].out # "panic" /\ (h.dec[b].out = "ok" => c \in Bytes /\ h.dec[b].rest = c)
  BY <1>1, AfterHeader
<1> HIDE DEF h
<1>3. \/ haa.dec[b].out = "panic"
      \/ haa.dec[b].out = "ok" /\ Body(Compound4args).dec[haa.dec[b].rest].out = "panic"
  BY StructPanics DEF RpcCall, h
<1>4. ha.dec[b].out = "panic" => Overruns(c)
  <2> SUFFICES ASSUME ha.dec[b].out = "panic"
               PROVE  Overruns(c)
    OBVIOUS
  <2>1. h.dec[b].out = "ok" /\ AuthFlavor.dec[h.dec[b].rest].out = "panic"
    BY <1>2, StructPanics
  <2>2. c \in Bytes /\ AuthFlavor.dec[c].out = "panic"
    BY <1>2, <2>1
  <2> QED
    BY <2>2, AuthFlavorEnds, OverrunsIs DEF AuthEnds, Settles
<1>5. ha.dec[b].out = "ok" => ha.dec[b].rest = d /\ d \in Bytes
  <2> SUFFICES ASSUME ha.dec[b].out = "ok"
               PROVE  ha.dec[b].rest = d /\ d \in Bytes
    OBVIOUS
  <2>1. /\ h.dec[b].out = "ok" /\ ha.dec[b].rest = AuthFlavor.dec[h.dec[b].rest].rest
        /\ AuthFlavor.dec[h.dec[b].rest].out = "ok"
    BY StructRest
  <2>2. c \in Bytes /\ h.dec[b].rest = c
    BY <1>2, <2>1
  <2> QED
    BY <2>1, <2>2, AuthFlavorEnds DEF AuthEnds, Settles
<1> HIDE DEF ha
<1>6. CASE haa.dec[b].out = "panic"
  <2>1. \/ ha.dec[b].out = "panic"
        \/ ha.dec[b].out = "ok" /\ AuthFlavor.dec[ha.dec[b].rest].out = "panic"
    BY <1>6, StructPanics
  <2>2. CASE ha.dec[b].out = "ok" /\ AuthFlavor.dec[ha.dec[b].rest].out = "panic"
    <3>1. d \in Bytes /\ AuthFlavor.dec[d].out = "panic"
      BY <1>5, <2>2
    <3> QED
      BY <3>1, AuthFlavorEnds, OverrunsIs DEF AuthEnds, Settles
  <2> QED
    BY <1>4, <2>1, <2>2
<1>7. CASE haa.dec[b].out = "ok" /\ Body(Compound4args).dec[haa.dec[b].rest].out = "panic"
  <2> DEFINE q == AuthFlavor.dec[ha.dec[b].rest].rest
  <2>1. /\ ha.dec[b].out = "ok" /\ haa.dec[b].rest = q
        /\ AuthFlavor.dec[ha.dec[b].rest].out = "ok"
    BY <1>7, StructRest
  <2>2. q \in Bytes
    BY <1>5, <2>1, AuthFlavorEnds DEF AuthEnds, Settles
  <2>3. Body(Compound4args).dec[q].out \in {"ok", "err", "abort"}
    BY <2>2, CompoundExact, BodyQuiet DEF Exact, Quiet, Settles
  <2> QED
    BY <1>7, <2>1, <2>3
<1> QED
  BY <1>3, <1>6, <1>7

-----------------------------------------------------------------------------
(* The values of the layouts, from their parts. *)

LEMMA ArmValues ==
  ASSUME NEW n, NEW t, NEW v \in t.values
  PROVE  <<n, v>> \in Arm({n}, t).values
  BY ArmIs

\* The operations of e, and the one numbered n.
Adds(e, f, n, t) ==
  /\ e.values \subseteq f.values
  /\ \A v \in t.values : <<n, v>> \in f.values

LEMMA EnumAdds ==
  ASSUME NEW e, NEW n, NEW t
  PROVE  Adds(e, e ++ Arm({n}, t), n, t)
<1>1. (e ++ Arm({n}, t)).values = e.values \cup Arm({n}, t).values
  BY EnumIs
<1> QED
  BY <1>1, ArmValues DEF Adds

\* An operation is its number and any value of its arguments.
LEMMA OpValues ==
  /\ \A v \in Close4args.values : <<4, v>> \in NfsArgOp4.values
  /\ \A v \in GetAttr4args.values : <<9, v>> \in NfsArgOp4.values
  /\ \A v \in Void.values : <<10, v>> \in NfsArgOp4.values
  /\ \A v \in Lookup4args.values : <<15, v>> \in NfsArgOp4.values
  /\ \A v \in Open4args.values : <<18, v>> \in NfsArgOp4.values
  /\ \A v \in PutFh4args.values : <<22, v>> \in NfsArgOp4.values
  /\ \A v \in Void.values : <<24, v>> \in NfsArgOp4.values
  /\ \A v \in Read4args.values : <<25, v>> \in NfsArgOp4.values
  /\ \A v \in ReadDir4args.values : <<26, v>> \in NfsArgOp4.values
  /\ \A v \in Remove4args.values : <<28, v>> \in NfsArgOp4.values
  /\ \A v \in Rename4args.values : <<29, v>> \in NfsArgOp4.values
  /\ \A v \in SetAttr4args.values : <<34, v>> \in NfsArgOp4.values
  /\ \A v \in Write4args.values : <<38, v>> \in NfsArgOp4.values
  /\ \A v \in ExchangeId4args.values : <<42, v>> \in NfsArgOp4.values
  /\ \A v \in CreateSession4args.values : <<43, v>> \in NfsArgOp4.values
  /\ \A v \in DestroySession4args.values : <<44, v>> \in NfsArgOp4.values
  /\ \A v \in Sequence4args.values : <<53, v>> \in NfsArgOp4.values
  /\ \A v \in ReclaimComplete4args.values : <<58, v>> \in NfsArgOp4.values
<1> DEFINE e1 == Arm({4}, Close4args)
           e2 == e1 ++ Arm({9}, GetAttr4args)
           e3 == e2 ++ Arm({10}, Void)
           e4 == e3 ++ Arm({15}, Lookup4args)
           e5 == e4 ++ Arm({18}, Open4args)
           e6 == e5 ++ Arm({22}, PutFh4args)
           e7 == e6 ++ Arm({24}, Void)
           e8 == e7 ++ Arm({25}, Read4args)
           e9 == e8 ++ Arm({26}, ReadDir4args)
           e10 == e9 ++ Arm({28}, Remove4args)
           e11 == e10 ++ Arm({29}, Rename4args)
           e12 == e11 ++ Arm({34}, SetAttr4args)
           e13 == e12 ++ Arm({38}, Write4args)
           e14 == e13 ++ Arm({42}, ExchangeId4args)
           e15 == e14 ++ Arm({43}, CreateSession4args)
           e16 == e15 ++ Arm({44}, DestroySession4args)
           e17 == e16 ++ Arm({53}, Sequence4args)
           e18 == e17 ++ Arm({58}, ReclaimComplete4args)
<1>1. \A v \in Close4args.values : <<4, v>> \in e1.values
  BY ArmValues
<1> HIDE DEF e1
<1>2. Adds(e1, e2, 9, GetAttr4args)
  BY EnumAdds, Zenon
<1> HIDE DEF e2
<1>3. Adds(e2, e3, 10, Void)
  BY EnumAdds, Zenon
<1> HIDE DEF e3
<1>4. Adds(e3, e4, 15, Lookup4args)
  BY EnumAdds, Zenon
<1> HIDE DEF e4
<1>5. Adds(e4, e5, 18, Open4args)
  BY EnumAdds, Zenon
<1> HIDE DEF e5
<1>6. Adds(e5, e6, 22, PutFh4args)
  BY EnumAdds, Zenon
<1> HIDE DEF e6
<1>7. Adds(e6, e7, 24, Void)
  BY EnumAdds, Zenon
<1> HIDE DEF e7
<1>8. Adds(e7, e8, 25, Read4args)
  BY EnumAdds, Zenon
<1> HIDE DEF e8
<1>9. Adds(e8, e9, 26, ReadDir4args)
  BY EnumAdds, Zenon
<1> HIDE DEF e9
<1>10. Adds(e9, e10, 28, Remove4args)
  BY EnumAdds, Zenon
<1> HIDE DEF e10
<1>11. Adds(e10, e11, 29, Rename4args)
  BY EnumAdds, Zenon
<1> HIDE DEF e11
<1>12. Adds(e11, e12, 34, SetAttr4args)
  BY EnumAdds, Zenon
<1> HIDE DEF e12
<1>13. Adds(e12, e13, 38, Write4args)
  BY EnumAdds, Zenon
<1> HIDE DEF e13
<1>14. Adds(e13, e14, 42, ExchangeId4args)
  BY EnumAdds, Zenon
<1> HIDE DEF e14
<1>15. Adds(e14, e15, 43, CreateSession4args)
  BY EnumAdds, Zenon
<1> HIDE DEF e15
<1>16. Adds(e15, e16, 44, DestroySession4args)
  BY EnumAdds, Zenon
<1> HIDE DEF e16
<1>17. Adds(e16, e17, 53, Sequence4args)
  BY EnumAdds, Zenon
<1> HIDE DEF e17
<1>18. Adds(e17, e18, 58, ReclaimComplete4args)
  BY EnumAdds, Zenon
<1> HIDE DEF e18
<1>n. NfsArgOp4 = e18
  BY Zenon DEF NfsArgOp4, e1, e2, e3, e4, e5, e6, e7, e8, e9, e10, e11, e12, e13, e14, e15, e16, e17, e18
<1>118. e18.values \subseteq NfsArgOp4.values
  BY <1>n
<1>117. e17.values \subseteq NfsArgOp4.values
  BY <1>18, <1>118 DEF Adds
<1>116. e16.values \subseteq NfsArgOp4.values
  BY <1>17, <1>117 DEF Adds
<1>115. e15.values \subseteq NfsArgOp4.values
  BY <1>16, <1>116 DEF Adds
<1>114. e14.values \subseteq NfsArgOp4.values
  BY <1>15, <1>115 DEF Adds
<1>113. e13.values \subseteq NfsArgOp4.values
  BY <1>14, <1>114 DEF Adds
<1>112. e12.values \subseteq NfsArgOp4.values
  BY <1>13, <1>113 DEF Adds
<1>111. e11.values \subseteq NfsArgOp4.values
  BY <1>12, <1>112 DEF Adds
<1>110. e10.values \subseteq NfsArgOp4.values
  BY <1>11, <1>111 DEF Adds
<1>109. e9.values \subseteq NfsArgOp4.values
  BY <1>10, <1>110 DEF Adds
<1>108. e8.values \subseteq NfsArgOp4.values
  BY <1>9, <1>109 DEF Adds
<1>107. e7.values \subseteq NfsArgOp4.values
  BY <1>8, <1>108 DEF Adds
<1>106. e6.values \subseteq NfsArgOp4.values
  BY <1>7, <1>107 DEF Adds
<1>105. e5.values \subseteq NfsArgOp4.values
  BY <1>6, <1>106 DEF Adds
<1>104. e4.values \subseteq NfsArgOp4.values
  BY <1>5, <1>105 DEF Adds
<1>103. e3.values \subseteq NfsArgOp4.values
  BY <1>4, <1>104 DEF Adds
<1>102. e2.values \subseteq NfsArgOp4.values
  BY <1>3, <1>103 DEF Adds
<1>101. e1.values \subseteq NfsArgOp4.values
  BY <1>2, <1>102 DEF Adds
<1>201. \A v \in Close4args.values : <<4, v>> \in NfsArgOp4.values
  BY <1>1, <1>101
<1>202. \A v \in GetAttr4args.values : <<9, v>> \in NfsArgOp4.values
  BY <1>2, <1>102 DEF Adds
<1>203. \A v \in Void.values : <<10, v>> \in NfsArgOp4.values
  BY <1>3, <1>103 DEF Adds
<1>204. \A v \in Lookup4args.values : <<15, v>> \in NfsArgOp4.values
  BY <1>4, <1>104 DEF Adds
<1>205. \A v \in Open4args.values : <<18, v>> \in NfsArgOp4.values
  BY <1>5, <1>105 DEF Adds
<1>206. \A v \in PutFh4args.values : <<22, v>> \in NfsArgOp4.values
  BY <1>6, <1>106 DEF Adds
<1>207. \A v \in Void.values : <<24, v>> \in NfsArgOp4.values
  BY <1>7, <1>107 DEF Adds
<1>208. \A v \in Read4args.values : <<25, v>> \in NfsArgOp4.values
  BY <1>8, <1>108 DEF Adds
<1>209. \A v \in ReadDir4args.values : <<26, v>> \in NfsArgOp4.values
  BY <1>9, <1>109 DEF Adds
<1>210. \A v \in Remove4args.values : <<28, v>> \in NfsArgOp4.values
  BY <1>10, <1>110 DEF Adds
<1>211. \A v \in Rename4args.values : <<29, v>> \in NfsArgOp4.values
  BY <1>11, <1>111 DEF Adds
<1>212. \A v \in SetAttr4args.values : <<34, v>> \in NfsArgOp4.values
  BY <1>12, <1>112 DEF Adds
<1>213. \A v \in Write4args.values : <<38, v>> \in NfsArgOp4.values
  BY <1>13, <1>113 DEF Adds
<1>214. \A v \in ExchangeId4args.values : <<42, v>> \in NfsArgOp4.values
  BY <1>14, <1>114 DEF Adds
<1>215. \A v \in CreateSession4args.values : <<43, v>> \in NfsArgOp4.values
  BY <1>15, <1>115 DEF Adds
<1>216. \A v \in DestroySession4args.values : <<44, v>> \in NfsArgOp4.values
  BY <1>16, <1>116 DEF Adds
<1>217. \A v \in Sequence4args.values : <<53, v>> \in NfsArgOp4.values
  BY <1>17, <1>117 DEF Adds
<1>218. \A v \in ReclaimComplete4args.values : <<58, v>> \in NfsArgOp4.values
  BY <1>18, <1>118 DEF Adds
<1> QED
  BY <1>201, <1>202, <1>203, <1>204, <1>205, <1>206, <1>207, <1>208, <1>209,
     <1>210, <1>211, <1>212, <1>213, <1>214, <1>215, <1>216, <1>217, <1>218

LEMMA U32Values == U32.values = Words
  BY U32Is

LEMMA BoolValues == <<0, <<>>>> \in Bool.values
  BY ArmIs, VoidIs DEF Bool

LEMMA ConstValues ==
  ASSUME NEW n
  PROVE  <<n, <<>>>> \in Const(n).values
  BY ArmIs, VoidIs DEF Const

LEMMA U64Values ==
  ASSUME NEW h \in Words, NEW l \in Words
  PROVE  <<h, l>> \in U64.values
  BY U32Values, StructValue DEF U64

\* Sequences of no and of one item.
LEMMA ShortSeqs ==
  ASSUME NEW S
  PROVE  /\ <<>> \in Seq(S) /\ Len(<<>>) = 0
         /\ \A v \in S : <<v>> \in Seq(S) /\ Len(<<v>>) = 1
  OBVIOUS

LEMMA VecNone ==
  ASSUME NEW t
  PROVE  <<>> \in Vec(t).values
<1> DEFINE none == <<>>
<1>1. none \in Seq(t.values) /\ Len(none) = 0
  BY ShortSeqs
<1>2. 0 <= Room
  BY RoomWord
<1> HIDE DEF none
<1>3. none \in Vec(t).values
  BY <1>1, <1>2, VecIs
<1> QED
  BY <1>3 DEF none

LEMMA VecOne ==
  ASSUME NEW t, NEW v \in t.values
  PROVE  <<v>> \in Vec(t).values
<1>2. 1 <= Room
  BY RoomWord
<1>3. <<v>> \in Seq(t.values) /\ Len(<<v>>) = 1
  BY ShortSeqs
<1> QED
  BY <1>2, <1>3, VecIs

LEMMA BlobValues ==
  ASSUME NEW v \in Bytes, Len(v) <= 128
  PROVE  v \in Blob.values /\ v \in String.values /\ v \in NfsFh4.values
<1>1. 128 \in Words /\ 128 \in Nat
  BY Numbers
<1>2. 128 <= MaxWord
  BY <1>1 DEF Words
<1>3. Len(v) \in Nat
  BY DEF Bytes
<1>4. Len(v) <= MaxWord
  BY <1>2, <1>3, MaxWordNumber
<1> QED
  BY <1>1, <1>4, MaxWordNumber, OpaqueIs DEF Blob, String, NfsFh4

-----------------------------------------------------------------------------
(* The arguments of the client's operations. *)

\* For each operation, arguments of the right types make a value of its layout.
LEMMA SequenceValue ==
  ASSUME NEW s \in SessionId4.values, NEW a \in Words, NEW b \in Words, NEW c \in Words
  PROVE  <<53, <<<<<<<<s, a>>, b>>, c>>, <<0, <<>>>>>>>> \in NfsArgOp4.values
<1> DEFINE d == <<0, <<>>>>
<1>1. d \in Bool.values
  BY BoolValues
<1> HIDE DEF d
<1>2. <<<<<<<<s, a>>, b>>, c>>, d>> \in Sequence4args.values
  BY <1>1, U32Values, StructValue DEF Sequence4args
<1>3. <<53, <<<<<<<<s, a>>, b>>, c>>, d>>>> \in NfsArgOp4.values
  BY <1>2, OpValues
<1> QED
  BY <1>3 DEF d

LEMMA SetAttrValue ==
  ASSUME NEW s \in StateId4.values, NEW f \in Fattr4.values
  PROVE  <<34, <<s, f>>>> \in NfsArgOp4.values
<1>1. <<s, f>> \in SetAttr4args.values
  BY StructValue DEF SetAttr4args
<1> QED
  BY <1>1, OpValues

LEMMA OpenValue ==
  ASSUME NEW access \in Words, NEW owner \in Blob.values, NEW name \in String.values
  PROVE  <<18, <<<<<<<<<<0, access>>, 0>>, <<<<0, 0>>, owner>>>>, <<0, <<>>>>>>,
                 <<0, name>>>>>> \in NfsArgOp4.values
<1> DEFINE o == <<<<0, 0>>, owner>>
           how == <<0, <<>>>>
           claim == <<0, name>>
<1>1. 0 \in Words
  BY Numbers
<1>2. o \in OpenOwner4.values
  BY <1>1, U64Values, StructValue DEF OpenOwner4, ClientId4
<1>3. how \in OpenHow4.values
  <2>1. how \in Const(0).values
    BY ConstValues
  <2> QED
    BY <2>1, EnumIs DEF OpenHow4
<1>4. claim \in OpenClaim4.values
  <2>1. claim \in Arm({0}, String).values
    BY ArmValues
  <2> QED
    BY <2>1, EnumIs DEF OpenClaim4
<1> HIDE DEF o, how, claim
<1>5. <<<<<<<<<<0, access>>, 0>>, o>>, how>>, claim>> \in Open4args.values
  BY <1>1, <1>2, <1>3, <1>4, U32Values, StructValue DEF Open4args
<1>6. <<18, <<<<<<<<<<0, access>>, 0>>, o>>, how>>, claim>>>> \in NfsArgOp4.values
  BY <1>5, OpValues
<1> QED
  BY <1>6 DEF o, how, claim

LEMMA CloseValue ==
  ASSUME NEW s \in StateId4.values
  PROVE  <<4, <<0, s>>>> \in NfsArgOp4.values
<1>1. 0 \in Words
  BY Numbers
<1>2. <<0, s>> \in Close4args.values
  BY <1>1, U32Values, StructValue DEF Close4args
<1> QED
  BY <1>2, OpValues

LEMMA ReadValue ==
  ASSUME NEW s \in StateId4.values, NEW o \in U64.values, NEW n \in Words
  PROVE  <<25, <<<<s, o>>, n>>>> \in NfsArgOp4.values
<1>1. <<<<s, o>>, n>> \in Read4args.values
  BY U32Values, StructValue DEF Read4args
<1> QED
  BY <1>1, OpValues

LEMMA WriteValue ==
  ASSUME NEW s \in StateId4.values, NEW o \in U64.values, NEW n \in Words,
         NEW d \in Blob.values
  PROVE  <<38, <<<<<<s, o>>, n>>, d>>>> \in NfsArgOp4.values
<1>1. <<<<<<s, o>>, n>>, d>> \in Write4args.values
  BY U32Values, StructValue DEF Write4args
<1> QED
  BY <1>1, OpValues

LEMMA ReadDirValue ==
  ASSUME NEW c \in U64.values, NEW v \in Verifier4.values, NEW m \in Words,
         NEW n \in Words, NEW r \in Bitmap4.values
  PROVE  <<26, <<<<<<<<c, v>>, m>>, n>>, r>>>> \in NfsArgOp4.values
<1>1. <<<<<<<<c, v>>, m>>, n>>, r>> \in ReadDir4args.values
  BY U32Values, StructValue DEF ReadDir4args
<1> QED
  BY <1>1, OpValues

LEMMA RenameValue ==
  ASSUME NEW v \in String.values, NEW w \in String.values
  PROVE  <<29, <<v, w>>>> \in NfsArgOp4.values
<1>1. <<v, w>> \in Rename4args.values
  BY StructValue DEF Rename4args
<1> QED
  BY <1>1, OpValues

LEMMA ExchangeIdValue ==
  ASSUME NEW v \in Verifier4.values, NEW o \in Blob.values, NEW n \in Words
  PROVE  <<42, <<<<<<<<v, o>>, n>>, <<0, <<>>>>>>, <<>>>>>> \in NfsArgOp4.values
<1> DEFINE sp == <<0, <<>>>>
           none == <<>>
<1>1. sp \in SpNone.values
  BY ConstValues DEF SpNone
<1>2. none \in Vec(ImplId4).values
  BY VecNone
<1> HIDE DEF sp, none
<1>3. <<<<<<<<v, o>>, n>>, sp>>, none>> \in ExchangeId4args.values
  BY <1>1, <1>2, U32Values, StructValue DEF ExchangeId4args
<1>4. <<42, <<<<<<<<v, o>>, n>>, sp>>, none>>>> \in NfsArgOp4.values
  BY <1>3, OpValues
<1> QED
  BY <1>4 DEF sp, none

LEMMA ChannelValue ==
  ASSUME NEW a \in Words, NEW b \in Words, NEW c \in Words, NEW d \in Words,
         NEW e \in Words, NEW f \in Words
  PROVE  <<<<<<<<<<<<a, b>>, c>>, d>>, e>>, f>>, <<>>>> \in ChannelAttrs4.values
<1> DEFINE none == <<>>
<1>1. none \in Vec(U32).values
  BY VecNone
<1> HIDE DEF none
<1>2. <<<<<<<<<<<<a, b>>, c>>, d>>, e>>, f>>, none>> \in ChannelAttrs4.values
  BY <1>1, U32Values, StructValue DEF ChannelAttrs4
<1> QED
  BY <1>2 DEF none

LEMMA CreateSessionValue ==
  ASSUME NEW c \in ClientId4.values, NEW s \in Words, NEW f \in Words,
         NEW fore \in ChannelAttrs4.values, NEW back \in ChannelAttrs4.values
  PROVE  <<43, <<<<<<<<<<<<c, s>>, f>>, fore>>, back>>, 0>>, <<<<<<0, <<>>>>, 0>>>>>>>>
           \in NfsArgOp4.values
<1> DEFINE none == <<0, <<>>>>
           sec == <<<<none, 0>>>>
<1>1. 0 \in Words
  BY Numbers
<1>2. none \in Const(0).values
  BY ConstValues
<1>3. <<none, 0>> \in CallbackSecParms4.values
  <2> HIDE DEF none
  <2> QED
    BY <1>1, <1>2, U32Values, StructValue DEF CallbackSecParms4
<1>4. sec \in Vec(CallbackSecParms4).values
  <2> HIDE DEF none
  <2> QED
    BY <1>3, VecOne
<1> HIDE DEF sec
<1>5. <<<<<<<<<<<<c, s>>, f>>, fore>>, back>>, 0>>, sec>> \in CreateSession4args.values
  BY <1>1, <1>4, U32Values, StructValue DEF CreateSession4args
<1>6. <<43, <<<<<<<<<<<<c, s>>, f>>, fore>>, back>>, 0>>, sec>>>> \in NfsArgOp4.values
  BY <1>5, OpValues
<1> QED
  BY <1>6 DEF sec

LEMMA SimpleValues ==
  /\ <<10, <<>>>> \in NfsArgOp4.values
  /\ <<24, <<>>>> \in NfsArgOp4.values
  /\ \A v \in Bitmap4.values : <<9, v>> \in NfsArgOp4.values
  /\ \A v \in String.values : <<15, v>> \in NfsArgOp4.values
  /\ \A v \in String.values : <<28, v>> \in NfsArgOp4.values
  /\ \A v \in NfsFh4.values : <<22, v>> \in NfsArgOp4.values
  /\ \A v \in SessionId4.values : <<44, v>> \in NfsArgOp4.values
  /\ <<58, <<0, <<>>>>>> \in NfsArgOp4.values
<1>1. <<>> \in Void.values
  BY VoidIs
<1>2. <<10, <<>>>> \in NfsArgOp4.values /\ <<24, <<>>>> \in NfsArgOp4.values
  BY <1>1, OpValues
<1>3. <<58, <<0, <<>>>>>> \in NfsArgOp4.values
  BY BoolValues, OpValues DEF ReclaimComplete4args
<1>4. /\ \A v \in Bitmap4.values : <<9, v>> \in NfsArgOp4.values
      /\ \A v \in String.values : <<15, v>> \in NfsArgOp4.values
      /\ \A v \in String.values : <<28, v>> \in NfsArgOp4.values
      /\ \A v \in NfsFh4.values : <<22, v>> \in NfsArgOp4.values
      /\ \A v \in SessionId4.values : <<44, v>> \in NfsArgOp4.values
  BY OpValues
     DEF GetAttr4args, Lookup4args, Remove4args, PutFh4args, DestroySession4args
<1> QED
  BY <1>2, <1>3, <1>4

-----------------------------------------------------------------------------
(* The requests. *)

\* Operations that need no file: those that name one, and those of a session.
Free == {22, 24, 42, 43, 44, 53, 58}

\* A request the builder has put together so far.
Made(r) == r \in [tag : String.values, ops : Seq(NfsArgOp4.values)]

\* n operations so far, SEQUENCE first and nowhere else, none on a file before
\* one that names it.
InTurn(r, n) ==
  /\ Made(r)
  /\ Len(r.ops) = n
  /\ \A i \in 1 .. n : r.ops[i][1] = 53 <=> i = 1
  /\ \A i \in 1 .. n : r.ops[i][1] \notin Free =>
       \E j \in 1 .. i - 1 : r.ops[j][1] \in {22, 24}

\* And a file has been named.
OnFile(r, n) == InTurn(r, n) /\ \E j \in 1 .. n : r.ops[j][1] \in {22, 24}

\* p is r and one more operation.
Pushed(p, r, x) ==
  /\ Made(p)
  /\ p.tag = r.tag
  /\ p.ops = Append(r.ops, x)
  /\ Len(r.ops) \in Nat
  /\ Len(p.ops) = Len(r.ops) + 1
  /\ \A i \in 1 .. Len(r.ops) : p.ops[i] = r.ops[i]
  /\ p.ops[Len(r.ops) + 1] = x

\* What the builder's push does to a request.
LEMMA PushIs ==
  ASSUME NEW r, Made(r), NEW op, NEW args, <<op, args>> \in NfsArgOp4.values
  PROVE  Pushed(B!Push(r, op, args), r, <<op, args>>)
<1> DEFINE Ops == NfsArgOp4.values
           Tags == String.values
           p == B!Push(r, op, args)
           x == <<op, args>>
<1>1. x \in Ops
  OBVIOUS
<1>2. r \in [tag : Tags, ops : Seq(Ops)]
  BY DEF Made
<1>3. p = [r EXCEPT !.ops = Append(@, x)]
  BY DEF B!Push
<1> HIDE DEF Ops, Tags, x
<1>4. p \in [tag : Tags, ops : Seq(Ops)] /\ p.tag = r.tag /\ p.ops = Append(r.ops, x)
  <2> HIDE DEF p
  <2>1. r.ops \in Seq(Ops)
    BY <1>2
  <2>2. Append(r.ops, x) \in Seq(Ops)
    BY <1>1, <2>1
  <2> DEFINE o == Append(r.ops, x)
  <2> HIDE DEF o
  <2>3. p = [r EXCEPT !.ops = o]
    BY <1>3 DEF o
  <2>4. p \in [tag : Tags, ops : Seq(Ops)] /\ p.tag = r.tag /\ p.ops = o
    BY <1>2, <2>2, <2>3 DEF o
  <2> QED
    BY <2>4 DEF o
<1> DEFINE o == r.ops
<1>5. o \in Seq(Ops)
  BY <1>2
<1> HIDE DEF p, o
<1>6. /\ Len(o) \in Nat
      /\ Len(Append(o, x)) = Len(o) + 1
      /\ \A i \in 1 .. Len(o) : Append(o, x)[i] = o[i]
      /\ Append(o, x)[Len(o) + 1] = x
  BY <1>1, <1>5
<1> QED
  BY <1>4, <1>6 DEF Pushed, Made, Ops, Tags, p, o, x

\* What a request is before its first operation.
LEMMA TagIs ==
  ASSUME NEW tag \in String.values
  PROVE  /\ Made(B!Tag(B!New, tag))
         /\ B!Tag(B!New, tag).tag = tag
         /\ B!Tag(B!New, tag).ops = <<>>
<1> DEFINE Ops == NfsArgOp4.values
<1>1. <<>> \in Seq(Ops)
  BY ShortSeqs
<1>2. B!Tag(B!New, tag) = [tag |-> tag, ops |-> <<>>]
  BY DEF B!Tag, B!New
<1> HIDE DEF Ops
<1>3. [tag |-> tag, ops |-> <<>>] \in [tag : String.values, ops : Seq(Ops)]
  BY <1>1
<1> QED
  BY <1>2, <1>3 DEF Made, Ops

\* The first operation of a session's request.
LEMMA FirstInTurn ==
  ASSUME NEW tag \in String.values, NEW args, <<53, args>> \in NfsArgOp4.values
  PROVE  InTurn(B!Push(B!Tag(B!New, tag), 53, args), 1)
<1> DEFINE r == B!Tag(B!New, tag)
           p == B!Push(r, 53, args)
<1>1. Made(r) /\ r.ops = <<>> /\ Len(r.ops) = 0
  BY ShortSeqs, TagIs
<1> HIDE DEF r
<1>p. Pushed(p, r, <<53, args>>)
  BY <1>1, PushIs, Zenon
<1> HIDE DEF p
<1>2. /\ Made(p) /\ Len(p.ops) = 0 + 1
      /\ p.ops[0 + 1] = <<53, args>>
  BY <1>1, <1>p DEF Pushed
<1>3. Len(p.ops) = 1 /\ p.ops[1] = <<53, args>>
  BY <1>2
<1>4. p.ops[1][1] = 53
  BY <1>3
<1>5. \A i \in 1 .. 1 : i = 1
  OBVIOUS
<1>6. InTurn(p, 1)
  BY <1>2, <1>3, <1>4, <1>5 DEF InTurn, Free
<1> QED
  BY <1>6 DEF p, r

\* Further operations.
LEMMA NextInTurn ==
  ASSUME NEW r, NEW n \in Nat, InTurn(r, n), n >= 1, NEW op, NEW args,
         <<op, args>> \in NfsArgOp4.values, op # 53,
         op \in Free \/ OnFile(r, n)
  PROVE  /\ InTurn(B!Push(r, op, args), n + 1)
         /\ op \in {22, 24} \/ OnFile(r, n) => OnFile(B!Push(r, op, args), n + 1)
<1> DEFINE p == B!Push(r, op, args)
           o == r.ops
           q == p.ops
<1>1. /\ Made(p) /\ Len(q) = n + 1
      /\ \A i \in 1 .. n : q[i] = o[i]
      /\ q[n + 1] = <<op, args>>
  <2>1. Made(r) /\ Len(r.ops) = n
    BY DEF InTurn
  <2>2. Pushed(p, r, <<op, args>>)
    BY <2>1, PushIs, Zenon
  <2> HIDE DEF p
  <2> QED
    BY <2>1, <2>2 DEF Pushed
<1>2. \A i \in 1 .. n : o[i][1] = 53 <=> i = 1
  BY DEF InTurn
<1>3. \A i \in 1 .. n : o[i][1] \notin Free => \E j \in 1 .. i - 1 : o[j][1] \in {22, 24}
  BY DEF InTurn
<1>4. OnFile(r, n) => \E j \in 1 .. n : o[j][1] \in {22, 24}
  BY DEF OnFile
<1> HIDE DEF p, o, q
<1>5. q[n + 1][1] = op
  BY <1>1
<1> DEFINE M == {i \in Nat : q[i][1] \in {22, 24}}
<1>6. \A i \in 1 .. n + 1 : i \in 1 .. n \/ i = n + 1
  OBVIOUS
<1>7. \A i \in 1 .. n + 1 : q[i][1] = 53 <=> i = 1
  <2> SUFFICES ASSUME NEW i \in 1 .. n + 1
               PROVE  q[i][1] = 53 <=> i = 1
    OBVIOUS
  <2>1. CASE i \in 1 .. n
    BY <1>1, <1>2, <2>1
  <2>2. CASE i = n + 1
    <3>1. i # 1
      BY <2>2
    <3> QED
      BY <1>5, <2>2, <3>1
  <2> QED
    BY <1>6, <2>1, <2>2
<1>8. \A i \in 1 .. n + 1 : q[i][1] \notin Free => \E j \in 1 .. i - 1 : q[j][1] \in {22, 24}
  <2> SUFFICES ASSUME NEW i \in 1 .. n + 1, q[i][1] \notin Free
               PROVE  \E j \in 1 .. i - 1 : q[j][1] \in {22, 24}
    OBVIOUS
  <2>1. CASE i \in 1 .. n
    <3>1. q[i] = o[i]
      BY <1>1, <2>1
    <3>2. PICK j \in 1 .. i - 1 : o[j][1] \in {22, 24}
      BY <1>3, <2>1, <3>1
    <3>3. j \in 1 .. n
      BY <2>1
    <3>4. q[j] = o[j]
      BY <1>1, <3>3
    <3> QED
      BY <3>2, <3>4
  <2>2. CASE i = n + 1
    <3>1. op \notin Free
      BY <1>5, <2>2
    <3>2. PICK j \in 1 .. n : o[j][1] \in {22, 24}
      BY <1>4, <3>1
    <3>3. q[j] = o[j] /\ j \in 1 .. i - 1
      BY <1>1, <2>2
    <3> QED
      BY <3>2, <3>3
  <2> QED
    BY <1>6, <2>1, <2>2
<1>9. InTurn(p, n + 1)
  BY <1>1, <1>7, <1>8 DEF InTurn, q
<1>10. op \in {22, 24} \/ OnFile(r, n) => \E j \in 1 .. n + 1 : q[j][1] \in {22, 24}
  <2>1. CASE op \in {22, 24}
    <3>1. n + 1 \in 1 .. n + 1
      OBVIOUS
    <3> QED
      BY <1>5, <2>1, <3>1
  <2>2. CASE OnFile(r, n)
    <3>1. PICK j \in 1 .. n : o[j][1] \in {22, 24}
      BY <1>4, <2>2
    <3>2. q[j] = o[j] /\ j \in 1 .. n + 1
      BY <1>1
    <3> QED
      BY <3>1, <3>2
  <2> QED
    BY <2>1, <2>2
<1> QED
  BY <1>9, <1>10 DEF OnFile, p, q

\* The constants of the requests are values of their layouts.
LEMMA NameValues ==
  /\ Name \in Blob.values /\ Name \in String.values
  /\ <<>> \in String.values
  /\ <<7>> \in String.values
  /\ FileHandle \in NfsFh4.values
  /\ <<1, 2, 3>> \in Blob.values
  /\ <<0, 0, 0, 9>> \in Blob.values
<1>1. /\ Name \in Bytes /\ Len(Name) <= 128
      /\ <<>> \in Bytes /\ Len(<<>>) <= 128
      /\ <<7>> \in Bytes /\ Len(<<7>>) <= 128
      /\ FileHandle \in Bytes /\ Len(FileHandle) <= 128
      /\ <<1, 2, 3>> \in Bytes /\ Len(<<1, 2, 3>>) <= 128
      /\ <<0, 0, 0, 9>> \in Bytes /\ Len(<<0, 0, 0, 9>>) <= 128
  BY DEF Name, FileHandle, Bytes
<1> QED
  BY <1>1, BlobValues

LEMMA SmallWords ==
  /\ \A n \in 0 .. 128 : n \in Words
  /\ 258 \in Words /\ 1000 \in Words
<1>1. 258 \in Words /\ 1000 \in Words
  BY SmallWord, SMT
<1> QED
  BY <1>1, Numbers

LEMMA BaseValues ==
  /\ Verifier \in Verifier4.values
  /\ SessionId \in SessionId4.values
  /\ ClientId \in ClientId4.values /\ <<0, 0>> \in U64.values
  /\ StateId \in StateId4.values
  /\ TypeAndSize \in Bitmap4.values
  /\ <<TypeAndSize, <<0, 0, 0, 9>>>> \in Fattr4.values
<1>1. Verifier \in Verifier4.values
  <2>1. Verifier \in [1 .. 8 -> 0 .. 255]
    BY DEF Verifier
  <2>2. Fixed(8).values = [1 .. 8 -> 0 .. 255]
    <3>1. 8 \in Nat
      OBVIOUS
    <3> QED
      BY <3>1, FixedIs
  <2> QED
    BY <2>1, <2>2 DEF Verifier4
<1>2. SessionId \in SessionId4.values
  <2>1. SessionId \in [1 .. 16 -> 0 .. 255]
    BY DEF SessionId
  <2>2. Fixed(16).values = [1 .. 16 -> 0 .. 255]
    <3>1. 16 \in Nat
      OBVIOUS
    <3> QED
      BY <3>1, FixedIs
  <2> QED
    BY <2>1, <2>2 DEF SessionId4
<1>3. ClientId \in ClientId4.values /\ <<0, 0>> \in U64.values
  <2>1. 18 \in Words /\ 52 \in Words /\ 0 \in Words
    BY SmallWords
  <2> QED
    BY <2>1, U64Values DEF ClientId, ClientId4
<1>4. StateId \in StateId4.values
  <2> DEFINE f == [i \in 1 .. 12 |-> i]
  <2>1. f \in [1 .. 12 -> 0 .. 255]
    OBVIOUS
  <2>2. f \in Fixed(12).values
    <3>1. 12 \in Nat
      OBVIOUS
    <3>2. Fixed(12).values = [1 .. 12 -> 0 .. 255]
      BY <3>1, FixedIs
    <3> QED
      BY <2>1, <3>2
  <2>3. StateId = <<1, f>>
    BY DEF StateId, &
  <2> HIDE DEF f
  <2>4. 1 \in U32.values
    BY SmallWords, U32Values
  <2>5. <<1, f>> \in StateId4.values
    BY <2>2, <2>4, StructValue DEF StateId4
  <2> QED
    BY <2>3, <2>5
<1>5. TypeAndSize \in Bitmap4.values
  <2>1. 26 \in U32.values
    BY SmallWords, U32Values
  <2> QED
    BY <2>1, VecOne DEF TypeAndSize, Bitmap4
<1>6. <<TypeAndSize, <<0, 0, 0, 9>>>> \in Fattr4.values
  <2> DEFINE v == <<0, 0, 0, 9>>
  <2>1. v \in Blob.values
    BY NameValues
  <2> HIDE DEF v
  <2>2. <<TypeAndSize, v>> \in Fattr4.values
    BY <1>5, <2>1, StructValue DEF Fattr4
  <2> QED
    BY <2>2 DEF v
<1> QED
  BY <1>1, <1>2, <1>3, <1>4, <1>5, <1>6

\* A session's request begins with SEQUENCE.
LEMMA SessionInTurn ==
  ASSUME NEW tag \in String.values
  PROVE  InTurn(InSession(tag), 1)
<1> DEFINE args == <<<<<<<<SessionId, 258>>, 1>>, 1>>, <<0, <<>>>>>>
<1>1. <<53, args>> \in NfsArgOp4.values
  <2>1. SessionId \in SessionId4.values /\ 258 \in Words /\ 1 \in Words
    BY BaseValues, SmallWords
  <2> QED
    BY <2>1, SequenceValue
<1>2. InSession(tag) = B!Push(B!Tag(B!New, tag), 53, args)
  BY DEF InSession, B!Sequence, B!False, B!Unit, B!&
<1> HIDE DEF args
<1>3. InTurn(B!Push(B!Tag(B!New, tag), 53, args), 1)
  BY <1>1, FirstInTurn, Zenon
<1> QED
  BY <1>2, <1>3, Zenon

\* The order RequestsKeepOrder asks of the operations of a request.
InOrder(r) ==
  /\ Made(r)
  /\ Len(r.ops) \in 0 .. Room
  /\ \/ Len(r.ops) = 1 /\ r.ops[1][1] \in {42, 43, 44}
     \/ \A i \in 1 .. Len(r.ops) : r.ops[i][1] = 53 <=> i = 1
  /\ \A i \in 1 .. Len(r.ops) : r.ops[i][1] \notin Free =>
       \E j \in 1 .. i - 1 : r.ops[j][1] \in {22, 24}

\* There is memory for a few operations.
LEMMA FewOperations == 1 \in 0 .. Room /\ 2 \in 0 .. Room /\ 3 \in 0 .. Room /\ 4 \in 0 .. Room
  BY RoomWord

\* The orders agree once the request is complete.
LEMMA InTurnInOrder ==
  ASSUME NEW r, NEW n \in 0 .. Room, InTurn(r, n)
  PROVE  InOrder(r)
  BY DEF InTurn, InOrder

\* The three operations that stand alone.
LEMMA Alone ==
  ASSUME NEW op \in {42, 43, 44}, NEW args, <<op, args>> \in NfsArgOp4.values
  PROVE  InOrder(B!Push(B!Tag(B!New, Name), op, args))
<1> DEFINE r == B!Tag(B!New, Name)
           p == B!Push(r, op, args)
<1>1. Made(r) /\ r.ops = <<>> /\ Len(r.ops) = 0
  BY ShortSeqs, TagIs, NameValues
<1> HIDE DEF r
<1>2. Pushed(p, r, <<op, args>>)
  BY <1>1, PushIs, Zenon
<1> HIDE DEF p
<1>3. Made(p) /\ Len(p.ops) = 0 + 1 /\ p.ops[0 + 1] = <<op, args>>
  BY <1>1, <1>2 DEF Pushed
<1>4. Len(p.ops) = 1 /\ p.ops[1][1] = op
  BY <1>3
<1>5. 1 \in 0 .. Room
  BY FewOperations
<1>6. \A i \in 1 .. 1 : i = 1
  OBVIOUS
<1>7. InOrder(p)
  BY <1>3, <1>4, <1>5, <1>6 DEF InOrder, Free
<1> QED
  BY <1>7 DEF p, r

\* PUTFH names the file.
LEMMA FileRequestOnFile == OnFile(FileRequest, 2)
<1> DEFINE r == InSession(<<>>)
<1>1. InTurn(r, 1)
  BY SessionInTurn, NameValues
<1>2. FileRequest = B!Push(r, 22, FileHandle)
  BY DEF FileRequest, B!PutFh
<1>3. <<22, FileHandle>> \in NfsArgOp4.values
  BY NameValues, SimpleValues
<1> HIDE DEF r
<1>4. 22 \in {22, 24} /\ 22 # 53 /\ 22 \in Free /\ 1 \in Nat /\ 1 >= 1 /\ 1 + 1 = 2
  BY DEF Free
<1>5. OnFile(B!Push(r, 22, FileHandle), 1 + 1)
  BY <1>1, <1>3, <1>4, NextInTurn
<1> QED
  BY <1>2, <1>4, <1>5

\* So that any operation may follow it.
LEMMA FileOp ==
  ASSUME NEW op, NEW args, <<op, args>> \in NfsArgOp4.values, op # 53
  PROVE  /\ OnFile(B!Push(FileRequest, op, args), 3)
         /\ InOrder(B!Push(FileRequest, op, args))
<1>1. 2 \in Nat /\ 2 >= 1 /\ 2 + 1 = 3
  OBVIOUS
<1>2. OnFile(FileRequest, 2) /\ InTurn(FileRequest, 2)
  BY FileRequestOnFile DEF OnFile
<1>3. OnFile(B!Push(FileRequest, op, args), 2 + 1)
  BY <1>1, <1>2, NextInTurn
<1>4. OnFile(B!Push(FileRequest, op, args), 3)
  BY <1>1, <1>3
<1>5. 3 \in 0 .. Room
  BY FewOperations
<1>6. InTurn(B!Push(FileRequest, op, args), 3)
  BY <1>4 DEF OnFile
<1> QED
  BY <1>4, <1>5, <1>6, InTurnInOrder

LEMMA GetAttrInOrder == InOrder(B!GetAttr(FileRequest, TypeAndSize))
<1>1. <<9, TypeAndSize>> \in NfsArgOp4.values /\ 9 # 53
  BY BaseValues, SimpleValues
<1> QED
  BY <1>1, FileOp DEF B!GetAttr

LEMMA SetAttrInOrder ==
  InOrder(B!SetAttr(FileRequest, StateId, TypeAndSize & <<0, 0, 0, 9>>))
<1> DEFINE f == <<TypeAndSize, <<0, 0, 0, 9>>>>
           args == <<StateId, f>>
<1>1. f \in Fattr4.values /\ StateId \in StateId4.values /\ 34 # 53
  BY BaseValues
<1>2. B!SetAttr(FileRequest, StateId, TypeAndSize & <<0, 0, 0, 9>>) = B!Push(FileRequest, 34, args)
  BY DEF B!SetAttr, B!&, &
<1> HIDE DEF f
<1>3. <<34, args>> \in NfsArgOp4.values
  BY <1>1, SetAttrValue
<1> HIDE DEF args
<1>4. InOrder(B!Push(FileRequest, 34, args))
  BY <1>1, <1>3, FileOp
<1> QED
  BY <1>2, <1>4

LEMMA OpenInOrder == InOrder(B!GetFh(B!OpenByName(FileRequest, Name, 1, Name)))
<1> DEFINE args == <<<<<<<<<<0, 1>>, 0>>, <<<<0, 0>>, Name>>>>, <<0, <<>>>>>>, <<0, Name>>>>
           r == B!Push(FileRequest, 18, args)
<1>1. B!OpenByName(FileRequest, Name, 1, Name) = r
  BY DEF B!OpenByName, B!Unit, B!&
<1>2. <<18, args>> \in NfsArgOp4.values
  <2>1. 1 \in Words /\ Name \in Blob.values /\ Name \in String.values
    BY NameValues, SmallWords
  <2> QED
    BY <2>1, OpenValue
<1> HIDE DEF args
<1>3. 18 # 53 /\ 10 # 53 /\ 3 \in Nat /\ 3 >= 1 /\ 3 + 1 = 4
  OBVIOUS
<1>4. OnFile(r, 3) /\ InTurn(r, 3)
  BY <1>2, <1>3, FileOp DEF OnFile
<1> HIDE DEF r
<1>5. <<10, <<>>>> \in NfsArgOp4.values
  BY SimpleValues
<1>6. InTurn(B!Push(r, 10, <<>>), 3 + 1)
  BY <1>3, <1>4, <1>5, NextInTurn
<1>7. InOrder(B!Push(r, 10, <<>>))
  <2>1. 4 \in 0 .. Room
    BY FewOperations
  <2>2. InTurn(B!Push(r, 10, <<>>), 4)
    BY <1>3, <1>6
  <2> QED
    BY <2>1, <2>2, InTurnInOrder
<1> QED
  BY <1>1, <1>7 DEF B!GetFh, B!Unit

LEMMA CloseInOrder == InOrder(B!Close(FileRequest, StateId))
<1> DEFINE args == <<0, StateId>>
<1>1. <<4, args>> \in NfsArgOp4.values /\ 4 # 53
  BY BaseValues, CloseValue
<1>2. B!Close(FileRequest, StateId) = B!Push(FileRequest, 4, args)
  BY DEF B!Close, B!&
<1> HIDE DEF args
<1>3. InOrder(B!Push(FileRequest, 4, args))
  BY <1>1, FileOp
<1> QED
  BY <1>2, <1>3

\* Numbers too large for the provers to take apart.
LEMMA LargeWords ==
  /\ 4096 \in Words /\ 65536 \in Words /\ 1048576 \in Words /\ 100003 \in Words
  BY SmallWord, SMT

LEMMA ReadInOrder == InOrder(B!Read(FileRequest, StateId, <<1, 4096>>, 1048576))
<1> DEFINE page == 4096
           mb == 1048576
           offset == <<1, page>>
           args == <<<<StateId, offset>>, mb>>
<1>1. page \in Words /\ mb \in Words
  BY LargeWords, SMT
<1>2. B!Read(FileRequest, StateId, <<1, 4096>>, 1048576) = B!Push(FileRequest, 25, args)
  BY SMT DEF B!Read, B!&
<1> HIDE DEF page, mb
<1>3. offset \in U64.values
  BY <1>1, SmallWords, U64Values
<1> HIDE DEF offset
<1>4. <<25, args>> \in NfsArgOp4.values /\ 25 # 53
  BY <1>1, <1>3, BaseValues, ReadValue
<1> HIDE DEF args
<1>5. InOrder(B!Push(FileRequest, 25, args))
  BY <1>4, FileOp
<1> QED
  BY <1>2, <1>5, SMT

LEMMA WriteInOrder ==
  InOrder(B!Write(FileRequest, StateId, <<0, 4096>>, <<1, 2, 3>>, 2))
<1> DEFINE page == 4096
           offset == <<0, page>>
           data == <<1, 2, 3>>
           args == <<<<<<StateId, offset>>, 2>>, data>>
<1>1. page \in Words
  BY LargeWords, SMT
<1>2. B!Write(FileRequest, StateId, <<0, 4096>>, <<1, 2, 3>>, 2) = B!Push(FileRequest, 38, args)
  BY SMT DEF B!Write, B!&
<1> HIDE DEF page
<1>3. offset \in U64.values
  BY <1>1, SmallWords, U64Values
<1>d. data \in Blob.values
  BY NameValues
<1> HIDE DEF offset, data
<1>4. <<38, args>> \in NfsArgOp4.values /\ 38 # 53
  BY <1>3, <1>d, BaseValues, SmallWords, WriteValue
<1> HIDE DEF args
<1>5. InOrder(B!Push(FileRequest, 38, args))
  BY <1>4, FileOp
<1> QED
  BY <1>2, <1>5, SMT

LEMMA ReadDirInOrder ==
  InOrder(B!ReadDir(FileRequest, <<0, 0>>, Verifier, 4096, 65536, TypeAndSize))
<1> DEFINE page == 4096
           most == 65536
           start == <<0, 0>>
           args == <<<<<<<<start, Verifier>>, page>>, most>>, TypeAndSize>>
<1>1. page \in Words /\ most \in Words
  BY LargeWords, SMT
<1>2. B!ReadDir(FileRequest, <<0, 0>>, Verifier, 4096, 65536, TypeAndSize)
        = B!Push(FileRequest, 26, args)
  BY SMT DEF B!ReadDir, B!&
<1> HIDE DEF page, most
<1>3. start \in U64.values
  BY BaseValues
<1> HIDE DEF start
<1>4. <<26, args>> \in NfsArgOp4.values /\ 26 # 53
  BY <1>1, <1>3, BaseValues, ReadDirValue
<1> HIDE DEF args
<1>5. InOrder(B!Push(FileRequest, 26, args))
  BY <1>4, FileOp
<1> QED
  BY <1>2, <1>5, SMT

LEMMA RemoveInOrder == InOrder(B!Remove(FileRequest, Name))
<1>1. <<28, Name>> \in NfsArgOp4.values /\ 28 # 53
  BY NameValues, SimpleValues
<1> QED
  BY <1>1, FileOp DEF B!Remove

LEMMA RenameInOrder == InOrder(B!Rename(FileRequest, Name, <<7>>))
<1> DEFINE new == <<7>>
           args == <<Name, new>>
<1>1. new \in String.values
  BY NameValues
<1>2. B!Rename(FileRequest, Name, <<7>>) = B!Push(FileRequest, 29, args)
  BY DEF B!Rename, B!&
<1> HIDE DEF new
<1>3. <<29, args>> \in NfsArgOp4.values /\ 29 # 53
  BY <1>1, NameValues, RenameValue
<1> HIDE DEF args
<1>4. InOrder(B!Push(FileRequest, 29, args))
  BY <1>3, FileOp
<1> QED
  BY <1>2, <1>4

\* Every request on a file.
LEMMA FilesInOrder == \A r \in FileRequests : InOrder(r)
<1> DEFINE r1 == B!GetAttr(FileRequest, TypeAndSize)
           r2 == B!SetAttr(FileRequest, StateId, TypeAndSize & <<0, 0, 0, 9>>)
           r3 == B!GetFh(B!OpenByName(FileRequest, Name, 1, Name))
           r4 == B!Close(FileRequest, StateId)
           r5 == B!Read(FileRequest, StateId, <<1, 4096>>, 1048576)
           r6 == B!Write(FileRequest, StateId, <<0, 4096>>, <<1, 2, 3>>, 2)
           r7 == B!ReadDir(FileRequest, <<0, 0>>, Verifier, 4096, 65536, TypeAndSize)
           r8 == B!Remove(FileRequest, Name)
           r9 == B!Rename(FileRequest, Name, <<7>>)
<1>1. FileRequests = {r1, r2, r3, r4, r5, r6, r7, r8, r9}
  BY SMT DEF FileRequests
<1>2. /\ InOrder(r1) /\ InOrder(r2) /\ InOrder(r3) /\ InOrder(r4) /\ InOrder(r5)
      /\ InOrder(r6) /\ InOrder(r7) /\ InOrder(r8) /\ InOrder(r9)
  BY GetAttrInOrder, SetAttrInOrder, OpenInOrder, CloseInOrder, ReadInOrder,
     WriteInOrder, ReadDirInOrder, RemoveInOrder, RenameInOrder, SMT
<1> HIDE DEF r1, r2, r3, r4, r5, r6, r7, r8, r9
<1> QED
  BY <1>1, <1>2

LEMMA ExchangeIdInOrder == InOrder(ExchangeIdRequest)
<1> DEFINE args == <<<<<<<<Verifier, Name>>, 0>>, <<0, <<>>>>>>, <<>>>>
<1>1. <<42, args>> \in NfsArgOp4.values
  <2>1. Verifier \in Verifier4.values /\ Name \in Blob.values /\ 0 \in Words
    BY BaseValues, NameValues, SmallWords
  <2> QED
    BY <2>1, ExchangeIdValue
<1>2. ExchangeIdRequest = B!Push(B!Tag(B!New, Name), 42, args)
  BY DEF ExchangeIdRequest, B!ExchangeId, B!Unit, B!&, &
<1> HIDE DEF args
<1>3. InOrder(B!Push(B!Tag(B!New, Name), 42, args))
  BY <1>1, Alone
<1> QED
  BY <1>2, <1>3

LEMMA DefaultChannelValue == DefaultChannel \in ChannelAttrs4.values
<1> DEFINE mb == 1048576
           kb == 65536
           v == <<<<<<<<<<<<0, mb>>, mb>>, kb>>, 64>>, 32>>, <<>>>>
<1>1. DefaultChannel = v
  BY SMT DEF DefaultChannel, &
<1>2. mb \in Words /\ kb \in Words
  BY LargeWords, SMT
<1> HIDE DEF mb, kb
<1>w. 0 \in Words /\ 64 \in Words /\ 32 \in Words
  BY SmallWords
<1>3. v \in ChannelAttrs4.values
  BY <1>2, <1>w, ChannelValue
<1> QED
  BY <1>1, <1>3, SMT

LEMMA CreateSessionInOrder == InOrder(CreateSessionRequest)
<1> DEFINE args == <<<<<<<<<<<<ClientId, 1>>, 0>>, DefaultChannel>>, DefaultChannel>>, 0>>,
                     <<<<<<0, <<>>>>, 0>>>>>>
<1>1. <<43, args>> \in NfsArgOp4.values
  <2>1. ClientId \in ClientId4.values /\ 1 \in Words /\ 0 \in Words
    BY BaseValues, SmallWords
  <2> QED
    BY <2>1, DefaultChannelValue, CreateSessionValue
<1>2. CreateSessionRequest = B!Push(B!Tag(B!New, Name), 43, args)
  BY DEF CreateSessionRequest, B!CreateSession, B!Unit, B!&
<1> HIDE DEF args
<1>3. InOrder(B!Push(B!Tag(B!New, Name), 43, args))
  BY <1>1, Alone
<1> QED
  BY <1>2, <1>3

LEMMA DestroyInOrder == InOrder(DestroyRequest)
<1>1. <<44, SessionId>> \in NfsArgOp4.values
  BY BaseValues, SimpleValues
<1> QED
  BY <1>1, Alone DEF DestroyRequest, B!DestroySession

LEMMA KeepaliveInOrder == InOrder(KeepaliveRequest)
<1>1. InTurn(InSession(Name), 1)
  BY NameValues, SessionInTurn
<1>2. 1 \in 0 .. Room
  BY FewOperations
<1> QED
  BY <1>1, <1>2, InTurnInOrder DEF KeepaliveRequest

LEMMA ReclaimInOrder == InOrder(ReclaimRequest)
<1> DEFINE r == InSession(Name)
           args == <<0, <<>>>>
<1>1. InTurn(r, 1)
  BY NameValues, SessionInTurn
<1>2. <<58, args>> \in NfsArgOp4.values
  BY SimpleValues
<1>3. ReclaimRequest = B!Push(r, 58, args)
  BY DEF ReclaimRequest, B!ReclaimComplete, B!False, B!Unit
<1> HIDE DEF r, args
<1>4. 58 # 53 /\ 58 \in Free /\ 1 \in Nat /\ 1 >= 1 /\ 1 + 1 = 2
  BY DEF Free
<1>5. InTurn(B!Push(r, 58, args), 1 + 1)
  BY <1>1, <1>2, <1>4, NextInTurn
<1>6. InTurn(B!Push(r, 58, args), 2) /\ 2 \in 0 .. Room
  BY <1>4, <1>5, FewOperations
<1> QED
  BY <1>3, <1>6, InTurnInOrder

-----------------------------------------------------------------------------
(* The request of resolve_path, for every path. *)

LookupAt(first, path, n, before) == IF n = 0 THEN first ELSE B!Lookup(before, path[n])

Lookups(f, first, path) ==
  f = [n \in 0 .. Len(path) |-> LookupAt(first, path, n, f[n - 1])]

\* The requests on the way, spelled out.
AfterLookups(first, path, n) ==
  [first EXCEPT !.ops = [i \in 1 .. n + 2 |-> IF i <= 2 THEN @[i] ELSE <<15, path[i - 2]>>]]

\* One LOOKUP more is the next of the requests spelled out.
LEMMA LookupStep ==
  ASSUME NEW S, NEW T, NEW first \in [tag : T, ops : Seq(S)], Len(first.ops) = 2,
         NEW path, NEW n \in Nat
  PROVE  /\ AfterLookups(first, path, 0) = first
         /\ B!Lookup(AfterLookups(first, path, n), path[n + 1])
              = AfterLookups(first, path, n + 1)
<1> DEFINE o == first.ops
           At(m) == [i \in 1 .. m + 2 |-> IF i <= 2 THEN o[i] ELSE <<15, path[i - 2]>>]
<1>1. o \in Seq(S)
  OBVIOUS
<1>2. AfterLookups(first, path, 0) = [first EXCEPT !.ops = At(0)]
      /\ AfterLookups(first, path, n) = [first EXCEPT !.ops = At(n)]
      /\ AfterLookups(first, path, n + 1) = [first EXCEPT !.ops = At(n + 1)]
  BY DEF AfterLookups
<1>3. At(0) = o
  <2> HIDE DEF o
  <2>1. o = [i \in 1 .. 2 |-> o[i]]
    BY <1>1 DEF o
  <2>2. \A i \in 1 .. 2 : i <= 2
    OBVIOUS
  <2>3. 0 + 2 = 2
    OBVIOUS
  <2>4. At(0) = [i \in 1 .. 2 |-> o[i]]
    BY <2>2, <2>3
  <2> QED
    BY <2>1, <2>4
<1>4. Append(At(n), <<15, path[n + 1]>>) = At(n + 1)
  <2> DEFINE x == <<15, path[n + 1]>>
             a == At(n)
  <2>1. Len(a) = n + 2 /\ \A i \in 1 .. n + 2 : a[i] = IF i <= 2 THEN o[i] ELSE <<15, path[i - 2]>>
    OBVIOUS
  <2>2. Append(a, x) = [i \in 1 .. Len(a) + 1 |-> IF i = Len(a) + 1 THEN x ELSE a[i]]
    <3> DEFINE R == S \cup {<<15, path[j]>> : j \in Nat}
    <3>1. x \in R
      OBVIOUS
    <3>2. \A i \in 1 .. n + 2 : a[i] \in R
      <4> SUFFICES ASSUME NEW i \in 1 .. n + 2
                   PROVE  a[i] \in R
        OBVIOUS
      <4>1. CASE i <= 2
        <5>1. i \in 1 .. Len(o)
          BY <4>1
        <5>2. o[i] \in S
          BY <1>1, <5>1, ElementOfSeq
        <5> QED
          BY <2>1, <4>1, <5>2
      <4>2. CASE ~ (i <= 2)
        <5>1. i - 2 \in Nat
          BY <4>2
        <5> QED
          BY <2>1, <4>2, <5>1
      <4> QED
        BY <4>1, <4>2
    <3>3. a = [i \in 1 .. n + 2 |-> a[i]] /\ n + 2 \in Nat
      OBVIOUS
    <3> HIDE DEF a, x, R
    <3>4. a \in Seq(R)
      BY <3>2, <3>3, SMTT(60)
    <3> DEFINE c == Append(a, x)
               k == Len(a) + 1
    <3>5. /\ c \in Seq(R) /\ Len(c) = k
          /\ \A i \in 1 .. k : c[i] = IF i = k THEN x ELSE a[i]
      BY <3>1, <3>4
    <3>6. c = [i \in 1 .. Len(c) |-> c[i]]
      <4> HIDE DEF c
      <4> QED
        BY <3>5
    <3> HIDE DEF c, k
    <3>7. c = [i \in 1 .. k |-> IF i = k THEN x ELSE a[i]]
      BY <3>5, <3>6
    <3> QED
      BY <3>7 DEF c, k
  <2>3. \A i \in 1 .. (n + 1) + 2 :
          (IF i = (n + 2) + 1 THEN x ELSE a[i])
             = IF i <= 2 THEN o[i] ELSE <<15, path[i - 2]>>
    <3> SUFFICES ASSUME NEW i \in 1 .. (n + 1) + 2
                 PROVE  (IF i = (n + 2) + 1 THEN x ELSE a[i])
                           = IF i <= 2 THEN o[i] ELSE <<15, path[i - 2]>>
      OBVIOUS
    <3>1. CASE i = (n + 2) + 1
      <4>1. i - 2 = n + 1 /\ ~ (i <= 2)
        BY <3>1
      <4> QED
        BY <3>1, <4>1
    <3>2. CASE i # (n + 2) + 1
      <4>1. i \in 1 .. n + 2
        BY <3>2
      <4> QED
        BY <2>1, <3>2, <4>1
    <3> QED
      BY <3>1, <3>2
  <2>4. (n + 1) + 2 = (n + 2) + 1
    OBVIOUS
  <2> HIDE DEF a, x
  <2>5. Append(a, x) = [i \in 1 .. (n + 1) + 2 |-> IF i = (n + 2) + 1 THEN x ELSE a[i]]
    BY <2>1, <2>2, <2>4
  <2>6. Append(a, x) = At(n + 1)
    BY <2>3, <2>5
  <2> QED
    BY <2>6 DEF a, x
<1> HIDE DEF At
<1>5. [first EXCEPT !.ops = o] = first
  OBVIOUS
<1>6. [[first EXCEPT !.ops = At(n)] EXCEPT !.ops = Append(@, <<15, path[n + 1]>>)]
        = [first EXCEPT !.ops = Append(At(n), <<15, path[n + 1]>>)]
  OBVIOUS
<1> QED
  BY <1>2, <1>3, <1>4, <1>5, <1>6 DEF B!Lookup, B!Push

\* So the recursive function of resolve_path exists for every path.
LEMMA LookupsExist ==
  ASSUME NEW S, NEW T, NEW first \in [tag : T, ops : Seq(S)], Len(first.ops) = 2,
         NEW P, NEW path \in Seq(P)
  PROVE  \E f : Lookups(f, first, path)
<1> DEFINE f == [n \in 0 .. Len(path) |-> AfterLookups(first, path, n)]
<1>1. ASSUME NEW n \in 0 .. Len(path)
      PROVE  f[n] = LookupAt(first, path, n, f[n - 1])
  <2>1. CASE n = 0
    <3>1. f[n] = first
      <4>1. 0 \in Nat
        OBVIOUS
      <4>2. AfterLookups(first, path, 0) = first
        BY <4>1, LookupStep
      <4> QED
        BY <2>1, <4>2
    <3> DEFINE p == f[n - 1]
    <3> HIDE DEF p
    <3>2. LookupAt(first, path, n, p) = first
      BY <2>1 DEF LookupAt
    <3> QED
      BY <3>1, <3>2 DEF p
  <2>2. CASE n # 0
    <3> DEFINE m == n - 1
    <3>1. m \in Nat /\ m \in 0 .. Len(path) /\ m + 1 = n
      BY <2>2
    <3>2. f[m] = AfterLookups(first, path, m) /\ f[n] = AfterLookups(first, path, n)
      BY <3>1
    <3> HIDE DEF m, f
    <3>3. B!Lookup(AfterLookups(first, path, m), path[m + 1])
            = AfterLookups(first, path, m + 1)
      BY <3>1, LookupStep
    <3>4. LookupAt(first, path, n, f[m]) = B!Lookup(f[m], path[n])
      BY <2>2 DEF LookupAt
    <3> QED
      BY <3>1, <3>2, <3>3, <3>4 DEF m
  <2> QED
    BY <2>1, <2>2
<1>2. f = [n \in DOMAIN f |-> f[n]] /\ DOMAIN f = 0 .. Len(path)
  BY Zenon
<1> HIDE DEF f
<1>3. f = [n \in 0 .. Len(path) |-> LookupAt(first, path, n, f[n - 1])]
  BY <1>1, <1>2, Zenon
<1>4. Lookups(f, first, path)
  BY <1>3 DEF Lookups
<1> QED
  BY <1>4

\* And each of its requests is in order, by induction over the path.
LEMMA LookupsInTurn ==
  ASSUME NEW f, NEW first, OnFile(first, 2), NEW path \in Seq(String.values),
         Lookups(f, first, path)
  PROVE  OnFile(f[Len(path)], Len(path) + 2)
<1> DEFINE Good(n) == n \in 0 .. Len(path) => OnFile(f[n], n + 2)
           M == {n \in Nat : Good(n)}
<1>0. Len(path) \in Nat
  OBVIOUS
<1>1. \A n \in 0 .. Len(path) : f[n] = LookupAt(first, path, n, f[n - 1])
  BY DEF Lookups
<1>2. 0 \in M
  <2> DEFINE p == f[0 - 1]
  <2>1. 0 \in 0 .. Len(path)
    BY <1>0
  <2>2. f[0] = LookupAt(first, path, 0, p)
    BY <1>1, <2>1
  <2> HIDE DEF p
  <2>3. LookupAt(first, path, 0, p) = first
    BY DEF LookupAt
  <2>4. f[0] = first /\ 0 + 2 = 2
    BY <2>2, <2>3
  <2>5. OnFile(f[0], 0 + 2)
    BY <2>4
  <2> QED
    BY <2>5
<1>3. ASSUME NEW n \in Nat, n \in M
      PROVE  n + 1 \in M
  <2>1. ASSUME n + 1 \in 0 .. Len(path)
        PROVE  OnFile(f[n + 1], (n + 1) + 2)
    <3> DEFINE r == f[n]
               name == path[n + 1]
               m == n + 2
    <3>1. n \in 0 .. Len(path) /\ (n + 1) - 1 = n /\ n + 1 \in 1 .. Len(path) /\ n + 1 # 0
      BY <1>0, <2>1
    <3>2. OnFile(r, m)
      BY <1>3, <3>1
    <3>3. f[n + 1] = LookupAt(first, path, n + 1, f[(n + 1) - 1])
      BY <1>1, <2>1
    <3>4. name \in String.values
      BY <3>1, ElementOfSeq
    <3>5. f[n + 1] = B!Lookup(r, name)
      BY <3>1, <3>3 DEF LookupAt
    <3>6. B!Lookup(r, name) = B!Push(r, 15, name)
      BY DEF B!Lookup
    <3> HIDE DEF r, name
    <3>7. <<15, name>> \in NfsArgOp4.values
      BY <3>4, SimpleValues
    <3>8. m \in Nat /\ m >= 1 /\ m + 1 = (n + 1) + 2 /\ 15 # 53
      OBVIOUS
    <3> HIDE DEF m
    <3>9. InTurn(r, m)
      BY <3>2 DEF OnFile
    <3>10. OnFile(B!Push(r, 15, name), m + 1)
      BY <3>2, <3>7, <3>8, <3>9, NextInTurn
    <3> QED
      BY <3>5, <3>6, <3>8, <3>10
  <2>2. n + 1 \in Nat
    OBVIOUS
  <2> QED
    BY <2>1, <2>2
<1>4. Nat \subseteq M
  <2> HIDE DEF M
  <2> QED
    BY <1>2, <1>3, SetInduction
<1>5. Good(Len(path))
  BY <1>0, <1>4
<1>6. Len(path) \in 0 .. Len(path)
  BY <1>0
<1> QED
  BY <1>5, <1>6

\* The request for any path.
LEMMA ResolveInOrder ==
  ASSUME NEW path \in Paths
  PROVE  InOrder(ResolveRequest(path))
<1> DEFINE session == InSession(Name)
           first == B!PutRootFh(session)
           f == CHOOSE g : Lookups(g, first, path)
           r == f[Len(path)]
           n == Len(path) + 2
<1>1. path \in Seq(String.values) /\ Len(path) + 3 <= Room
  BY WireAssumption
<1>2. InTurn(session, 1)
  BY NameValues, SessionInTurn
<1>3. first = B!Push(session, 24, <<>>)
  BY DEF B!PutRootFh, B!Unit
<1>4. <<24, <<>>>> \in NfsArgOp4.values /\ <<10, <<>>>> \in NfsArgOp4.values
  BY SimpleValues
<1>r. ResolveRequest(path) = B!GetFh(r)
  BY DEF ResolveRequest, Lookups, LookupAt
<1> HIDE DEF session
<1>5. 24 \in {22, 24} /\ 24 # 53 /\ 24 \in Free /\ 1 \in Nat /\ 1 >= 1 /\ 1 + 1 = 2
  BY DEF Free
<1>6. OnFile(B!Push(session, 24, <<>>), 1 + 1)
  BY <1>2, <1>4, <1>5, NextInTurn
<1>7. OnFile(first, 2)
  BY <1>3, <1>5, <1>6
<1> HIDE DEF first
<1>8. first \in [tag : String.values, ops : Seq(NfsArgOp4.values)] /\ Len(first.ops) = 2
  BY <1>7 DEF OnFile, InTurn, Made
<1>9. \E g : Lookups(g, first, path)
  BY <1>1, <1>8, LookupsExist, Zenon
<1>10. Lookups(f, first, path)
  BY <1>9
<1> HIDE DEF f
<1>11. OnFile(r, n)
  BY <1>1, <1>7, <1>10, LookupsInTurn, Zenon
<1>12. Len(path) \in Nat
  BY <1>1
<1>13. n \in Nat /\ n >= 1 /\ n + 1 = Len(path) + 3 /\ 10 # 53
  BY <1>12
<1>14. InTurn(r, n)
  BY <1>11 DEF OnFile
<1> HIDE DEF r, n
<1>15. InTurn(B!Push(r, 10, <<>>), n + 1)
  BY <1>4, <1>11, <1>13, <1>14, NextInTurn
<1>16. n + 1 \in 0 .. Room
  BY <1>1, <1>12, <1>13, RoomWord
<1>17. InOrder(B!Push(r, 10, <<>>))
  BY <1>15, <1>16, InTurnInOrder
<1> QED
  BY <1>r, <1>17 DEF B!GetFh, B!Unit

\* Every request the client makes.
LEMMA RequestsInOrder ==
  ASSUME NEW request \in Requests
  PROVE  InOrder(request)
  BY ExchangeIdInOrder, CreateSessionInOrder, ReclaimInOrder, DestroyInOrder,
     KeepaliveInOrder, ResolveInOrder, FilesInOrder DEF Requests

-----------------------------------------------------------------------------
(* The calls of the client. *)

\* Both credentials are values of their layout.
LEMMA CredentialValues ==
  /\ AuthNone \in AuthFlavor.values
  /\ AuthSys \in AuthFlavor.values
<1>1. AuthNone \in AuthFlavor.values
  BY AuthFlavorIs, AuthValues DEF AuthNone
<1>2. AuthSys \in AuthFlavor.values
  <2> DEFINE id == 1000
             groups == <<4, 27>>
             body == <<<<<<<<1, Name>>, id>>, id>>, groups>>
  <2>1. AuthSys = <<1, body>>
    BY SMT DEF AuthSys, &
  <2>2. id \in U32.values /\ 1 \in U32.values
    BY SmallWords, U32Values, SMT
  <2>3. groups \in Vec(U32).values
    <3>1. 4 \in U32.values /\ 27 \in U32.values
      BY SmallWords, U32Values
    <3>2. groups \in Seq(U32.values) /\ Len(groups) = 2
      <4> DEFINE W == U32.values
      <4>1. 4 \in W /\ 27 \in W
        BY <3>1
      <4> HIDE DEF W
      <4>2. groups \in Seq(W) /\ Len(groups) = 2
        BY <4>1
      <4> QED
        BY <4>2 DEF W
    <3> HIDE DEF groups
    <3>3. Len(groups) <= Room
      BY <3>2, FewOperations
    <3> QED
      BY <3>2, <3>3, VecIs
  <2> HIDE DEF id, groups
  <2>4. body \in SysBody.values
    BY <2>2, <2>3, NameValues, StructValue DEF SysBody
  <2> QED
    BY <2>1, <2>4, AuthFlavorIs, AuthValues
<1> QED
  BY <1>1, <1>2

LEMMA HeaderValue ==
  ASSUME NEW x \in Words, NEW program \in Words, NEW version \in Words, NEW proc \in Words
  PROVE  <<<<<<<<<<x, <<0, <<>>>>>>, <<2, <<>>>>>>, program>>, version>>, proc>>
           \in CallHeader.values
<1> DEFINE call == <<0, <<>>>>
           two == <<2, <<>>>>
<1>1. call \in Const(0).values /\ two \in Const(2).values
  BY ConstValues
<1> HIDE DEF call, two
<1>2. <<<<<<<<<<x, call>>, two>>, program>>, version>>, proc>> \in CallHeader.values
  BY <1>1, U32Values, StructValue DEF CallHeader
<1> QED
  BY <1>2 DEF call, two

\* What the header of every call holds.
Header == 258 & <<0, <<>>>> & <<2, <<>>>> & 100003 & 4 & 1

LEMMA HeaderIs == Header \in CallHeader.values
<1> DEFINE program == 100003
           xid == 258
           h == <<<<<<<<<<xid, <<0, <<>>>>>>, <<2, <<>>>>>>, program>>, 4>>, 1>>
<1>1. Header = h
  BY SMT DEF Header, &
<1>2. program \in Words /\ xid \in Words
  BY LargeWords, SmallWords, SMT
<1>3. 4 \in Words /\ 1 \in Words
  BY SmallWords
<1> HIDE DEF program, xid
<1>4. h \in CallHeader.values
  BY <1>2, <1>3, HeaderValue
<1> QED
  BY <1>1, <1>4, SMT

\* The COMPOUND the builder makes is one the layout can encode.
LEMMA BuildIs ==
  ASSUME NEW r, InOrder(r)
  PROVE  /\ B!Build(r) = <<<<r.tag, 1>>, r.ops>>
         /\ B!Build(r) \in Compound4args.values
<1>1. B!Build(r) = <<<<r.tag, 1>>, r.ops>>
  BY DEF B!Build, B!&
<1>2. r.tag \in String.values /\ r.ops \in Seq(NfsArgOp4.values)
  <2> DEFINE S == Seq(NfsArgOp4.values)
  <2>1. r \in [tag : String.values, ops : S]
    BY DEF InOrder, Made
  <2> HIDE DEF S
  <2>2. r.tag \in String.values /\ r.ops \in S
    BY <2>1
  <2> QED
    BY <2>2 DEF S
<1>3. Len(r.ops) <= Room
  BY RoomWord DEF InOrder
<1>4. r.ops \in Vec(NfsArgOp4).values
  BY <1>2, <1>3, VecIs
<1>5. 1 \in U32.values
  BY SmallWords, U32Values
<1>6. <<<<r.tag, 1>>, r.ops>> \in Compound4args.values
  BY <1>2, <1>4, <1>5, StructValue DEF Compound4args
<1> QED
  BY <1>1, <1>6

\* So is the call around it.
LEMMA CallIs ==
  ASSUME NEW r, InOrder(r), NEW cred \in {AuthNone, AuthSys}
  PROVE  /\ CallOf(r, cred) = <<<<<<Header, cred>>, AuthNone>>, B!Build(r)>>
         /\ CallOf(r, cred) \in RpcCall.values
<1>1. CallOf(r, cred) = <<<<<<Header, cred>>, AuthNone>>, B!Build(r)>>
  BY SMT DEF CallOf, Header, &
<1>2. cred \in AuthFlavor.values /\ AuthNone \in AuthFlavor.values
  BY CredentialValues
<1>3. B!Build(r) \in Body(Compound4args).values
  BY BuildIs, BodyIs
<1>4. <<<<<<Header, cred>>, AuthNone>>, B!Build(r)>> \in RpcCall.values
  BY <1>2, <1>3, HeaderIs, StructValue DEF RpcCall
<1> QED
  BY <1>1, <1>4

LEMMA ClientCallsAre ==
  ASSUME NEW s \in ClientCalls
  PROVE  \E r : InOrder(r) /\ s[2] = B!Build(r) /\ s \in RpcCall.values
<1>1. PICK r \in Requests, cred \in {AuthNone, AuthSys} : s = CallOf(r, cred)
  BY DEF ClientCalls
<1>2. InOrder(r)
  BY RequestsInOrder
<1>3. s = <<<<<<Header, cred>>, AuthNone>>, B!Build(r)>> /\ s \in RpcCall.values
  BY <1>1, <1>2, CallIs
<1>4. s[2] = B!Build(r)
  BY <1>3
<1> QED
  BY <1>2, <1>3, <1>4

-----------------------------------------------------------------------------
(* The message on its way. *)

\* What is on the wire is what the encoder made of the value sent, as far as
\* the damage says; what was received is what the decoder made of the wire.
WireInvariant ==
  /\ sent \in Layout(layout).values
  /\ layout = "request" => sent \in ClientCalls
  /\ wire \in Bytes
  /\ received = Unread => damage = "none"
  /\ damage = "none" => wire = Layout(layout).enc[sent]
  /\ damage = "long" => wire = Layout(layout).enc[sent] \o Trailing
  /\ damage = "cut" => \E x \in Bytes : x # <<>> /\ Layout(layout).enc[sent] = wire \o x
  /\ received = Unread \/ received = Layout(layout).dec[wire]

\* What is sent is read back, whatever its layout.
LEMMA LayoutCodec ==
  ASSUME NEW l
  PROVE  Codec(Layout(l), TRUE)
  BY RpcCallCodec, RpcReplyCodec DEF Layout

\* A decoder panics, or says what became of the bytes.
Ends(t) == \A b \in Bytes : t.dec[b].out = "panic" \/ Settles(t.dec[b], b)

LEMMA QuietEnds ==
  ASSUME NEW t, Quiet(t)
  PROVE  Ends(t)
  BY DEF Quiet, Ends

LEMMA StructEnds ==
  ASSUME NEW t, NEW u, Ends(t), Ends(u)
  PROVE  Ends(t ** u)
<1> SUFFICES ASSUME NEW b \in Bytes
             PROVE  (t ** u).dec[b].out = "panic" \/ Settles((t ** u).dec[b], b)
  BY DEF Ends
<1> DEFINE part == t.dec[b]
           r == u.dec[part.rest]
<1>1. (t ** u).dec[b] = DecStruct(t, u, b)
  BY StructIs
<1>2. part.out = "panic" \/ Settles(part, b)
  BY DEF Ends
<1>3. CASE part.out = "ok"
  <2>1. (t ** u).dec[b] = After(part, r)
    BY <1>1, <1>3 DEF DecStruct
  <2>2. part.rest \in Bytes /\ EndOf(part.rest, b)
    BY <1>2, <1>3 DEF Settles
  <2>3. r.out = "panic" \/ Settles(r, part.rest)
    BY <2>2 DEF Ends
  <2>4. r.out = "panic" \/ Settles(r, b)
    BY <2>2, <2>3, EndSettles
  <2>5. CASE r.out = "panic"
    <3>1. After(part, r) = r
      BY <2>5 DEF After
    <3> QED
      BY <2>1, <2>5, <3>1
  <2>6. CASE Settles(r, b)
    BY <2>1, <2>6, AfterSettles
  <2> QED
    BY <2>4, <2>5, <2>6
<1>4. CASE part.out # "ok"
  <2>1. (t ** u).dec[b] = part
    BY <1>1, <1>4 DEF DecStruct
  <2> QED
    BY <1>2, <2>1
<1> QED
  BY <1>3, <1>4

\* Calls and replies.
LEMMA LayoutEnds ==
  ASSUME NEW l
  PROVE  Ends(Layout(l))
<1>1. Ends(AuthFlavor)
  BY AuthFlavorEnds DEF AuthEnds, Ends
<1>2. Ends(CallHeader) /\ Ends(ReplyHeader) /\ Ends(AcceptStatus)
  BY CallHeaderExact, ReplyHeaderExact, AcceptStatusCodec, QuietEnds DEF Exact
<1>3. Ends(Body(Compound4args))
  BY CompoundExact, BodyQuiet, QuietEnds DEF Exact
<1>4. Ends(RpcCall)
  BY <1>1, <1>2, <1>3, StructEnds DEF RpcCall
<1>5. Ends(RpcReply)
  BY <1>1, <1>2, StructEnds DEF RpcReply
<1> QED
  BY <1>4, <1>5 DEF Layout

\* So that it is seen whether a message has been read.
LEMMA UnreadIs ==
  ASSUME NEW l, NEW b \in Bytes
  PROVE  Layout(l).dec[b] # Unread
<1>1. Unread.out = "unread"
  BY DEF Unread, Stop
<1>2. Layout(l).dec[b].out \in {"ok", "err", "abort", "panic"}
  BY LayoutEnds DEF Ends, Settles
<1> QED
  BY <1>1, <1>2

\* The invariant holds at first.
LEMMA WireInit == Init => WireInvariant
<1> SUFFICES ASSUME Init
             PROVE  WireInvariant
  OBVIOUS
<1>1. layout \in {"call", "reply", "request"} /\ sent \in Values[layout]
  BY DEF Init, Values
<1>2. sent \in Layout(layout).values /\ (layout = "request" => sent \in ClientCalls)
  <2>1. CASE layout = "call"
    BY <1>1, <2>1, WireAssumption DEF Values, Layout
  <2>2. CASE layout = "reply"
    BY <1>1, <2>2, WireAssumption DEF Values, Layout
  <2>3. CASE layout = "request"
    <3>1. sent \in ClientCalls
      BY <1>1, <2>3 DEF Values
    <3> QED
      BY <2>3, <3>1, ClientCallsAre DEF Layout
  <2> QED
    BY <1>1, <2>1, <2>2, <2>3
<1>3. wire = Layout(layout).enc[sent] /\ damage = "none" /\ received = Unread
  BY DEF Init
<1>4. wire \in Bytes
  BY <1>2, <1>3, LayoutCodec DEF Codec, Encodes
<1> QED
  BY <1>2, <1>3, <1>4 DEF WireInvariant

\* A message that ends early is what is left of the one that was sent.
LEMMA CutBytes ==
  ASSUME NEW b \in Bytes, NEW n \in 0 .. Len(b) - 1
  PROVE  /\ SubSeq(b, 1, n) \in Bytes
         /\ From(b, n) \in Bytes /\ From(b, n) # <<>>
         /\ b = SubSeq(b, 1, n) \o From(b, n)
<1>1. b \in Seq(0 .. 255) /\ Len(b) \in Nat /\ n \in 0 .. Len(b) /\ Len(b) - n >= 1
  BY DEF Bytes
<1>2. SubSeq(b, 1, n) \in Seq(0 .. 255) /\ SubSeq(b, 1, n) \o From(b, n) = b
  BY <1>1, FromJoins
<1>3. From(b, n) \in Seq(0 .. 255) /\ Len(From(b, n)) = Len(b) - n
  BY <1>1, FromProperties
<1>4. From(b, n) # <<>>
  BY <1>1, <1>3
<1> QED
  BY <1>2, <1>3, <1>4 DEF Bytes

\* A message with a word changed is still bytes.
LEMMA ChangedBytes ==
  ASSUME NEW b \in Bytes, NEW i \in 1 .. Len(b) \div 4, NEW w \in Nat
  PROVE  SubSeq(b, 1, 4 * i - 4) \o Word(w) \o From(b, 4 * i) \in Bytes
<1>1. b \in Seq(0 .. 255) /\ Len(b) \in Nat
  BY DEF Bytes
<1> DEFINE l == Len(b)
<1>2. 4 * i - 4 \in 0 .. l /\ 4 * i \in 0 .. l
  <2>1. l \in Nat /\ i \in Nat /\ i >= 1 /\ i <= l \div 4
    BY <1>1
  <2> HIDE DEF l
  <2>2. 4 * (l \div 4) <= l
    BY <2>1
  <2> QED
    BY <2>1, <2>2
<1>3. SubSeq(b, 1, 4 * i - 4) \in Bytes /\ From(b, 4 * i) \in Bytes
  BY <1>1, <1>2, FromJoins, FromProperties DEF Bytes
<1>4. Word(w) \in Bytes
  BY WordType
<1> DEFINE x == SubSeq(b, 1, 4 * i - 4)
           y == From(b, 4 * i)
           z == Word(w)
<1> HIDE DEF x, y, z
<1>5. x \in Bytes /\ y \in Bytes /\ z \in Bytes
  BY <1>3, <1>4 DEF x, y, z
<1>6. x \o z \in Bytes
  BY <1>5, BytesConcat
<1>7. x \o z \o y \in Bytes
  BY <1>5, <1>6, BytesConcat
<1> QED
  BY <1>7 DEF x, y, z

\* Every way a message may arrive keeps it.
LEMMA WireStep == WireInvariant /\ [Next]_vars => WireInvariant'
<1> SUFFICES ASSUME WireInvariant, [Next]_vars
             PROVE  WireInvariant'
  OBVIOUS
<1> DEFINE t == Layout(layout)
           e == t.enc[sent]
<1>1. ASSUME NEW b \in Bytes, NEW how, ArrivesAs(b, how), how # "none",
             how = "long" => b = e \o Trailing,
             how = "cut" => \E x \in Bytes : x # <<>> /\ e = b \o x
      PROVE  WireInvariant'
  <2>1. t.dec[b] # Unread
    BY UnreadIs
  <2>2. /\ layout' = layout /\ sent' = sent /\ wire' = b /\ damage' = how
        /\ received' = t.dec[b]
    BY <1>1 DEF ArrivesAs
  <2>3. Layout(layout)' = t
    BY <2>2 DEF Layout
  <2>4. sent \in t.values /\ (layout = "request" => sent \in ClientCalls)
    BY DEF WireInvariant
  <2> HIDE DEF t
  <2> QED
    BY <1>1, <2>1, <2>2, <2>3, <2>4 DEF WireInvariant
<1>2. received = Unread => wire = e /\ wire \in Bytes
  BY DEF WireInvariant
<1>3. CASE Arrives
  <2>1. /\ layout' = layout /\ sent' = sent /\ wire' = wire /\ damage' = damage
        /\ received' = t.dec[wire] /\ received = Unread
    BY <1>3 DEF Arrives
  <2>2. Layout(layout)' = t
    BY <2>1 DEF Layout
  <2>3. t.dec[wire] # Unread
    BY <1>2, <2>1, UnreadIs
  <2>4. WireInvariant
    OBVIOUS
  <2> QED
    BY <2>1, <2>2, <2>3, <2>4 DEF WireInvariant
<1>4. CASE ArrivesCut
  <2>1. PICK n \in 0 .. Len(wire) - 1 : ArrivesAs(SubSeq(wire, 1, n), "cut")
    BY <1>4 DEF ArrivesCut
  <2> DEFINE b == SubSeq(wire, 1, n)
             x == From(wire, n)
  <2>2. wire = e /\ wire \in Bytes
    BY <1>2, <2>1 DEF ArrivesAs
  <2>3. b \in Bytes /\ x \in Bytes /\ x # <<>> /\ e = b \o x
    BY <2>2, CutBytes
  <2>4. "cut" # "none" /\ "cut" # "long"
    OBVIOUS
  <2> HIDE DEF b, x, t, e
  <2>5. ArrivesAs(b, "cut")
    BY <2>1 DEF b
  <2> QED
    BY <1>1, <2>3, <2>4, <2>5
<1>5. CASE ArrivesLong
  <2> DEFINE b == wire \o Trailing
  <2>1. ArrivesAs(b, "long")
    BY <1>5 DEF ArrivesLong
  <2>2. wire = e /\ wire \in Bytes
    BY <1>2, <2>1 DEF ArrivesAs
  <2>3. b \in Bytes /\ b = e \o Trailing
    BY <2>2, WireAssumption, BytesConcat
  <2>4. "long" # "none" /\ "long" # "cut"
    OBVIOUS
  <2> HIDE DEF b, t, e
  <2> QED
    BY <1>1, <2>1, <2>3, <2>4
<1>6. CASE ArrivesChanged
  <2>1. PICK i \in 1 .. Len(wire) \div 4, w \in DamagedWords :
          ArrivesAs(SubSeq(wire, 1, 4 * i - 4) \o Word(w) \o From(wire, 4 * i), "changed")
    BY <1>6 DEF ArrivesChanged
  <2> DEFINE b == SubSeq(wire, 1, 4 * i - 4) \o Word(w) \o From(wire, 4 * i)
  <2>2. wire \in Bytes
    BY <1>2, <2>1 DEF ArrivesAs
  <2>3. b \in Bytes
    BY <2>2, WireAssumption, ChangedBytes
  <2>4. "changed" # "none" /\ "changed" # "cut" /\ "changed" # "long"
    OBVIOUS
  <2>5. ArrivesAs(b, "changed")
    BY <2>1
  <2> HIDE DEF b, t, e
  <2> QED
    BY <1>1, <2>3, <2>4, <2>5
<1>7. CASE UNCHANGED vars
  BY <1>7 DEF WireInvariant, vars, Layout
<1> QED
  BY <1>3, <1>4, <1>5, <1>6, <1>7 DEF Next

\* The invariant the theorems rest on.
THEOREM WireCorrect == Spec => []WireInvariant
  BY WireInit, WireStep, PTL DEF Spec

\* Decoding what was sent, whatever follows it.
LEMMA ReadBack ==
  ASSUME NEW l, NEW v \in Layout(l).values, NEW r \in Bytes
  PROVE  \E q \in Bytes : Layout(l).dec[Layout(l).enc[v] \o r] = Ok(v, q)
  BY LayoutCodec DEF Codec, ReadsBack

\* What was not cut or changed is received as it was sent.
LEMMA ReceivedAsSent ==
  ASSUME WireInvariant, damage \in {"none", "long"}, received # Unread
  PROVE  received.out = "ok" /\ received.val = sent
<1> DEFINE t == Layout(layout)
           e == t.enc[sent]
<1>1. received = t.dec[wire] /\ sent \in t.values /\ wire \in Bytes
  BY DEF WireInvariant
<1>2. \E r \in Bytes : wire = e \o r
  <2>1. CASE damage = "none"
    <3>1. wire = e
      BY <2>1 DEF WireInvariant
    <3>2. <<>> \in Bytes /\ wire = e \o <<>>
      BY <1>1, <3>1, BytesEmpty
    <3> QED
      BY <3>2
  <2>2. CASE damage = "long"
    <3>1. wire = e \o Trailing
      BY <2>2 DEF WireInvariant
    <3> QED
      BY <3>1, WireAssumption
  <2> QED
    BY <2>1, <2>2
<1>3. PICK r \in Bytes : wire = e \o r
  BY <1>2
<1>4. PICK q \in Bytes : t.dec[e \o r] = Ok(sent, q)
  BY <1>1, ReadBack
<1> HIDE DEF t, e
<1>5. received = Ok(sent, q)
  BY <1>1, <1>3, <1>4
<1> QED
  BY <1>5, OkFields

\* Every message is read back as it was sent, for every value of every layout
\* (ReadAsSent).
THEOREM MessagesReadAsSent == Spec => []ReadAsSent
<1>1. WireInvariant => ReadAsSent
  BY ReceivedAsSent DEF ReadAsSent
<1> QED
  BY <1>1, WireCorrect, PTL

\* No beginning of a message is taken for a message (CutIsRefused).
THEOREM CutsAreRefused == Spec => []CutIsRefused
<1>1. WireInvariant => CutIsRefused
  <2> SUFFICES ASSUME WireInvariant, damage = "cut"
               PROVE  received.out = "err"
    BY DEF CutIsRefused
  <2> DEFINE t == Layout(layout)
             e == t.enc[sent]
  <2>1. received = t.dec[wire] /\ sent \in t.values /\ wire \in Bytes
    <3>1. "cut" # "none"
      OBVIOUS
    <3> QED
      BY <3>1 DEF WireInvariant
  <2>2. PICK x \in Bytes : x # <<>> /\ e = wire \o x
    BY DEF WireInvariant
  <2>3. t.dec[wire] = Err
    BY <2>1, <2>2, LayoutCodec DEF Codec, RefusesCuts
  <2> QED
    BY <2>1, <2>3, ErrFields
<1> QED
  BY <1>1, WireCorrect, PTL

\* Every request of the client, on any path, is read off the wire in the order
\* a session asks for (RequestsKeepOrder).
THEOREM RequestsInSessionOrder == Spec => []RequestsKeepOrder
<1>1. WireInvariant => RequestsKeepOrder
  <2> SUFFICES ASSUME WireInvariant, layout = "request", damage = "none",
                      received.out = "ok"
               PROVE  RequestsKeepOrder
    BY DEF RequestsKeepOrder
  <2>1. received # Unread
    <3>1. Unread.out # "ok"
      BY DEF Unread, Stop
    <3> QED
      BY <3>1
  <2>2. received.val = sent
    BY <2>1, ReceivedAsSent
  <2>3. sent \in ClientCalls
    BY DEF WireInvariant
  <2>4. PICK r : InOrder(r) /\ sent[2] = B!Build(r)
    BY <2>3, ClientCallsAre
  <2> DEFINE compound == received.val[2]
             ops == [i \in DOMAIN compound[2] |-> compound[2][i][1]]
             o == r.ops
  <2>5. compound = <<<<r.tag, 1>>, o>>
    BY <2>2, <2>4, BuildIs
  <2>6. o \in Seq(NfsArgOp4.values) /\ o = compound[2] /\ compound[1][2] = 1
    <3> DEFINE S == Seq(NfsArgOp4.values)
    <3>1. r \in [tag : String.values, ops : S]
      BY <2>4 DEF InOrder, Made
    <3> HIDE DEF S
    <3>2. r.ops \in S
      BY <3>1
    <3> QED
      BY <2>5, <3>2 DEF S
  <2>7. DOMAIN o = 1 .. Len(o) /\ Len(o) \in Nat
    BY <2>6
  <2>8. ops = [i \in 1 .. Len(o) |-> o[i][1]]
    BY <2>6, <2>7
  <2> HIDE DEF compound, o
  <2>9. DOMAIN ops = 1 .. Len(o) /\ \A i \in 1 .. Len(o) : ops[i] = o[i][1]
    BY <2>8
  <2>10. Len(ops) = Len(o)
    BY <2>7, <2>8
  <2> HIDE DEF ops
  <2>11. \/ Len(ops) = 1 /\ ops[1] \in {42, 43, 44}
         \/ \A i \in DOMAIN ops : (ops[i] = 53) <=> (i = 1)
    <3>1. \/ Len(o) = 1 /\ o[1][1] \in {42, 43, 44}
          \/ \A i \in 1 .. Len(o) : o[i][1] = 53 <=> i = 1
      BY <2>4 DEF InOrder, o
    <3>2. CASE Len(o) = 1 /\ o[1][1] \in {42, 43, 44}
      <4>1. 1 \in 1 .. Len(o)
        BY <3>2
      <4> QED
        BY <2>9, <2>10, <3>2, <4>1
    <3>3. CASE \A i \in 1 .. Len(o) : o[i][1] = 53 <=> i = 1
      BY <2>9, <3>3
    <3> QED
      BY <3>1, <3>2, <3>3
  <2>12. \A i \in DOMAIN ops :
           ops[i] \notin {22, 24, 42, 43, 44, 53, 58} =>
             \E j \in 1 .. i - 1 : ops[j] \in {22, 24}
    <3> SUFFICES ASSUME NEW i \in 1 .. Len(o),
                        ops[i] \notin {22, 24, 42, 43, 44, 53, 58}
                 PROVE  \E j \in 1 .. i - 1 : ops[j] \in {22, 24}
      BY <2>9
    <3>1. o[i][1] \notin Free
      BY <2>9 DEF Free
    <3>2. PICK j \in 1 .. i - 1 : o[j][1] \in {22, 24}
      BY <2>4, <3>1 DEF InOrder, o
    <3>3. j \in 1 .. Len(o)
      BY <2>7
    <3> QED
      BY <2>9, <3>2, <3>3
  <2> QED
    BY <2>6, <2>11, <2>12 DEF RequestsKeepOrder, compound, ops
<1> QED
  BY <1>1, WireCorrect, PTL

\* Decoding ends with a value or an error, panics at the length of an AUTH_NONE
\* beyond the end of the message, or ends the process at a count in the message
\* that there is no memory for (ChangeIsContained).
THEOREM ChangesAreContained == Spec => []ChangeIsContained
<1>1. ASSUME WireInvariant, received.out = "panic"
      PROVE  IF layout = "reply" THEN Overruns(From(wire, 12))
             ELSE \/ Overruns(From(wire, 24))
                  \/ Overruns(AuthFlavor.dec[From(wire, 24)].rest)
  <2>1. received # Unread
    <3>1. Unread.out # "panic"
      BY DEF Unread, Stop
    <3> QED
      BY <1>1, <3>1
  <2>2. wire \in Bytes /\ Layout(layout).dec[wire].out = "panic"
    BY <1>1, <2>1 DEF WireInvariant
  <2> QED
    BY <2>2, CallPanics, ReplyPanics DEF Layout
<1>2. ASSUME WireInvariant, received.out = "abort"
      PROVE  \E n \in 0 .. Len(wire) - 4 :
               received.rest = From(wire, n) /\ Number(From(wire, n)) > Room
  <2>1. received # Unread
    <3>1. Unread.out # "abort"
      BY DEF Unread, Stop
    <3> QED
      BY <1>2, <3>1
  <2>2. wire \in Bytes /\ received = Layout(layout).dec[wire]
    BY <1>2, <2>1 DEF WireInvariant
  <2>3. Settles(received, wire)
    BY <1>2, <2>2, LayoutEnds DEF Ends
  <2>4. PICK n \in 0 .. Len(wire) : received.rest = From(wire, n)
    BY <1>2, <2>3 DEF Settles, EndOf
  <2>5. Len(From(wire, n)) >= 4 /\ Number(From(wire, n)) > Room
    BY <1>2, <2>3, <2>4 DEF Settles, TooMany
  <2>6. Len(From(wire, n)) = Len(wire) - n /\ Len(wire) \in Nat
    BY <2>2, FromProperties DEF Bytes
  <2>7. n \in 0 .. Len(wire) - 4
    BY <2>5, <2>6
  <2> QED
    BY <2>4, <2>5, <2>7
<1>3. WireInvariant => ChangeIsContained
  BY <1>1, <1>2 DEF ChangeIsContained
<1> QED
  BY <1>3, WireCorrect, PTL
=============================================================================
