------------------------ MODULE MySQLResultLayer_proofs ------------------------
(***************************************************************************)
(* Proofs about ReadResultDefinition's handle discipline, for every       *)
(* number of columns, every set of field types and every server answer.  *)
(***************************************************************************)
EXTENDS MySQLResultLayer, SequenceTheorems, TLAPS

(* What FreeResult leaves: the result freed when live, nothing touched    *)
(* when NULL, and an error recorded only for a result no longer live.     *)
LEMMA FreeResultLive ==
    ASSUME NEW h, NEW lv, NEW err, h = NULL \/ h \in lv
    PROVE  /\ FreeResult(h, lv, err).err = err
           /\ FreeResult(h, lv, err).live = lv \ {h}
                \/ FreeResult(h, lv, err).live = lv
           /\ FreeResult(h, lv, err).live \subseteq lv
  BY DEF FreeResult

(* Every lookup leaves the member pointing to NULL, to the result it has  *)
(* just stored, or, when the query may fail, to what it held before.      *)
LEMMA QueryOutcomesType ==
    ASSUME NEW q, NEW h
    PROVE  QueryOutcomes(q, h) \subseteq {h, NULL, q}
  BY DEF QueryOutcomes

(***************************************************************************)
(* Type correctness of the constructor: each step keeps every member in   *)
(* its range, whatever the server answers.                                 *)
(***************************************************************************)
LEMMA TypeInit == Init => TypeOK
  <1> SUFFICES ASSUME Init PROVE TypeOK
    OBVIOUS
  <1>1. << >> \in Seq((1 .. NColumns) \X {"OFTInteger", "OFTReal", "OFTString"})
    BY EmptySeq
  <1>2. QED
    BY <1>1, NColumnsAssumption DEF Init, TypeOK, Results

LEMMA TypeNext == TypeOK /\ [Next]_vars => TypeOK'
  <1> SUFFICES ASSUME TypeOK, [Next]_vars PROVE TypeOK'
    OBVIOUS
  <1>1. CASE Construct
    BY <1>1 DEF Construct, TypeOK
  <1>2. CASE ReadField
    <2>1. columns[iRawField] \in Column
      BY <1>2 DEF ReadField, TypeOK
    <2>2. columns[iRawField].type \in DOMAIN OFTOf
            => OFTOf[columns[iRawField].type] \in {"OFTInteger", "OFTReal", "OFTString"}
      BY DEF OFTOf
    <2>3. iRawField \in 1 .. NColumns
      BY <1>2, NColumnsAssumption DEF ReadField, TypeOK
    <2> DEFINE FieldPairs == (1 .. NColumns) \X {"OFTInteger", "OFTReal", "OFTString"}
    <2>4. fields' \in Seq(FieldPairs)
      <3>1. CASE columns[iRawField].type \in DOMAIN OFTOf
        <4>1. <<iRawField, OFTOf[columns[iRawField].type]>> \in FieldPairs
          BY <2>2, <2>3, <3>1
        <4>2. fields \in Seq(FieldPairs)
          BY DEF TypeOK
        <4>3. QED
          BY <1>2, <3>1, <4>1, <4>2, AppendProperties DEF ReadField
      <3>2. CASE columns[iRawField].type \notin DOMAIN OFTOf
        BY <1>2, <3>2 DEF ReadField, TypeOK
      <3>3. QED
        BY <3>1, <3>2
    <2>5. QED
      BY <1>2, <2>3, <2>4, NColumnsAssumption DEF ReadField, TypeOK
  <1>3. CASE EndFields
    BY <1>3 DEF EndFields, TypeOK
  <1>4. CASE QueryType
    BY <1>4 DEF QueryType, TypeOK, QueryOutcomes, FreeResult, FetchRows,
                FetchErr, WkbOf, Results
  <1>5. CASE QuerySrid
    BY <1>5 DEF QuerySrid, TypeOK, QueryOutcomes, FreeResult, FetchRows,
                FetchErr, Results
  <1>6. CASE QuerySrtext
    BY <1>6 DEF QuerySrtext, TypeOK, QueryOutcomes, FreeResult, FetchRows,
                FetchErr, Results
  <1>7. CASE UNCHANGED vars
    BY <1>7 DEF vars, TypeOK
  <1>8. QED
    BY <1>1, <1>2, <1>3, <1>4, <1>5, <1>6, <1>7 DEF Next

(* Every state of the constructor is well typed. *)
THEOREM TypeCorrect == Spec => []TypeOK
  BY TypeInit, TypeNext, PTL DEF Spec

-----------------------------------------------------------------------------
(***************************************************************************)
(* The handle discipline: the member is NULL or names a live result, so   *)
(* the "hResultSet != NULL" guards are enough for every free and fetch.   *)
(* ResultSetNeverMisused alone is not inductive: a step frees and fetches *)
(* through hResultSet, so the invariant must say what the member points   *)
(* to.                                                                    *)
(***************************************************************************)
HandleInv ==
    /\ TypeOK
    /\ memErr = {}
    /\ hResultSet = NULL \/ hResultSet \in live

(* One lookup (free, query, store, fetch) from a NULL-or-live member to   *)
(* one, with no misuse, when every mysql_query succeeds.                  *)
LEMMA LookupKeepsHandle ==
    ASSUME ~QueryMayFail,
           NEW hr, NEW lv, NEW q,
           hr = NULL \/ hr \in lv,
           NEW h \in QueryOutcomes(q, hr),
           NEW nl, nl = IF h = q THEN FreeResult(hr, lv, {}).live \cup {q}
                                 ELSE FreeResult(hr, lv, {}).live
    PROVE  /\ FetchErr(h, nl, FreeResult(hr, lv, {}).err) = {}
           /\ h = NULL \/ h \in nl
  <1>1. h \in {NULL, q}
    BY DEF QueryOutcomes
  <1>2. FreeResult(hr, lv, {}).err = {}
    BY FreeResultLive
  <1>3. QED
    BY <1>1, <1>2 DEF FetchErr

LEMMA HandleInit == Init => HandleInv
  BY TypeInit DEF Init, HandleInv

LEMMA HandleNext ==
    ASSUME ~QueryMayFail
    PROVE  HandleInv /\ [Next]_vars => HandleInv'
  <1> SUFFICES ASSUME HandleInv, [Next]_vars PROVE HandleInv'
    OBVIOUS
  <1>1. TypeOK'
    BY TypeNext DEF HandleInv
  <1>2. CASE Construct \/ ReadField \/ EndFields \/ UNCHANGED vars
    BY <1>1, <1>2 DEF Construct, ReadField, EndFields, vars, HandleInv
  <1>3. CASE QueryType
    <2>1. PICK h \in QueryOutcomes("type", hResultSet) :
            /\ hResultSet' = h
            /\ live' = IF h = "type"
                       THEN FreeResult(hResultSet, live, memErr).live \cup {"type"}
                       ELSE FreeResult(hResultSet, live, memErr).live
            /\ memErr' = FetchErr(h, live', FreeResult(hResultSet, live, memErr).err)
      BY <1>3 DEF QueryType
    <2>2. QED
      BY <1>1, <2>1, LookupKeepsHandle DEF HandleInv
  <1>4. CASE QuerySrid
    <2>1. PICK h \in QueryOutcomes("srid", hResultSet) :
            /\ hResultSet' = h
            /\ live' = IF h = "srid"
                       THEN FreeResult(hResultSet, live, memErr).live \cup {"srid"}
                       ELSE FreeResult(hResultSet, live, memErr).live
            /\ memErr' = FetchErr(h, live', FreeResult(hResultSet, live, memErr).err)
      BY <1>4 DEF QuerySrid
    <2>2. QED
      BY <1>1, <2>1, LookupKeepsHandle DEF HandleInv
  <1>5. CASE QuerySrtext
    <2>1. PICK h \in QueryOutcomes("srtext", hResultSet) :
            /\ hResultSet' = h
            /\ live' = IF h = "srtext"
                       THEN FreeResult(hResultSet, live, memErr).live \cup {"srtext"}
                       ELSE FreeResult(hResultSet, live, memErr).live
            /\ memErr' = FetchErr(h, live', FreeResult(hResultSet, live, memErr).err)
      BY <1>5 DEF QuerySrtext
    <2>2. QED
      BY <1>1, <2>1, LookupKeepsHandle DEF HandleInv
  <1>6. QED
    BY <1>2, <1>3, <1>4, <1>5 DEF Next

(***************************************************************************)
(* When every mysql_query succeeds, ReadResultDefinition never fetches    *)
(* from nor frees a result it has already freed.  The assumption is       *)
(* needed: when a query fails the member keeps the freed result, and the  *)
(* next free or fetch reaches it (the mysql_query_fails run).             *)
(***************************************************************************)
THEOREM ResultSetNeverMisusedHolds ==
    ASSUME ~QueryMayFail
    PROVE  Spec => []ResultSetNeverMisused
  <1>1. Init => HandleInv
    BY HandleInit
  <1>2. HandleInv /\ [Next]_vars => HandleInv'
    BY HandleNext
  <1>3. HandleInv => ResultSetNeverMisused
    BY DEF HandleInv, ResultSetNeverMisused
  <1>4. QED
    BY <1>1, <1>2, <1>3, PTL DEF Spec

=============================================================================
