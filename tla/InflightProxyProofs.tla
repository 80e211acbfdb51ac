------------------------- MODULE InflightProxyProofs -------------------------
(***************************************************************************)
(* The accounting of InflightProxy, for any number of sockets, queries and *)
(* slots: the bound is never exceeded, every slot is given back once, and  *)
(* no query outlives its connection.                                       *)
(***************************************************************************)
EXTENDS InflightProxy, FiniteSetTheorems, TLAPS

Of(c) == {q \in Queries : src[q] = c}

(* TypeOK without the bounds, which are consequences of the accounting. *)
Shape ==
    /\ inflightRequests \in Int
    /\ open \in BOOLEAN
    /\ rd \in [Readers -> {"acquire", "read", "wait", "closed"}]
    /\ wg \in [Conns -> Int]
    /\ st \in [Queries -> Inflight \cup {"none", "done"}]
    /\ src \in [Queries -> Readers \cup {None}]
    /\ inflightRequests <= MaxInflightRequests

(* Each WaitGroup counts the queries of its connection, which is closed only *)
(* when there are none.                                                      *)
WaitGroups ==
    /\ \A q \in Queries : src[q] = None <=> st[q] = "none"
    /\ \A c \in Conns : wg[c] = Cardinality(Of(c))
    /\ \A c \in Conns : rd[c] = "closed" => wg[c] = 0

Inv == Shape /\ SlotAccounting /\ WaitGroups
-----------------------------------------------------------------------------
LEMMA FiniteHolders == IsFiniteSet(Holders)
<1>1. IsFiniteSet(Readers \cup Queries)
  BY ProxyAssumption, FS_Union DEF Readers
<1>2. Holders \subseteq Readers \cup Queries
  BY DEF Holders
<1> QED
  BY <1>1, <1>2, FS_Subset

LEMMA FiniteOf == ASSUME NEW c PROVE IsFiniteSet(Of(c))
<1>1. Of(c) \subseteq Queries
  BY DEF Of
<1> QED
  BY <1>1, ProxyAssumption, FS_Subset

(* What a step does to the number of holders, or of a connection's queries. *)
LEMMA One ==
    ASSUME NEW S, NEW T, IsFiniteSet(S), NEW x
    PROVE  /\ x \notin S /\ T = S \cup {x} => Cardinality(T) = Cardinality(S) + 1
           /\ x \in S /\ T = S \ {x} => Cardinality(T) = Cardinality(S) - 1
           /\ Cardinality(S) \in Nat
BY FS_AddElement, FS_RemoveElement, FS_CardinalityType

(* The query that was read inherits the slot of the loop that read it. *)
LEMMA Swap ==
    ASSUME NEW S, NEW T, IsFiniteSet(S), NEW x, NEW y,
           x \in S, y \notin S, T = (S \ {x}) \cup {y}
    PROVE  Cardinality(T) = Cardinality(S)
<1>1. IsFiniteSet(S \ {x}) /\ Cardinality(S \ {x}) = Cardinality(S) - 1
  BY FS_RemoveElement
<1>2. Cardinality(T) = Cardinality(S \ {x}) + 1
  BY <1>1, FS_AddElement
<1> QED
  BY <1>1, <1>2, FS_CardinalityType

-----------------------------------------------------------------------------
LEMMA ShapeStep == Inv /\ [Next]_vars => Shape'
<1> SUFFICES ASSUME Inv, [Next]_vars PROVE Shape'
  OBVIOUS
<1> USE ProxyAssumption DEF Inv, Shape, Inflight, Readers, Read, Step
<1>1. CASE \E r \in Readers : Acquire(r)
  BY <1>1 DEF Acquire
<1>2. CASE \E r \in Readers : \E q \in Queries : ReadQuery(r, q)
  BY <1>2 DEF ReadQuery
<1>3. ASSUME NEW l \in Listeners, SkipDatagram(l) \/ ListenerFails(l) PROVE Shape'
  <2>1. inflightRequests' \in Int /\ inflightRequests' <= MaxInflightRequests
    BY <1>3 DEF SkipDatagram, ListenerFails
  <2>2. rd' \in [Readers -> {"acquire", "read", "wait", "closed"}]
    BY <1>3 DEF SkipDatagram, ListenerFails
  <2> QED
    BY <1>3, <2>1, <2>2 DEF SkipDatagram, ListenerFails
<1>4. CASE \E c \in Conns : Accept(c) \/ EndConn(c) \/ CloseConn(c)
  BY <1>4 DEF Accept, EndConn, CloseConn
<1>5. CASE \E q \in Queries : Resolve(q) \/ Panic(q) \/ ReleaseSlot(q)
  BY <1>5 DEF Resolve, Panic, ReleaseSlot
<1>6. CASE \E q \in Queries : Done(q)
  BY <1>6 DEF Done
<1>7. CASE \E q \in Queries : Write(q)
  BY <1>7 DEF Write, WriteHead, WriteBody
<1>8. CASE CloseListeners
  BY <1>8 DEF CloseListeners
<1>9. CASE UNCHANGED vars
  BY <1>9 DEF vars
<1> QED
  BY <1>1, <1>2, <1>3, <1>4, <1>5, <1>6, <1>7, <1>8, <1>9 DEF Next, Serve

LEMMA SlotStep == Inv /\ [Next]_vars => SlotAccounting'
<1> SUFFICES ASSUME Inv, [Next]_vars PROVE SlotAccounting'
  OBVIOUS
<1> USE ProxyAssumption, FiniteHolders
<1> USE DEF Inv, Shape, Inflight, Readers, Read, Step, SlotAccounting
<1>1. ASSUME NEW r \in Readers, Acquire(r) PROVE SlotAccounting'
  <2>1. r \notin Holders /\ Holders' = Holders \cup {r}
    BY <1>1 DEF Acquire, Holders
  <2>2. Cardinality(Holders') = Cardinality(Holders) + 1
    BY <2>1, One
  <2> QED
    BY <1>1, <2>2 DEF Acquire
<1>2. ASSUME NEW r \in Readers, NEW q \in Queries, ReadQuery(r, q)
      PROVE  SlotAccounting'
  <2>1. r \in Holders /\ q \notin Holders /\ Holders' = (Holders \ {r}) \cup {q}
    BY <1>2 DEF ReadQuery, Holders
  <2>2. Cardinality(Holders') = Cardinality(Holders)
    BY <2>1, Swap
  <2> QED
    BY <1>2, <2>2 DEF ReadQuery
<1>3. ASSUME NEW r \in Readers, rd[r] = "read", UNCHANGED st,
             inflightRequests' = inflightRequests - 1,
             Read(r, "acquire") \/ Read(r, "closed") \/ Read(r, "wait")
      PROVE  SlotAccounting'
  <2>1. r \in Holders /\ Holders' = Holders \ {r}
    BY <1>3 DEF Holders
  <2>2. Cardinality(Holders') = Cardinality(Holders) - 1
    BY <2>1, One
  <2> QED
    BY <1>3, <2>2
<1>4. ASSUME NEW q \in Queries, ReleaseSlot(q) PROVE SlotAccounting'
  <2>1. q \in Holders /\ Holders' = Holders \ {q}
    BY <1>4 DEF ReleaseSlot, Holders
  <2>2. Cardinality(Holders') = Cardinality(Holders) - 1
    BY <2>1, One
  <2> QED
    BY <1>4, <2>2 DEF ReleaseSlot
<1>5. ASSUME UNCHANGED inflightRequests, Holders' = Holders PROVE SlotAccounting'
  BY <1>5
<1>6. CASE \E c \in Conns : Accept(c) \/ CloseConn(c)
  <2>1. Holders' = Holders
    BY <1>6 DEF Accept, CloseConn, Holders
  <2> QED
    BY <1>5, <1>6, <2>1 DEF Accept, CloseConn
<1>7. CASE \E q \in Queries : Resolve(q) \/ Panic(q) \/ WriteHead(q) \/ WriteBody(q)
  <2>1. Holders' = Holders
    BY <1>7 DEF Resolve, Panic, WriteHead, WriteBody, Holders
  <2> QED
    BY <1>5, <1>7, <2>1 DEF Resolve, Panic, WriteHead, WriteBody
<1>8. CASE \E q \in Queries : Done(q)
  <2>1. Holders' = Holders
    BY <1>8 DEF Done, Holders
  <2> QED
    BY <1>5, <1>8, <2>1 DEF Done
<1>9. CASE CloseListeners \/ UNCHANGED vars
  BY <1>9, <1>5 DEF CloseListeners, vars, Holders
<1>10. CASE \E l \in Listeners : SkipDatagram(l) \/ ListenerFails(l)
  BY <1>10, <1>3 DEF SkipDatagram, ListenerFails
<1>11. CASE \E c \in Conns : EndConn(c)
  BY <1>11, <1>3 DEF EndConn
<1> QED
  BY <1>1, <1>2, <1>4, <1>6, <1>7, <1>8, <1>9, <1>10, <1>11 DEF Next, Serve, Write

LEMMA WaitStep == Inv /\ [Next]_vars => WaitGroups'
<1> SUFFICES ASSUME Inv, [Next]_vars PROVE WaitGroups'
  OBVIOUS
<1> USE ProxyAssumption
<1> USE DEF Inv, Shape, Inflight, Readers, Read, Step, WaitGroups
<1>1. ASSUME NEW r \in Readers, NEW q \in Queries, ReadQuery(r, q)
      PROVE  WaitGroups'
  <2>1. \A p \in Queries : src'[p] = None <=> st'[p] = "none"
    BY <1>1 DEF ReadQuery
  <2>2. \A c \in Conns : wg'[c] = Cardinality(Of(c)')
    <3> SUFFICES ASSUME NEW c \in Conns PROVE wg'[c] = Cardinality(Of(c)')
      OBVIOUS
    <3>1. CASE c = r
      <4>1. q \notin Of(c) /\ Of(c)' = Of(c) \cup {q}
        BY <1>1, <3>1 DEF ReadQuery, Of
      <4>2. Cardinality(Of(c)') = Cardinality(Of(c)) + 1
        BY <4>1, FiniteOf, One
      <4> QED
        BY <1>1, <3>1, <4>2 DEF ReadQuery
    <3>2. CASE c # r
      BY <1>1, <3>2 DEF ReadQuery, Of
    <3> QED
      BY <3>1, <3>2
  <2>3. \A c \in Conns : rd'[c] = "closed" => wg'[c] = 0
    BY <1>1 DEF ReadQuery
  <2> QED
    BY <2>1, <2>2, <2>3
<1>2. ASSUME NEW q \in Queries, Done(q) PROVE WaitGroups'
  <2>1. \A p \in Queries : src'[p] = None <=> st'[p] = "none"
    BY <1>2 DEF Done
  <2>2. \A c \in Conns : wg'[c] = Cardinality(Of(c)')
    <3> SUFFICES ASSUME NEW c \in Conns PROVE wg'[c] = Cardinality(Of(c)')
      OBVIOUS
    <3>1. CASE c = src[q]
      <4>1. q \in Of(c) /\ Of(c)' = Of(c) \ {q}
        BY <1>2, <3>1 DEF Done, Of
      <4>2. Cardinality(Of(c)') = Cardinality(Of(c)) - 1
        BY <4>1, FiniteOf, One
      <4> QED
        BY <1>2, <3>1, <4>2 DEF Done
    <3>2. CASE c # src[q]
      BY <1>2, <3>2 DEF Done, Of
    <3> QED
      BY <3>1, <3>2
  <2>3. ASSUME NEW c \in Conns, rd'[c] = "closed" PROVE wg'[c] = 0
    <3>1. rd[c] = "closed" /\ wg[c] = 0 /\ Of(c) = {}
      BY <1>2, <2>3, FiniteOf, FS_EmptySet DEF Done
    <3>2. Of(c)' = {}
      BY <3>1, <1>2 DEF Done, Of
    <3> QED
      BY <3>2, <2>2, FS_EmptySet
  <2> QED
    BY <2>1, <2>2, <2>3
<1>3. ASSUME UNCHANGED <<wg, src>>, \A p \in Queries : st'[p] = "none" <=> st[p] = "none",
             \A c \in Conns : rd'[c] = "closed" => wg[c] = 0
      PROVE  WaitGroups'
  BY <1>3 DEF Of
<1>4. CASE \E r \in Readers : Acquire(r)
  BY <1>4, <1>3 DEF Acquire
<1>5. CASE \E l \in Listeners : SkipDatagram(l) \/ ListenerFails(l)
  BY <1>5, <1>3 DEF SkipDatagram, ListenerFails
<1>6. CASE \E c \in Conns : EndConn(c) \/ CloseConn(c)
  BY <1>6, <1>3 DEF EndConn, CloseConn
<1>7. CASE \E c \in Conns : Accept(c)
  <2>1. wg' = wg
    BY <1>7 DEF Accept
  <2> QED
    BY <1>7, <2>1, <1>3 DEF Accept
<1>8. CASE \E q \in Queries : Resolve(q) \/ Panic(q) \/ ReleaseSlot(q)
  BY <1>8, <1>3 DEF Resolve, Panic, ReleaseSlot
<1>9. CASE \E q \in Queries : Write(q)
  BY <1>9, <1>3 DEF Write, WriteHead, WriteBody
<1>10. CASE CloseListeners \/ UNCHANGED vars
  BY <1>10, <1>3 DEF CloseListeners, vars
<1> QED
  BY <1>1, <1>2, <1>4, <1>5, <1>6, <1>7, <1>8, <1>9, <1>10 DEF Next, Serve

LEMMA InvCorrect == Spec => []Inv
<1>1. Init => Inv
  <2> SUFFICES ASSUME Init PROVE Inv
    OBVIOUS
  <2>1. Holders = {} /\ \A c \in Conns : Of(c) = {}
    BY ProxyAssumption DEF Init, Holders, Of, Inflight, Readers
  <2> QED
    BY <2>1, FS_EmptySet, ProxyAssumption
    DEF Init, Inv, Shape, SlotAccounting, WaitGroups, Readers, Inflight
<1>2. Inv /\ [Next]_vars => Inv'
  BY ShapeStep, SlotStep, WaitStep DEF Inv
<1> QED
  BY <1>1, <1>2, PTL DEF Spec

(* The channel never holds more tokens than MaxInflightRequests nor fewer    *)
(* than none, and no WaitGroup becomes negative, which would panic.          *)
THEOREM ProxyTypes == Spec => []TypeOK
<1>1. Inv => TypeOK
  <2> SUFFICES ASSUME Inv PROVE TypeOK
    OBVIOUS
  <2>1. inflightRequests \in Nat
    BY FiniteHolders, FS_CardinalityType DEF Inv, SlotAccounting
  <2>2. \A c \in Conns : wg[c] \in Nat
    BY FiniteOf, FS_CardinalityType DEF Inv, WaitGroups
  <2> QED
    BY <2>1, <2>2, ProxyAssumption DEF Inv, Shape, TypeOK
<1> QED
  BY <1>1, InvCorrect, PTL

(* Each slot that is taken belongs to one loop that reads or to one query    *)
(* that is served, and is given back once.                                   *)
THEOREM SlotSafety == Spec => []SlotAccounting
BY InvCorrect, PTL DEF Inv

(* No query is left when its connection is closed. *)
THEOREM CloseSafety == Spec => []NoWriteAfterClose
<1>1. Inv => NoWriteAfterClose
  <2> SUFFICES ASSUME Inv, NEW q \in Queries, src[q] \in Conns, rd[src[q]] = "closed"
               PROVE  FALSE
    BY DEF NoWriteAfterClose
  <2>1. Cardinality(Of(src[q])) = 0
    BY DEF Inv, WaitGroups
  <2>2. Of(src[q]) = {}
    BY <2>1, FiniteOf, FS_EmptySet
  <2> QED
    BY <2>2 DEF Of
<1> QED
  BY <1>1, InvCorrect, PTL
=============================================================================
