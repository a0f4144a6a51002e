------------------------ MODULE ConnectionGaugeProofs ------------------------
(***************************************************************************)
(* The tracker and the instrument implement an exact gauge, for any finite *)
(* set of connections and any interleaving of their callbacks.             *)
(***************************************************************************)
EXTENDS ConnectionGauge, FiniteSetTheorems, TLAPS

At == [c \in Conns |-> CountedAs(c)]

(* Between callbacks the map mirrors the server; inside one it still has   *)
(* the old entry until the critical section, and the new one after it.     *)
Inv ==
    /\ TypeOK
    /\ TrackerFollowsServer
    /\ \A c \in Conns :
         /\ callback[c].pc \in {"recorded", "decremented"} =>
              states[c] = IF conn[c] \in Gone THEN NoConn ELSE conn[c]
         /\ ~Quiet(c) => conn[c] # NoConn

(* It holds before the first connection.                                   *)
LEMMA InitInv == Init => Inv
  BY DEF Init, Inv, TypeOK, TrackerFollowsServer, Quiet, Open, Gone, ConnState, NoConn

(* Every step of every callback keeps it.                                  *)
LEMMA InvInductive == Inv /\ [Next]_vars => Inv'
<1> SUFFICES ASSUME Inv, [Next]_vars PROVE Inv'
  OBVIOUS
<1> USE DEF Inv, TypeOK, TrackerFollowsServer, Quiet, Open, Gone, ConnState, NoConn
<1>1. ASSUME NEW c \in Conns, NEW next \in ConnState, SetState(c, next) PROVE Inv'
  BY <1>1 DEF SetState, Follows
<1>2. ASSUME NEW c \in Conns, Record(c) PROVE Inv'
  BY <1>2 DEF Record
<1>3. ASSUME NEW c \in Conns, Decrement(c) PROVE Inv'
  BY <1>3 DEF Decrement, AddConnection
<1>4. ASSUME NEW c \in Conns, Increment(c) PROVE Inv'
  BY <1>4 DEF Increment, AddConnection
<1>5. CASE UNCHANGED vars
  BY <1>5 DEF vars
<1> QED BY <1>1, <1>2, <1>3, <1>4, <1>5 DEF Next

(* The types of the tracker's state.                                       *)
THEOREM TrackerTypeCorrect == Spec => []TypeOK
<1>1. Inv => TypeOK
  BY DEF Inv
<1> QED BY <1>1, InitInv, InvInductive, PTL DEF Spec

(* Between callbacks the tracker's map mirrors the server's connections.   *)
THEOREM TrackerCorrect == Spec => []TrackerFollowsServer
<1>1. Inv => TrackerFollowsServer
  BY DEF Inv
<1> QED BY <1>1, InitInv, InvInductive, PTL DEF Spec

----------------------------------------------------------------------------
(* What a step does to the count: a decrement is a leave, an increment a   *)
(* join, and every other step a stutter.                                   *)

Stutter == At' = At /\ gauge' = gauge

Leaves(c) ==
    /\ At[c] \in ConnState
    /\ At' = [At EXCEPT ![c] = NoConn]
    /\ gauge' = [gauge EXCEPT ![At[c]] = @ - 1]

Joins(c) ==
    /\ At[c] = NoConn
    /\ conn[c] \in ConnState
    /\ At' = [At EXCEPT ![c] = conn[c]]
    /\ gauge' = [gauge EXCEPT ![conn[c]] = @ + 1]

(* Every step is one of the three.                                         *)
LEMMA StepCounts ==
    ASSUME Inv, [Next]_vars
    PROVE  Stutter \/ \E c \in Conns : Leaves(c) \/ Joins(c)
<1> USE DEF Inv, TypeOK, TrackerFollowsServer, Quiet, CountedAs, At,
             Open, Gone, ConnState, NoConn
<1>1. ASSUME NEW c \in Conns, NEW next \in ConnState, SetState(c, next) PROVE Stutter
  BY <1>1 DEF SetState, Stutter
<1>2. ASSUME NEW c \in Conns, Record(c) PROVE Stutter
  BY <1>2 DEF Record, Stutter
<1>3. ASSUME NEW c \in Conns, Decrement(c) PROVE Stutter \/ Leaves(c)
  <2>1. CASE callback[c].previous = NoConn
    BY <1>3, <2>1 DEF Decrement, Stutter
  <2>2. CASE callback[c].previous # NoConn
    <3>1. At[c] = callback[c].previous /\ At[c] \in ConnState
      BY <1>3, <2>2 DEF Decrement
    <3>2. At' = [At EXCEPT ![c] = NoConn]
      <4>1. CountedAs(c)' = NoConn
        BY <1>3 DEF Decrement
      <4>2. ASSUME NEW d \in Conns, d # c PROVE CountedAs(d)' = CountedAs(d)
        BY <1>3, <4>2 DEF Decrement
      <4> HIDE DEF CountedAs
      <4> QED BY <4>1, <4>2
    <3>3. gauge' = [gauge EXCEPT ![callback[c].previous] = @ - 1]
      BY <1>3, <2>2 DEF Decrement, AddConnection
    <3> HIDE DEF At
    <3> QED BY <3>1, <3>2, <3>3 DEF Leaves
  <2> QED BY <2>1, <2>2
<1>4. ASSUME NEW c \in Conns, Increment(c) PROVE Stutter \/ Joins(c)
  <2>1. CASE conn[c] \in Gone
    BY <1>4, <2>1 DEF Increment, Stutter
  <2>2. CASE conn[c] \notin Gone
    <3>1. At[c] = NoConn /\ conn[c] \in ConnState
      BY <1>4, <2>2 DEF Increment
    <3>2. At' = [At EXCEPT ![c] = conn[c]]
      BY <1>4, <2>2 DEF Increment
    <3>3. gauge' = [gauge EXCEPT ![conn[c]] = @ + 1]
      BY <1>4, <2>2 DEF Increment, AddConnection
    <3> HIDE DEF At
    <3> QED BY <3>1, <3>2, <3>3 DEF Joins
  <2> QED BY <2>1, <2>2
<1>5. CASE UNCHANGED vars
  BY <1>5 DEF vars, Stutter
<1> QED BY <1>1, <1>2, <1>3, <1>4, <1>5 DEF Next

(* Hence a step of the abstract gauge.                                     *)
LEMMA StepRefines ==
    ASSUME Inv, [Next]_vars PROVE [Gauge!Next]_(Gauge!vars)
<1>1. CASE Stutter
  BY <1>1 DEF Stutter, Gauge!vars, At
<1>2. ASSUME NEW c \in Conns, Leaves(c) PROVE Gauge!Leave(c)
  BY <1>2 DEF Leaves, Gauge!Leave, Gauge!NoLabel, NoConn, At
<1>3. ASSUME NEW c \in Conns, Joins(c) PROVE Gauge!Enter(c, conn[c]) /\ conn[c] \in ConnState
  BY <1>3 DEF Joins, Gauge!Enter, Gauge!NoLabel, NoConn, At
<1> QED BY <1>1, <1>2, <1>3, StepCounts DEF Gauge!Next

(* Every behaviour of the callbacks is one of the abstract gauge.          *)
THEOREM TrackerImplementsGauge == Spec => ImplementsGauge
<1>1. Init => Gauge!Init
  BY DEF Init, Gauge!Init, Gauge!NoLabel, CountedAs, Gone, NoConn
<1> QED BY <1>1, InitInv, InvInductive, StepRefines, PTL DEF Spec, ImplementsGauge, Gauge!Spec

----------------------------------------------------------------------------
(* The counts themselves, from what ActiveGauge promises.                  *)

(* Disjoint sets add up.                                                   *)
LEMMA CardinalityDisjoint ==
    ASSUME NEW S, IsFiniteSet(S), NEW T, IsFiniteSet(T), S \cap T = {}
    PROVE  /\ IsFiniteSet(S \cup T)
           /\ Cardinality(S \cup T) = Cardinality(S) + Cardinality(T)
<1>1. Cardinality(S) \in Nat /\ Cardinality(T) \in Nat
  BY FS_CardinalityType
<1>2. Cardinality(S \cup T) = Cardinality(S) + Cardinality(T) - Cardinality(S \cap T)
  BY FS_Union
<1>3. Cardinality(S \cap T) = 0
  BY FS_EmptySet
<1> QED BY <1>1, <1>2, <1>3, FS_Union

(* ActiveGauge counts as this module does.                                 *)
LEMMA SameCardinality == ASSUME NEW S PROVE Gauge!Cardinality(S) = Cardinality(S)
BY DEF Cardinality, Gauge!Cardinality

(* And finite means the same to both.                                      *)
LEMMA SameFinite == ASSUME NEW S PROVE Gauge!IsFiniteSet(S) = IsFiniteSet(S)
BY DEF IsFiniteSet, Gauge!IsFiniteSet

(* Every state of a connection shows as many connections as are counted    *)
(* under it, at every moment.                                              *)
CountsExact == \A s \in ConnState : gauge[s] = Cardinality({ c \in Conns : At[c] = s })

(* connections_active is an exact gauge because the callbacks implement    *)
(* one.                                                                    *)
THEOREM ConnectionsCounted == Spec => []CountsExact
<1>1. Gauge!FiniteMembers
  BY ConnsAssumption, SameFinite
  DEF Gauge!FiniteMembers, Gauge!NoLabel, ConnState, Open, Gone
<1>2. Gauge!Spec => []Gauge!Exact
  BY <1>1, Gauge!GaugeExact
<1>3. Spec => Gauge!Spec
  BY TrackerImplementsGauge DEF ImplementsGauge
<1>4. Gauge!Exact => CountsExact
  BY SameCardinality DEF Gauge!Exact, CountsExact, At
<1> QED BY <1>2, <1>3, <1>4, PTL

(* With no callback under way, connections_active is exact, however the    *)
(* callbacks before it interleaved.                                        *)
THEOREM GaugeSettles == Spec => []SettledGauge
<1>1. ASSUME Inv, CountsExact PROVE SettledGauge
  <2> SUFFICES ASSUME \A c \in Conns : Quiet(c) PROVE
        /\ \A s \in Open : gauge[s] = Cardinality({ c \in Conns : conn[c] = s })
        /\ \A s \in Gone : gauge[s] = 0
    BY DEF SettledGauge
  <2>1. \A c \in Conns : At[c] = IF conn[c] \in Gone THEN NoConn ELSE conn[c]
    BY DEF At, CountedAs, Quiet
  <2>2. ASSUME NEW s \in Open PROVE gauge[s] = Cardinality({ c \in Conns : conn[c] = s })
    <3>1. { c \in Conns : At[c] = s } = { c \in Conns : conn[c] = s }
      BY <2>1 DEF Open, Gone, NoConn
    <3> QED BY <1>1, <3>1 DEF CountsExact, ConnState
  <2>3. ASSUME NEW s \in Gone PROVE gauge[s] = 0
    <3>1. \A c \in Conns : At[c] # s
      BY <2>1 DEF Gone, NoConn
    <3>2. { c \in Conns : At[c] = s } = {}
      BY <3>1
    <3> QED BY <1>1, <3>2, FS_EmptySet DEF CountsExact, ConnState
  <2> QED BY <2>2, <2>3
<1> QED BY <1>1, InitInv, InvInductive, ConnectionsCounted, PTL DEF Spec

(* No scrape, in whatever state it falls, sees a connection twice.         *)
THEOREM GaugeNeverOvercounts == Spec => []NeverOvercounts
<1>1. ASSUME Inv, CountsExact PROVE NeverOvercounts
  <2> DEFINE Under(s) == { c \in Conns : At[c] = s }
             Held == { c \in Conns : conn[c] \in Open \/ ~Quiet(c) }
  <2>1. /\ gauge["new"] = Cardinality(Under("new"))
        /\ gauge["active"] = Cardinality(Under("active"))
        /\ gauge["idle"] = Cardinality(Under("idle"))
    BY <1>1 DEF CountsExact, ConnState, Open
  <2>2. /\ IsFiniteSet(Under("new")) /\ IsFiniteSet(Under("active"))
        /\ IsFiniteSet(Under("idle")) /\ IsFiniteSet(Held)
    BY ConnsAssumption, FS_Subset
  <2>3. /\ Under("new") \cap Under("active") = {}
        /\ (Under("new") \cup Under("active")) \cap Under("idle") = {}
    OBVIOUS
  <2>4. (Under("new") \cup Under("active")) \cup Under("idle") \subseteq Held
    <3>1. ASSUME NEW c \in Conns, At[c] \in Open PROVE c \in Held
      BY <1>1, <3>1 DEF At, CountedAs, Quiet, Inv, TypeOK, Open, Gone, NoConn, ConnState
    <3> QED BY <3>1 DEF Open
  <2> HIDE DEF Under, Held
  <2>5. /\ IsFiniteSet(Under("new") \cup Under("active"))
        /\ Cardinality(Under("new") \cup Under("active"))
             = Cardinality(Under("new")) + Cardinality(Under("active"))
    BY <2>2, <2>3, CardinalityDisjoint
  <2>6. Cardinality((Under("new") \cup Under("active")) \cup Under("idle"))
          = Cardinality(Under("new") \cup Under("active")) + Cardinality(Under("idle"))
    BY <2>2, <2>3, <2>5, CardinalityDisjoint
  <2>7. Cardinality((Under("new") \cup Under("active")) \cup Under("idle")) <= Cardinality(Held)
    BY <2>2, <2>4, FS_Subset
  <2> QED BY <2>1, <2>5, <2>6, <2>7 DEF NeverOvercounts, Held
<1> QED BY <1>1, InitInv, InvInductive, ConnectionsCounted, PTL DEF Spec

(* Both together: what a scrape of connections_active says is true.        *)
THEOREM ScrapesTruthful == Spec => []ScrapeTruthful
<1>1. NeverOvercounts /\ SettledGauge => ScrapeTruthful
  BY DEF ScrapeTruthful
<1> QED BY <1>1, GaugeSettles, GaugeNeverOvercounts, PTL
=============================================================================
