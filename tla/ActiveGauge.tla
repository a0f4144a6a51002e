----------------------------- MODULE ActiveGauge -----------------------------
(***************************************************************************)
(* What an up-down counter such as connections_active or streams_active    *)
(* promises: its members join one label at a time, and every join and      *)
(* every leave moves the counter of that label by one.                     *)
(***************************************************************************)
EXTENDS Integers, FiniteSets, FiniteSetTheorems, TLAPS

CONSTANTS
    Members,     \* what is counted: connections, streams
    Labels       \* the attribute sets of the instrument

VARIABLES
    at,          \* the label each member is counted under
    gauge        \* the instrument, by label

vars == <<at, gauge>>

NoLabel == "none"

Init ==
    /\ at = [m \in Members |-> NoLabel]
    /\ gauge = [l \in Labels |-> 0]

Enter(m, l) ==
    /\ at[m] = NoLabel
    /\ at' = [at EXCEPT ![m] = l]
    /\ gauge' = [gauge EXCEPT ![l] = @ + 1]

Leave(m) ==
    /\ at[m] \in Labels
    /\ at' = [at EXCEPT ![m] = NoLabel]
    /\ gauge' = [gauge EXCEPT ![at[m]] = @ - 1]

Next == \E m \in Members : Leave(m) \/ \E l \in Labels : Enter(m, l)

Spec == Init /\ [][Next]_vars

----------------------------------------------------------------------------
(* Every value a reader of the instrument sees is the number of members    *)
(* under that label, so it is never negative.                              *)
Exact == \A l \in Labels : gauge[l] = Cardinality({ m \in Members : at[m] = l })

----------------------------------------------------------------------------
(* How many members are under a label before and after one of them moves:  *)
(* the counting the argument rests on.                                     *)

CountAt(S, f, l) == Cardinality({ m \in S : f[m] = l })

(* g differs from f for the member m only.                                 *)
Moves(S, m, f, g) == m \in S /\ \A n \in S \ {m} : g[n] = f[n]

(* A member that takes a label is one more under it.                       *)
LEMMA CountAfterJoin ==
    ASSUME NEW S, IsFiniteSet(S), NEW m, NEW f, NEW g, Moves(S, m, f, g),
           NEW l, f[m] # l, g[m] = l
    PROVE  CountAt(S, g, l) = CountAt(S, f, l) + 1
<1> DEFINE Under == { n \in S : f[n] = l }
<1>1. IsFiniteSet(Under)
  BY FS_Subset
<1>2. m \notin Under /\ { n \in S : g[n] = l } = Under \cup {m}
  BY DEF Moves
<1> QED BY <1>1, <1>2, FS_AddElement DEF CountAt

(* A member that gives one up is one fewer under it.                       *)
LEMMA CountAfterLeave ==
    ASSUME NEW S, IsFiniteSet(S), NEW m, NEW f, NEW g, Moves(S, m, f, g),
           NEW l, f[m] = l, g[m] # l
    PROVE  CountAt(S, g, l) = CountAt(S, f, l) - 1
<1> DEFINE Under == { n \in S : f[n] = l }
<1>1. IsFiniteSet(Under)
  BY FS_Subset
<1>2. m \in Under /\ { n \in S : g[n] = l } = Under \ {m}
  BY DEF Moves
<1> QED BY <1>1, <1>2, FS_RemoveElement DEF CountAt

(* Other labels do not notice.                                             *)
LEMMA CountElsewhere ==
    ASSUME NEW S, NEW m, NEW f, NEW g, Moves(S, m, f, g),
           NEW l, f[m] # l, g[m] # l
    PROVE  CountAt(S, g, l) = CountAt(S, f, l)
<1>1. { n \in S : g[n] = l } = { n \in S : f[n] = l }
  BY DEF Moves
<1> QED BY <1>1 DEF CountAt

(* Nobody is under a label that nobody has.                                *)
LEMMA CountNobody ==
    ASSUME NEW S, NEW f, NEW l, \A m \in S : f[m] # l
    PROVE  CountAt(S, f, l) = 0
<1>1. { m \in S : f[m] = l } = {}
  OBVIOUS
<1> QED BY <1>1, FS_EmptySet DEF CountAt

----------------------------------------------------------------------------
(* An up-down counter that moves by one with every join and leave is       *)
(* exact, for every finite set of members and every set of labels.         *)

(* What the argument asks of the constants.                                *)
FiniteMembers == IsFiniteSet(Members) /\ NoLabel \notin Labels

(* The inductive invariant: exactness needs to know that every member has  *)
(* at most one label.                                                      *)
Inv ==
    /\ at \in [Members -> Labels \cup {NoLabel}]
    /\ gauge \in [Labels -> Int]
    /\ Exact

(* A join keeps every label exact.                                         *)
LEMMA EnterKeepsInv ==
    ASSUME FiniteMembers, Inv, NEW m \in Members, NEW l \in Labels, Enter(m, l) PROVE Inv'
<1>0. /\ Moves(Members, m, at, at') /\ IsFiniteSet(Members)
      /\ at[m] = NoLabel /\ at'[m] = l /\ NoLabel \notin Labels
  BY DEF FiniteMembers, Inv, Enter, Moves
<1>1. at' \in [Members -> Labels \cup {NoLabel}] /\ gauge' \in [Labels -> Int]
  BY DEF Inv, Enter
<1>2. CountAt(Members, at', l) = CountAt(Members, at, l) + 1
  BY <1>0, CountAfterJoin
<1>3. ASSUME NEW k \in Labels, k # l PROVE CountAt(Members, at', k) = CountAt(Members, at, k)
  BY <1>0, <1>3, CountElsewhere
<1> QED BY <1>1, <1>2, <1>3 DEF Inv, Exact, Enter, CountAt

(* So does a leave.                                                        *)
LEMMA LeaveKeepsInv ==
    ASSUME FiniteMembers, Inv, NEW m \in Members, Leave(m) PROVE Inv'
<1>0. /\ Moves(Members, m, at, at') /\ IsFiniteSet(Members)
      /\ at[m] \in Labels /\ at'[m] = NoLabel /\ NoLabel \notin Labels
  BY DEF FiniteMembers, Inv, Leave, Moves
<1>1. at' \in [Members -> Labels \cup {NoLabel}] /\ gauge' \in [Labels -> Int]
  BY DEF Inv, Leave
<1>2. CountAt(Members, at', at[m]) = CountAt(Members, at, at[m]) - 1
  BY <1>0, CountAfterLeave
<1>3. ASSUME NEW k \in Labels, k # at[m] PROVE CountAt(Members, at', k) = CountAt(Members, at, k)
  BY <1>0, <1>3, CountElsewhere
<1> QED BY <1>1, <1>2, <1>3 DEF Inv, Exact, Leave, CountAt

(* In every behaviour, every label shows the number of its members.        *)
THEOREM GaugeExact ==
    ASSUME FiniteMembers PROVE Spec => []Exact
<1>1. Init => Inv
  <2> SUFFICES ASSUME Init PROVE Inv
    OBVIOUS
  <2>1. ASSUME NEW l \in Labels PROVE CountAt(Members, at, l) = 0
    BY CountNobody DEF FiniteMembers, Init
  <2> QED BY <2>1 DEF Init, Inv, Exact, CountAt
<1>2. Inv /\ [Next]_vars => Inv'
  <2> SUFFICES ASSUME Inv, [Next]_vars PROVE Inv'
    OBVIOUS
  <2>1. CASE UNCHANGED vars
    BY <2>1 DEF Inv, Exact, vars
  <2> QED BY <2>1, FiniteMembers, EnterKeepsInv, LeaveKeepsInv DEF Next
<1>3. Inv => Exact
  BY DEF Inv
<1> QED BY <1>1, <1>2, <1>3, PTL DEF Spec
=============================================================================
