--------------------------- MODULE ConnectionGauge ---------------------------
(***************************************************************************)
(* connections_active: connStateTracker.observe (cmd/server/main.go) as    *)
(* the ConnState callback of the API listener, and AddConnection           *)
(* (pkg/telemetry/observe.go).  net/http calls it on the goroutine of the  *)
(* connection, so the callbacks of one connection follow one another and   *)
(* those of two connections interleave.  The tracker's map changes under   *)
(* its lock; the instrument changes after the lock is released, in two     *)
(* steps that a scrape may fall between.                                   *)
(***************************************************************************)
EXTENDS Integers, FiniteSets

CONSTANTS
    Conns        \* the connections that may be accepted

ASSUME ConnsAssumption == IsFiniteSet(Conns)

VARIABLES
    conn,        \* net/http's state of each connection, NoConn before accept
    callback,    \* the observe call under way: [pc, previous]
    states,      \* connStateTracker.states, NoConn where it has no entry
    gauge        \* the instrument, by state

vars == <<conn, callback, states, gauge>>

NoConn == "none"
Open == {"new", "active", "idle"}
Gone == {"closed", "hijacked"}
ConnState == Open \cup Gone

(* The ConnState transitions of net/http; a closed connection is garbage.  *)
Follows(s) ==
    CASE s = NoConn   -> {"new"}
      [] s = "new"    -> {"active", "closed"}
      [] s = "active" -> {"idle", "closed", "hijacked"}
      [] s = "idle"   -> {"active", "closed"}
      [] OTHER        -> {}

Quiet(c) == callback[c].pc = "returned"

----------------------------------------------------------------------------
Init ==
    /\ conn = [c \in Conns |-> NoConn]
    /\ callback = [c \in Conns |-> [pc |-> "returned", previous |-> NoConn]]
    /\ states = [c \in Conns |-> NoConn]
    /\ gauge = [s \in ConnState |-> 0]

(* The server moves a connection and calls observe(conn, next).            *)
SetState(c, next) ==
    /\ Quiet(c)
    /\ next \in Follows(conn[c])
    /\ conn' = [conn EXCEPT ![c] = next]
    /\ callback' = [callback EXCEPT ![c].pc = "called"]
    /\ UNCHANGED <<states, gauge>>

(* Mutant: only a closed connection leaves the map.                        *)
MutantRecordKeepsHijacked(c) ==
    /\ callback[c].pc = "called"
    /\ callback' = [callback EXCEPT ![c] = [pc |-> "recorded", previous |-> states[c]]]
    /\ states' = [states EXCEPT ![c] = IF conn[c] = "closed" THEN NoConn ELSE conn[c]]
    /\ UNCHANGED <<conn, gauge>>

(* The critical section: what was there before, and the new entry.         *)
Record(c) ==
    /\ callback[c].pc = "called"
    /\ callback' = [callback EXCEPT ![c] = [pc |-> "recorded", previous |-> states[c]]]
    /\ states' = [states EXCEPT ![c] = IF conn[c] \in Gone THEN NoConn ELSE conn[c]]
    /\ UNCHANGED <<conn, gauge>>

AddConnection(s, delta) == gauge' = [gauge EXCEPT ![s] = @ + delta]

(* Mutant: the first callback of a connection is not told apart.           *)
MutantDecrementAlways(c) ==
    /\ callback[c].pc = "recorded"
    /\ callback' = [callback EXCEPT ![c].pc = "decremented"]
    /\ AddConnection(IF callback[c].previous = NoConn THEN "new" ELSE callback[c].previous, -1)
    /\ UNCHANGED <<conn, states>>

(* Mutant: a connection that goes is forgotten before it is counted out.   *)
MutantDecrementOpenOnly(c) ==
    /\ callback[c].pc = "recorded"
    /\ callback' = [callback EXCEPT ![c].pc = "decremented"]
    /\ IF states[c] # NoConn /\ callback[c].previous # NoConn
         THEN AddConnection(callback[c].previous, -1)
         ELSE UNCHANGED gauge
    /\ UNCHANGED <<conn, states>>

Decrement(c) ==
    /\ callback[c].pc = "recorded"
    /\ callback' = [callback EXCEPT ![c].pc = "decremented"]
    /\ IF callback[c].previous # NoConn
         THEN AddConnection(callback[c].previous, -1)
         ELSE UNCHANGED gauge
    /\ UNCHANGED <<conn, states>>

(* Mutant: a hijacked connection is still counted.                         *)
MutantIncrementHijacked(c) ==
    /\ callback[c].pc = "decremented"
    /\ callback' = [callback EXCEPT ![c] = [pc |-> "returned", previous |-> NoConn]]
    /\ IF conn[c] # "closed" THEN AddConnection(conn[c], 1) ELSE UNCHANGED gauge
    /\ UNCHANGED <<conn, states>>

Increment(c) ==
    /\ callback[c].pc = "decremented"
    /\ callback' = [callback EXCEPT ![c] = [pc |-> "returned", previous |-> NoConn]]
    /\ IF conn[c] \notin Gone THEN AddConnection(conn[c], 1) ELSE UNCHANGED gauge
    /\ UNCHANGED <<conn, states>>

Next ==
    \E c \in Conns :
        \/ \E next \in ConnState : SetState(c, next)
        \/ Record(c)
        \/ Decrement(c)
        \/ Increment(c)

Spec == Init /\ [][Next]_vars

----------------------------------------------------------------------------
(* Properties                                                              *)

TypeOK ==
    /\ conn \in [Conns -> ConnState \cup {NoConn}]
    /\ callback \in [Conns -> [pc : {"returned", "called", "recorded", "decremented"},
                               previous : Open \cup {NoConn}]]
    /\ states \in [Conns -> Open \cup {NoConn}]
    /\ gauge \in [ConnState -> Int]

(* Between callbacks the tracker's map holds the connections the server    *)
(* has open, each in its state, and no entry of one that was closed or     *)
(* hijacked: the map does not grow with the connections ever accepted.     *)
TrackerFollowsServer ==
    \A c \in Conns : Quiet(c) =>
        states[c] = IF conn[c] \in Gone THEN NoConn ELSE conn[c]

(* A scrape never sees more connections than the server has handed to      *)
(* observe and not yet taken back: a connection on its way from one state  *)
(* to the next is missing from connections_active, never in it twice.      *)
NeverOvercounts ==
    gauge["new"] + gauge["active"] + gauge["idle"]
      <= Cardinality({ c \in Conns : conn[c] \in Open \/ ~Quiet(c) })

(* Whenever no callback is under way, connections_active is exact.         *)
SettledGauge ==
    (\A c \in Conns : Quiet(c)) =>
        /\ \A s \in Open : gauge[s] = Cardinality({ c \in Conns : conn[c] = s })
        /\ \A s \in Gone : gauge[s] = 0

(* What an operator may read off a scrape of connections_active.           *)
ScrapeTruthful == NeverOvercounts /\ SettledGauge

(* The label a connection is counted under, a step at a time.              *)
CountedAs(c) ==
    CASE callback[c].pc = "returned" -> IF conn[c] \in Gone THEN NoConn ELSE conn[c]
      [] callback[c].pc = "called"   -> states[c]
      [] callback[c].pc = "recorded" -> callback[c].previous
      [] OTHER                       -> NoConn

Gauge == INSTANCE ActiveGauge WITH
    Members <- Conns, Labels <- ConnState,
    at <- [c \in Conns |-> CountedAs(c)], gauge <- gauge

(* Every step of every callback is a join or a leave of an exact gauge.    *)
ImplementsGauge == Gauge!Spec
=============================================================================
