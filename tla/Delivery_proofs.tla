---------------------------- MODULE Delivery_proofs ----------------------------
(***************************************************************************)
(* Proofs about module Delivery: with any number of relays that scan,     *)
(* publish and crash side by side, every outbox row is published once,    *)
(* replayed once and within its budget, no operation is given up before   *)
(* all its tries were published, and no message is terminated without its *)
(* diagnostic.  The invariant has a part for the journal's rows, one for  *)
(* the streams with the worker and the operator, and one for the relays   *)
(* and what they have claimed.                                            *)
(***************************************************************************)
EXTENDS Delivery, SequenceTheorems, FiniteSetTheorems, WellFoundedInduction, TLAPS

Lines == [op : Operations, cmd : Commands, version : Nat, source : Nat]
RelayStates ==
  [pc : {"idle", "recover", "publish", "send", "mark"}, ev : Nat, left : Nat, todo : Seq(Nat)]
WorkerStates ==
  [pc : {"idle", "handle", "nak", "quarantine", "term"}, m : Nat, version : Nat]

\* What the rows of an operation tell, in the order of their creation: versions only
\* grow, a replay follows the row it replays, and of the rows of one version only the
\* last may still be pending
Ordered ==
  /\ \A e \in Events : outbox[e].version <= op[outbox[e].op].version
  /\ \A e \in Events : outbox[e].source # 0 =>
       /\ outbox[e].source \in Events /\ outbox[e].source < e
       /\ outbox[outbox[e].source].op = outbox[e].op
  /\ \A e, f \in Events : e < f /\ outbox[e].op = outbox[f].op =>
       /\ outbox[e].version <= outbox[f].version
       /\ outbox[e].version = outbox[f].version => Published(e)

Counted ==
  \A o \in Operations, c \in Commands, v \in Nat :
    Cardinality(Republications(o, c, v)) <= MaxRecoveries

Marked ==
  /\ \A i \in DOMAIN published : published[i] \in Events
  /\ \A i, j \in DOMAIN published : published[i] = published[j] => i = j

JournalTypes ==
  /\ op \in [Operations -> [state : OperationStates, version : Nat]]
  /\ outbox \in Seq(Lines)
  /\ published \in Seq(Nat)

Journal == JournalTypes /\ Ordered /\ ReplayedOnce /\ Counted /\ Marked

\* Every message is one of a row; a terminated message, and one about to be terminated,
\* has its diagnostic
Streams ==
  /\ stream \in Seq(Messages(MaxDeliveries))
  /\ quarantine \in Seq(Messages(MaxInspections))
  /\ worker \in WorkerStates /\ operator \in Nat
  /\ \A m \in DOMAIN stream : stream[m].ev \in Events
  /\ \A q \in DOMAIN quarantine : quarantine[q].ev \in Events
  /\ worker.pc # "idle" => worker.m \in DOMAIN stream
  /\ operator # 0 => operator \in DOMAIN quarantine
  /\ worker.pc = "term" =>
       \E q \in DOMAIN quarantine : quarantine[q].ev = stream[worker.m].ev
  /\ TermIsQuarantined

Claiming(r) == relay[r].pc \in {"send", "mark"}
InStream(e) == \E m \in DOMAIN stream : stream[m].ev = e

\* A row is claimed by one relay, while it is pending, and marked after it was sent
Claims ==
  /\ relay \in [Relays -> RelayStates]
  /\ \A r \in Relays : Claiming(r) => relay[r].ev \in Events /\ ~Published(relay[r].ev)
  /\ \A r, q \in Relays : Claiming(r) /\ Claiming(q) /\ relay[r].ev = relay[q].ev => r = q
  /\ \A r \in Relays : relay[r].pc = "mark" => InStream(relay[r].ev)
  /\ \A i \in DOMAIN published : InStream(published[i])

FaultTypes == faults \in [DOMAIN MaxFaults -> Nat]

DeliveryInv == Journal /\ Streams /\ Claims /\ FaultTypes

-----------------------------------------------------------------------------
(***************************************************************************)
(* Sequences and numbers                                                  *)
(***************************************************************************)
LEMMA Appended ==
  ASSUME NEW S, NEW s \in Seq(S), NEW x \in S
  PROVE  /\ Append(s, x) \in Seq(S)
         /\ Len(s) \in Nat /\ DOMAIN s = 1..Len(s)
         /\ DOMAIN Append(s, x) = 1..(Len(s) + 1)
         /\ \A i \in DOMAIN s : i \in DOMAIN Append(s, x) /\ Append(s, x)[i] = s[i]
         /\ Append(s, x)[Len(s) + 1] = x
         /\ Len(s) + 1 \in DOMAIN Append(s, x)
         /\ \A i \in DOMAIN Append(s, x) : i \in DOMAIN s \/ i = Len(s) + 1
<1>1. Len(s) \in Nat /\ DOMAIN s = 1..Len(s)
  BY LenProperties
<1>2. Append(s, x) \in Seq(S) /\ Len(Append(s, x)) = Len(s) + 1
  BY AppendProperties
<1>3. DOMAIN Append(s, x) = 1..(Len(s) + 1)
  BY <1>2, LenProperties
<1>4. \A i \in 1..Len(s) : Append(s, x)[i] = s[i]
  BY AppendProperties
<1>5. Append(s, x)[Len(s) + 1] = x
  BY AppendProperties
<1> QED
  BY <1>1, <1>2, <1>3, <1>4, <1>5

LEMMA LeastHit ==
  ASSUME NEW S \in SUBSET Nat, S # {}
  PROVE  \E least \in S : \A other \in S : least <= other
<1>1. IsWellFoundedOn(OpToRel(<, Nat), Nat)
  BY NatLessThanWellFounded
<1>2. PICK least \in S : \A other \in S : ~(<<other, least>> \in OpToRel(<, Nat))
  BY <1>1, WFMin
<1>3. \A other \in S : ~(other < least)
  BY <1>2 DEF OpToRel
<1> QED
  BY <1>3

LEMMA GreatestHit ==
  ASSUME NEW n \in Nat, NEW S \in SUBSET (1..n), S # {}
  PROVE  \E greatest \in S : \A other \in S : other <= greatest
<1> DEFINE Bounds == {b \in Nat : \A other \in S : other <= b}
<1>1. n \in Bounds
  OBVIOUS
<1>2. PICK least \in Bounds : \A b \in Bounds : least <= b
  <2>1. Bounds \in SUBSET Nat /\ Bounds # {}
    BY <1>1
  <2> QED
    BY <2>1, LeastHit
<1>3. CASE least \in S
  BY <1>2, <1>3
<1>4. CASE least \notin S
  <2>1. \A other \in S : other <= least - 1
    BY <1>2, <1>4
  <2>2. least - 1 \in Nat
    <3>1. PICK other : other \in S
      OBVIOUS
    <3>2. other \in 1..n /\ other <= least - 1 /\ least \in Nat
      BY <1>2, <2>1, <3>1
    <3> QED
      BY <3>2
  <2>3. least - 1 \in Bounds
    BY <2>1, <2>2
  <2> QED
    BY <1>2, <2>3
<1> QED
  BY <1>3, <1>4

-----------------------------------------------------------------------------
(***************************************************************************)
(* The journal                                                            *)
(***************************************************************************)
LEMMA TargetsKnown ==
  /\ \A k \in Automatic : Target(k) \in OperationStates
  /\ \A k \in {"SUCCEEDED_START_COMPENSATION", "FAILED_START_COMPENSATION"} :
       Target(k) \in OperationStates
  /\ \A c \in Commands : \A state \in CommandStates(c) :
       Target(ExhaustedKind[state]) \in OperationStates
<1>1. \A k \in Automatic : Target(k) \in OperationStates
  BY DEF Automatic, Target, Edge, OperationStates
<1>2. \A k \in {"SUCCEEDED_START_COMPENSATION", "FAILED_START_COMPENSATION"} :
        Target(k) \in OperationStates
  BY DEF Target, Edge, OperationStates
<1>3. \A c \in Commands : CommandStates(c) \subseteq DOMAIN ExhaustedKind
  BY DEF Commands, CommandStates, ExhaustedKind
<1>4. \A state \in DOMAIN ExhaustedKind : Target(ExhaustedKind[state]) = "MANUAL_INTERVENTION"
  BY DEF ExhaustedKind, Target, Edge
<1>5. "MANUAL_INTERVENTION" \in OperationStates
  BY DEF OperationStates
<1> QED
  BY <1>1, <1>2, <1>3, <1>4, <1>5

LEMMA RepublicationsFinite ==
  ASSUME outbox \in Seq(Lines), NEW o, NEW c, NEW v
  PROVE  /\ IsFiniteSet(Republications(o, c, v))
         /\ Republications(o, c, v) \subseteq Events
         /\ Cardinality(Republications(o, c, v)) \in Nat
<1>1. DOMAIN outbox = 1..Len(outbox) /\ Len(outbox) \in Nat
  BY LenProperties
<1>2. Republications(o, c, v) \subseteq Events
  BY DEF Republications
<1>3. IsFiniteSet(1..Len(outbox))
  BY <1>1, FS_Interval
<1>4. IsFiniteSet(Republications(o, c, v))
  BY <1>1, <1>2, <1>3, FS_Subset DEF Events
<1>5. Cardinality(Republications(o, c, v)) \in Nat
  BY <1>4, FS_CardinalityType
<1> QED
  BY <1>2, <1>4, <1>5

LEMMA LatestKnown ==
  ASSUME JournalTypes, NEW e \in Events
  PROVE  LET latest == LatestEvent(outbox[e].op)
         IN /\ latest \in Events /\ outbox[latest].op = outbox[e].op
            /\ \A f \in Events : outbox[f].op = outbox[e].op => f <= latest
<1> DEFINE S == {f \in Events : outbox[f].op = outbox[e].op}
<1>1. DOMAIN outbox = 1..Len(outbox) /\ Len(outbox) \in Nat
  BY LenProperties DEF JournalTypes
<1>2. S \in SUBSET (1..Len(outbox)) /\ S # {}
  BY <1>1 DEF Events
<1>3. \E greatest \in S : \A other \in S : other <= greatest
  BY <1>1, <1>2, GreatestHit
<1>4. \E g \in Events : outbox[g].op = outbox[e].op
        /\ \A f \in Events : outbox[f].op = outbox[e].op => f <= g
  BY <1>3
<1> QED
  BY <1>4 DEF LatestEvent

\* Rows stay as they are, versions may grow
LEMMA JournalMoves ==
  ASSUME Journal, outbox' = outbox, published' = published,
         op' \in [Operations -> [state : OperationStates, version : Nat]],
         \A o \in Operations : op[o].version <= op'[o].version
  PROVE  Journal'
<1>1. JournalTypes'
  BY DEF Journal, JournalTypes
<1>2. ReplayedOnce' /\ Counted' /\ Marked'
  BY DEF Journal, ReplayedOnce, Counted, Marked, Republications, Events
<1>3. \A e \in Events : outbox[e].version <= op'[outbox[e].op].version
  <2> SUFFICES ASSUME NEW e \in Events
               PROVE  outbox[e].version <= op'[outbox[e].op].version
    OBVIOUS
  <2>1. outbox[e] \in Lines
    BY ElementOfSeq, LenProperties DEF Journal, JournalTypes, Events
  <2>2. outbox[e].op \in Operations /\ outbox[e].version \in Nat
    BY <2>1 DEF Lines
  <2>3. /\ outbox[e].version <= op[outbox[e].op].version
        /\ op[outbox[e].op].version <= op'[outbox[e].op].version
    BY <2>2 DEF Journal, Ordered
  <2>4. op[outbox[e].op].version \in Nat /\ op'[outbox[e].op].version \in Nat
    BY <2>2 DEF Journal, JournalTypes
  <2> QED
    BY <2>2, <2>3, <2>4
<1>4. Ordered'
  BY <1>3 DEF Journal, Ordered, Events, Published
<1> QED
  BY <1>1, <1>2, <1>4 DEF Journal

\* A pending row is marked
LEMMA JournalMarks ==
  ASSUME Journal, op' = op, outbox' = outbox, NEW e \in Events, ~Published(e),
         published' = Append(published, e)
  PROVE  Journal'
<1>1. outbox \in Seq(Lines) /\ published \in Seq(Nat)
  BY DEF Journal, JournalTypes
<1>2. e \in Nat
  BY <1>1, LenProperties DEF Events
<1>3. /\ published' \in Seq(Nat) /\ Len(published) \in Nat /\ DOMAIN published = 1..Len(published)
      /\ \A i \in DOMAIN published : i \in DOMAIN published' /\ published'[i] = published[i]
      /\ published'[Len(published) + 1] = e
      /\ \A i \in DOMAIN published' : i \in DOMAIN published \/ i = Len(published) + 1
  BY <1>1, <1>2, Appended
<1>4. JournalTypes'
  BY <1>3 DEF Journal, JournalTypes
<1>5. ReplayedOnce' /\ Counted'
  BY DEF Journal, ReplayedOnce, Counted, Republications, Events
<1>6. \A f : Published(f) => Published(f)'
  BY <1>3 DEF Published
<1>7. Ordered'
  BY <1>6 DEF Journal, Ordered, Events
<1>8. Marked'
  <2>1. \A i \in DOMAIN published' : published'[i] \in Events
    BY <1>3 DEF Journal, Marked
  <2>2. ASSUME NEW i \in DOMAIN published', NEW j \in DOMAIN published',
               published'[i] = published'[j]
        PROVE  i = j
    <3>1. \A l \in DOMAIN published : published[l] # e
      BY DEF Published
    <3>2. CASE i \in DOMAIN published /\ j \in DOMAIN published
      BY <1>3, <2>2, <3>2 DEF Journal, Marked
    <3>3. CASE i = Len(published) + 1 \/ j = Len(published) + 1
      BY <1>3, <2>2, <3>1, <3>3
    <3> QED
      BY <1>3, <3>2, <3>3
  <2> QED
    BY <2>1, <2>2 DEF Marked, Events
<1> QED
  BY <1>4, <1>5, <1>7, <1>8 DEF Journal

LEMMA LinesKnown ==
  ASSUME Journal, NEW e \in Events
  PROVE  /\ outbox[e] \in Lines /\ outbox[e].op \in Operations /\ outbox[e].cmd \in Commands
         /\ outbox[e].version \in Nat /\ outbox[e].source \in Nat /\ e \in Nat
         /\ op[outbox[e].op].version \in Nat
         /\ outbox[e].version <= op[outbox[e].op].version
<1>1. outbox \in Seq(Lines)
  BY DEF Journal, JournalTypes
<1>2. DOMAIN outbox = 1..Len(outbox) /\ Len(outbox) \in Nat
  BY <1>1, LenProperties
<1>3. outbox[e] \in Lines
  BY <1>1, <1>2, ElementOfSeq DEF Events
<1> QED
  BY <1>2, <1>3 DEF Lines, Journal, JournalTypes, Ordered, Events

\* A row is appended: the first of its version, or a replay of the latest row
LEMMA JournalAppends ==
  ASSUME Journal, published' = published,
         op' \in [Operations -> [state : OperationStates, version : Nat]],
         \A o \in Operations : op[o].version <= op'[o].version,
         NEW line \in Lines, outbox' = Append(outbox, line),
         line.version <= op'[line.op].version,
         \/ /\ line.source = 0
            /\ \A e \in Events : outbox[e].op = line.op => outbox[e].version < line.version
         \/ /\ line.source \in Events /\ Published(line.source)
            /\ outbox[line.source].op = line.op
            /\ \A e \in Events : outbox[e].op = line.op => e <= line.source
            /\ line.version = op[line.op].version
            /\ Cardinality(Republications(line.op, line.cmd, line.version)) < MaxRecoveries
  PROVE  Journal'
<1> DEFINE last == Len(outbox) + 1
<1>1. outbox \in Seq(Lines)
  BY DEF Journal, JournalTypes
<1>2. /\ outbox' \in Seq(Lines) /\ Len(outbox) \in Nat /\ DOMAIN outbox = 1..Len(outbox)
      /\ \A e \in Events : e \in Events' /\ outbox'[e] = outbox[e]
      /\ outbox'[last] = line /\ last \in Events'
      /\ \A e \in Events' : e \in Events \/ e = last
  BY <1>1, Appended DEF Events
<1>3. \A e \in Events : e \in Nat /\ e < last /\ 0 < e
  BY <1>2 DEF Events
<1>4. last \in Nat /\ last \notin Events /\ last > 0
  BY <1>2 DEF Events
<1>5. \A e \in Events :
        /\ outbox[e].op \in Operations /\ outbox[e].cmd \in Commands
        /\ outbox[e].version \in Nat /\ outbox[e].source \in Nat
        /\ op[outbox[e].op].version \in Nat
        /\ outbox[e].version <= op[outbox[e].op].version
  BY LinesKnown
<1>6. line.op \in Operations /\ line.cmd \in Commands /\ line.version \in Nat /\ line.source \in Nat
  BY DEF Lines
<1> HIDE DEF last
<1>7. JournalTypes'
  BY <1>2 DEF Journal, JournalTypes
<1>8. \A e \in Events : outbox[e].op = line.op => outbox[e].version <= line.version
  BY <1>5, <1>6
<1>9. Ordered'
  <2>1. \A e \in Events' : outbox'[e].version <= op'[outbox'[e].op].version
    <3>1. \A e \in Events : outbox[e].version <= op'[outbox[e].op].version
      <4> SUFFICES ASSUME NEW e \in Events
                   PROVE  outbox[e].version <= op'[outbox[e].op].version
        OBVIOUS
      <4>1. op'[outbox[e].op].version \in Nat
        BY <1>5
      <4>2. op[outbox[e].op].version <= op'[outbox[e].op].version
        BY <1>5
      <4> QED
        BY <1>5, <4>1, <4>2
    <3> QED
      BY <1>2, <3>1
  <2>2. \A e \in Events' : outbox'[e].source # 0 =>
          /\ outbox'[e].source \in Events' /\ outbox'[e].source < e
          /\ outbox'[outbox'[e].source].op = outbox'[e].op
    <3>1. \A e \in Events : outbox[e].source # 0 =>
            /\ outbox[e].source \in Events /\ outbox[e].source < e
            /\ outbox[outbox[e].source].op = outbox[e].op
      BY DEF Journal, Ordered
    <3>2. line.source # 0 =>
            line.source \in Events /\ line.source < last /\ outbox[line.source].op = line.op
      BY <1>3
    <3> SUFFICES ASSUME NEW e \in Events', outbox'[e].source # 0
                 PROVE  /\ outbox'[e].source \in Events' /\ outbox'[e].source < e
                        /\ outbox'[outbox'[e].source].op = outbox'[e].op
      OBVIOUS
    <3>3. CASE e \in Events
      <4>1. outbox'[e] = outbox[e]
        BY <1>2, <3>3
      <4>2. /\ outbox[e].source \in Events /\ outbox[e].source < e
            /\ outbox[outbox[e].source].op = outbox[e].op
        BY <3>1, <3>3, <4>1
      <4> QED
        BY <1>2, <4>1, <4>2
    <3>4. CASE e = last
      <4>1. outbox'[e] = line
        BY <1>2, <3>4
      <4>2. line.source \in Events /\ line.source < last /\ outbox[line.source].op = line.op
        BY <3>2, <4>1
      <4> QED
        BY <1>2, <3>4, <4>1, <4>2
    <3> QED
      BY <1>2, <3>3, <3>4
  <2>3. ASSUME NEW e \in Events', NEW f \in Events', e < f, outbox'[e].op = outbox'[f].op
        PROVE  /\ outbox'[e].version <= outbox'[f].version
               /\ outbox'[e].version = outbox'[f].version => Published(e)'
    <3>1. Published(e)' = Published(e)
      BY DEF Published
    <3>2. CASE f \in Events
      <4>1. e \in Events
        <5>1. f \in Nat /\ f < last
          BY <1>3, <3>2
        <5>2. e # last
          BY <1>4, <2>3, <5>1
        <5> QED
          BY <1>2, <5>2
      <4> QED
        BY <1>2, <2>3, <3>1, <3>2, <4>1 DEF Journal, Ordered
    <3>3. CASE f = last
      <4>1. e \in Events
        <5>1. e # last
          BY <1>4, <2>3, <3>3
        <5> QED
          BY <1>2, <5>1
      <4>2. outbox'[e] = outbox[e] /\ outbox'[f] = line /\ outbox[e].op = line.op
        BY <1>2, <2>3, <3>3, <4>1
      <4>3. outbox[e].version <= line.version
        BY <1>8, <4>1, <4>2
      <4>4. ASSUME outbox[e].version = line.version
            PROVE  Published(e)
        <5>1. /\ line.source \in Events /\ Published(line.source)
              /\ outbox[line.source].op = line.op
              /\ \A d \in Events : outbox[d].op = line.op => d <= line.source
          BY <1>5, <1>6, <4>1, <4>2, <4>4
        <5>2. e <= line.source
          BY <4>1, <4>2, <5>1
        <5>3. CASE e = line.source
          BY <5>1, <5>3
        <5>4. CASE e < line.source
          <6>1. /\ outbox[e].version <= outbox[line.source].version
                /\ outbox[e].version = outbox[line.source].version => Published(e)
            BY <4>1, <4>2, <5>1, <5>4 DEF Journal, Ordered
          <6>2. outbox[line.source].version <= line.version
            BY <1>8, <5>1
          <6> QED
            BY <1>5, <4>1, <4>4, <5>1, <6>1, <6>2
        <5> QED
          BY <1>3, <4>1, <5>1, <5>2, <5>3, <5>4
      <4> QED
        BY <3>1, <4>2, <4>3, <4>4
    <3> QED
      BY <1>2, <3>2, <3>3
  <2> QED
    BY <2>1, <2>2, <2>3 DEF Ordered
<1>10. ReplayedOnce'
  <2>1. \A e \in Events : line.source # 0 => outbox[e].source # line.source
    <3> SUFFICES ASSUME NEW e \in Events, line.source # 0, outbox[e].source = line.source
                 PROVE  FALSE
      OBVIOUS
    <3>1. line.source \in Events /\ outbox[line.source].op = line.op
          /\ \A d \in Events : outbox[d].op = line.op => d <= line.source
      OBVIOUS
    <3>2. line.source < e /\ outbox[e].op = line.op
      BY <3>1 DEF Journal, Ordered
    <3>3. e <= line.source
      BY <3>1, <3>2
    <3> QED
      BY <1>3, <1>6, <3>2, <3>3
  <2>2. \A e, f \in Events :
          outbox[e].source = outbox[f].source /\ e # f => outbox[e].source = 0
    BY DEF Journal, ReplayedOnce
  <2>3. ASSUME NEW e \in Events', NEW f \in Events',
               outbox'[e].source = outbox'[f].source, e # f
        PROVE  outbox'[e].source = 0
    <3>1. CASE e \in Events /\ f \in Events
      <4>1. outbox'[e] = outbox[e] /\ outbox'[f] = outbox[f]
        BY <1>2, <3>1
      <4> QED
        BY <2>2, <2>3, <3>1, <4>1
    <3>2. CASE e \in Events /\ f = last
      <4>1. outbox'[e] = outbox[e] /\ outbox'[f] = line
        BY <1>2, <3>2
      <4> QED
        BY <2>1, <2>3, <3>2, <4>1
    <3>3. CASE e = last /\ f \in Events
      <4>1. outbox'[e] = line /\ outbox'[f] = outbox[f]
        BY <1>2, <3>3
      <4> QED
        BY <2>1, <2>3, <3>3, <4>1
    <3> QED
      BY <1>2, <2>3, <3>1, <3>2, <3>3
  <2> QED
    BY <2>3 DEF ReplayedOnce
<1>11. Counted'
  <2> SUFFICES ASSUME NEW o \in Operations, NEW c \in Commands, NEW v \in Nat
               PROVE  Cardinality(Republications(o, c, v)') <= MaxRecoveries
    BY DEF Counted
  <2>1. /\ IsFiniteSet(Republications(o, c, v)) /\ Republications(o, c, v) \subseteq Events
        /\ Cardinality(Republications(o, c, v)) \in Nat
    BY <1>1, RepublicationsFinite
  <2>2. Cardinality(Republications(o, c, v)) <= MaxRecoveries
    BY DEF Journal, Counted
  <2>3. CASE line.source # 0 /\ line.op = o /\ line.cmd = c /\ line.version = v
    <3>1. Republications(o, c, v)' = Republications(o, c, v) \union {last}
      BY <1>2, <2>3 DEF Republications
    <3>2. last \notin Republications(o, c, v)
      BY <1>4, <2>1
    <3>3. Cardinality(Republications(o, c, v) \union {last})
            = Cardinality(Republications(o, c, v)) + 1
      BY <2>1, <3>2, FS_AddElement
    <3>4. Cardinality(Republications(o, c, v)) < MaxRecoveries
      BY <2>3
    <3>5. MaxRecoveries \in Nat
      BY DeliveryAssumption
    <3> QED
      BY <2>1, <3>1, <3>3, <3>4, <3>5
  <2>4. CASE ~(line.source # 0 /\ line.op = o /\ line.cmd = c /\ line.version = v)
    <3>1. Republications(o, c, v)' = Republications(o, c, v)
      BY <1>2, <2>4 DEF Republications
    <3> QED
      BY <2>2, <3>1
  <2> QED
    BY <2>3, <2>4
<1>12. Marked'
  BY <1>2 DEF Journal, Marked
<1> QED
  BY <1>7, <1>9, <1>10, <1>11, <1>12 DEF Journal

-----------------------------------------------------------------------------
(***************************************************************************)
(* The streams                                                            *)
(***************************************************************************)

\* A message of the sequence is replaced by one for the same row
LEMMA Touched ==
  ASSUME NEW limit, NEW s \in Seq(Messages(limit)), NEW m \in DOMAIN s,
         NEW x \in Messages(limit), x.ev = s[m].ev,
         NEW t, t = [s EXCEPT ![m] = x]
  PROVE  /\ t \in Seq(Messages(limit)) /\ DOMAIN t = DOMAIN s /\ t[m] = x
         /\ \A i \in DOMAIN s : t[i].ev = s[i].ev /\ (i # m => t[i] = s[i])
<1>1. s \in [1..Len(s) -> Messages(limit)] /\ Len(s) \in Nat /\ DOMAIN s = 1..Len(s)
  BY LenProperties
<1>2. t \in [1..Len(s) -> Messages(limit)]
  BY <1>1
<1>3. t \in Seq(Messages(limit))
  BY <1>1, <1>2
<1> QED
  BY <1>1, <1>2, <1>3

LEMMA MessageKnown ==
  ASSUME NEW limit \in Nat, NEW x \in Messages(limit)
  PROVE  /\ x.ev \in Nat /\ x.tries \in 0..limit /\ x.fate \in Fates
         /\ x.tries < limit =>
              /\ [x EXCEPT !.tries = x.tries + 1] \in Messages(limit)
              /\ [x EXCEPT !.tries = x.tries + 1].ev = x.ev
              /\ [x EXCEPT !.tries = x.tries + 1].fate = x.fate
<1>1. x.ev \in Nat /\ x.tries \in 0..limit /\ x.fate \in Fates
  BY DEF Messages
<1>2. ASSUME x.tries < limit
      PROVE  /\ [x EXCEPT !.tries = x.tries + 1] \in Messages(limit)
             /\ [x EXCEPT !.tries = x.tries + 1].ev = x.ev
             /\ [x EXCEPT !.tries = x.tries + 1].fate = x.fate
  <2>1. x.tries + 1 \in 0..limit
    BY <1>1, <1>2
  <2> QED
    BY <2>1 DEF Messages
<1> QED
  BY <1>1, <1>2

LEMMA NewMessage ==
  ASSUME NEW limit \in Nat, NEW e \in Nat
  PROVE  Message(e) \in Messages(limit) /\ Message(e).ev = e /\ Message(e).fate = "live"
BY DEF Message, Messages, Fates

LEMMA StreamsKeep ==
  ASSUME Streams, Events \subseteq Events',
         stream' \in Seq(Messages(MaxDeliveries)),
         quarantine' \in Seq(Messages(MaxInspections)),
         worker' \in WorkerStates, operator' \in Nat,
         \A m \in DOMAIN stream' : stream'[m].ev \in Events',
         \A q \in DOMAIN quarantine' : quarantine'[q].ev \in Events',
         \A m \in DOMAIN stream : m \in DOMAIN stream' /\ stream'[m].ev = stream[m].ev,
         \A q \in DOMAIN quarantine :
           q \in DOMAIN quarantine' /\ quarantine'[q].ev = quarantine[q].ev,
         \A m \in DOMAIN stream' : stream'[m].fate = "terminated" =>
           /\ m \in DOMAIN stream
           /\ stream[m].fate = "terminated" \/ (worker.pc = "term" /\ m = worker.m),
         worker'.pc # "idle" => worker'.m \in DOMAIN stream',
         operator' # 0 => operator' \in DOMAIN quarantine',
         worker'.pc = "term" =>
           \E q \in DOMAIN quarantine' : quarantine'[q].ev = stream'[worker'.m].ev
  PROVE  Streams'
<1>1. TermIsQuarantined'
  <2> SUFFICES ASSUME NEW m \in DOMAIN stream', stream'[m].fate = "terminated"
               PROVE  \E q \in DOMAIN quarantine' : quarantine'[q].ev = stream'[m].ev
    BY DEF TermIsQuarantined
  <2>1. m \in DOMAIN stream /\ stream'[m].ev = stream[m].ev
    OBVIOUS
  <2>2. \E q \in DOMAIN quarantine : quarantine[q].ev = stream[m].ev
    BY <2>1 DEF Streams, TermIsQuarantined
  <2> QED
    BY <2>1, <2>2
<1> QED
  BY <1>1 DEF Streams

LEMMA StreamsStand ==
  ASSUME Streams, Events \subseteq Events', UNCHANGED <<stream, quarantine, worker, operator>>
  PROVE  Streams'
<1>1. stream' = stream /\ quarantine' = quarantine /\ worker' = worker /\ operator' = operator
  OBVIOUS
<1>2. TermIsQuarantined'
  BY <1>1 DEF Streams, TermIsQuarantined
<1> QED
  BY <1>1, <1>2 DEF Streams

-----------------------------------------------------------------------------
(***************************************************************************)
(* The relays                                                             *)
(***************************************************************************)
Carried == \A m \in DOMAIN stream : m \in DOMAIN stream' /\ stream'[m].ev = stream[m].ev

LEMMA ClaimsStand ==
  ASSUME Claims, Events \subseteq Events', Carried, relay' = relay, published' = published
  PROVE  Claims'
<1>1. \A e : InStream(e) => InStream(e)'
  BY DEF Carried, InStream
<1>2. \A e : Published(e)' = Published(e)
  BY DEF Published
<1> QED
  BY <1>1, <1>2 DEF Claims, Claiming

\* A relay that holds no claim afterwards
LEMMA RelayTurns ==
  ASSUME Claims, Events \subseteq Events', Carried, published' = published,
         NEW r \in Relays, NEW s \in RelayStates, s.pc \notin {"send", "mark"},
         relay' = [relay EXCEPT ![r] = s]
  PROVE  Claims'
<1>1. \A e : InStream(e) => InStream(e)'
  BY DEF Carried, InStream
<1>2. \A e : Published(e)' = Published(e)
  BY DEF Published
<1>3. relay \in [Relays -> RelayStates]
  BY DEF Claims
<1>4. relay' \in [Relays -> RelayStates]
  BY <1>3
<1>5. \A q \in Relays : Claiming(q)' => relay'[q] = relay[q] /\ Claiming(q)
  BY <1>3 DEF Claiming
<1>6. \A q \in Relays : relay'[q].pc = "mark" => Claiming(q)'
  BY DEF Claiming
<1>7. \A q \in Relays : Claiming(q)' => relay'[q].ev \in Events' /\ ~Published(relay[q].ev)'
  BY <1>2, <1>5 DEF Claims
<1>8. \A q, p \in Relays :
        Claiming(q)' /\ Claiming(p)' /\ relay'[q].ev = relay'[p].ev => q = p
  BY <1>5 DEF Claims
<1>9. \A q \in Relays : relay'[q].pc = "mark" => InStream(relay[q].ev)'
  BY <1>1, <1>5, <1>6 DEF Claims
<1>10. \A i \in DOMAIN published' : InStream(published[i])'
  BY <1>1 DEF Claims
<1> QED
  BY <1>4, <1>7, <1>8, <1>9, <1>10 DEF Claims

-----------------------------------------------------------------------------
(***************************************************************************)
(* Transitions                                                            *)
(***************************************************************************)

\* The journal moves on; streams and relays are left alone
LEMMA JournalAlone ==
  ASSUME DeliveryInv, Journal', Events \subseteq Events', published' = published,
         UNCHANGED <<stream, quarantine, relay, worker, operator, faults>>
  PROVE  DeliveryInv'
<1>1. Streams'
  BY StreamsStand DEF DeliveryInv
<1>2. Carried
  BY DEF Carried
<1>3. Claims'
  BY <1>2, ClaimsStand DEF DeliveryInv
<1>4. FaultTypes'
  BY DEF DeliveryInv, FaultTypes
<1> QED
  BY <1>1, <1>3, <1>4 DEF DeliveryInv

LEMMA TransitionKeeps ==
  ASSUME Journal, NEW o \in Operations, NEW k, Target(k) \in OperationStates, Transition(o, k)
  PROVE  Journal' /\ Events \subseteq Events' /\ published' = published
<1>1. /\ op \in [Operations -> [state : OperationStates, version : Nat]]
      /\ outbox \in Seq(Lines)
  BY DEF Journal, JournalTypes
<1>2. op[o].version \in Nat
  BY <1>1
<1> DEFINE moved == [state |-> Target(k), version |-> op[o].version + 1]
<1>3. op' = [op EXCEPT ![o] = moved] /\ published' = published
  BY DEF Transition
<1>4. moved \in [state : OperationStates, version : Nat] /\ moved.version = op[o].version + 1
  BY <1>2
<1> HIDE DEF moved
<1>5. op' \in [Operations -> [state : OperationStates, version : Nat]]
  BY <1>1, <1>3, <1>4
<1>6. \A p \in Operations : op[p].version <= op'[p].version
  <2> SUFFICES ASSUME NEW p \in Operations PROVE op[p].version <= op'[p].version
    OBVIOUS
  <2>1. op[p].version \in Nat
    BY <1>1
  <2>2. CASE p = o
    BY <1>1, <1>3, <1>4, <2>1, <2>2
  <2>3. CASE p # o
    BY <1>1, <1>3, <2>1, <2>3
  <2> QED
    BY <2>2, <2>3
<1>7. CASE OutboxCommand(k) = NoCommand
  <2>1. outbox' = outbox
    BY <1>7 DEF Transition
  <2> QED
    BY <1>3, <1>5, <1>6, <2>1, JournalMoves DEF Events
<1>8. CASE OutboxCommand(k) # NoCommand
  <2> DEFINE line == Row(o, OutboxCommand(k), op[o].version + 1, 0)
  <2>1. outbox' = Append(outbox, line)
    BY <1>8 DEF Transition
  <2>2. OutboxCommand(k) \in Commands
    BY <1>8 DEF OutboxCommand, Commands
  <2>3. /\ line \in Lines /\ line.op = o /\ line.version = op[o].version + 1
        /\ line.source = 0
    BY <1>2, <2>2 DEF Row, Lines
  <2> HIDE DEF line
  <2>4. line.version <= op'[line.op].version
    BY <1>1, <1>2, <1>3, <1>4, <2>3
  <2>5. \A e \in Events : outbox[e].op = line.op => outbox[e].version < line.version
    <3> SUFFICES ASSUME NEW e \in Events, outbox[e].op = line.op
                 PROVE  outbox[e].version < line.version
      OBVIOUS
    <3>1. outbox[e].version \in Nat /\ outbox[e].version <= op[o].version
      BY <2>3, LinesKnown
    <3> QED
      BY <1>2, <2>3, <3>1
  <2>6. Journal'
    BY <1>3, <1>5, <1>6, <2>1, <2>3, <2>4, <2>5, JournalAppends
  <2>7. Events \subseteq Events'
    BY <1>1, <2>1, <2>3, Appended DEF Events
  <2> QED
    BY <1>3, <2>6, <2>7
<1> QED
  BY <1>7, <1>8

LEMMA StartCompensationKeeps ==
  ASSUME DeliveryInv, NEW o \in Operations, StartCompensation(o)
  PROVE  DeliveryInv'
<1>1. PICK k \in {"SUCCEEDED_START_COMPENSATION", "FAILED_START_COMPENSATION"} :
        Transition(o, k)
  BY DEF StartCompensation
<1>2. Target(k) \in OperationStates
  BY TargetsKnown
<1>3. Journal' /\ Events \subseteq Events' /\ published' = published
  BY <1>1, <1>2, TransitionKeeps DEF DeliveryInv
<1>4. UNCHANGED <<stream, quarantine, relay, worker, operator, faults>>
  BY DEF StartCompensation
<1> QED
  BY <1>3, <1>4, JournalAlone

LEMMA HandleKeeps ==
  ASSUME DeliveryInv, Handle
  PROVE  DeliveryInv'
<1> DEFINE work == outbox[stream[worker.m].ev]
<1>1. PICK k \in Applied : Transition(work.op, k)
  BY DEF Handle
<1>2. Target(k) \in OperationStates
  BY TargetsKnown, DeliveryAssumption
<1>3. work.op \in Operations
  <2>1. worker.pc = "handle"
    BY DEF Handle
  <2>2. stream[worker.m].ev \in Events
    BY <2>1 DEF DeliveryInv, Streams
  <2> QED
    BY <2>2, LinesKnown DEF DeliveryInv
<1> HIDE DEF work
<1>4. Journal' /\ Events \subseteq Events' /\ published' = published
  BY <1>1, <1>2, <1>3, TransitionKeeps DEF DeliveryInv
<1>5. UNCHANGED <<stream, quarantine, relay, worker, operator, faults>>
  BY DEF Handle
<1> QED
  BY <1>4, <1>5, JournalAlone

-----------------------------------------------------------------------------
(***************************************************************************)
(* The relays' rounds                                                     *)
(***************************************************************************)
LEMMA RestingKnown == Resting \in RelayStates /\ Resting.pc = "idle"
<1>1. << >> \in Seq(Nat)
  BY EmptySeq
<1> QED
  BY <1>1 DEF Resting, RelayStates

LEMMA FaultCounted ==
  ASSUME FaultTypes, NEW f \in {"relay", "worker", "loss", "command"}, Fault(f)
  PROVE  FaultTypes'
<1>1. DOMAIN MaxFaults = {"relay", "worker", "loss", "command"}
  BY DeliveryAssumption
<1> QED
  BY <1>1 DEF FaultTypes, Fault

\* A step of one relay that takes no claim and leaves everything else alone
LEMMA RelayAlone ==
  ASSUME DeliveryInv, UNCHANGED <<rows, stream, quarantine, worker, operator>>, FaultTypes',
         NEW r \in Relays, NEW s \in RelayStates, s.pc \notin {"send", "mark"}, Do(r, s)
  PROVE  DeliveryInv'
<1>1. op' = op /\ outbox' = outbox /\ published' = published
  BY DEF rows
<1>2. Events \subseteq Events' /\ Carried
  BY <1>1 DEF Events, Carried
<1>3. Journal'
  <2>1. Journal /\ op' \in [Operations -> [state : OperationStates, version : Nat]]
        /\ \A o \in Operations : op[o].version <= op'[o].version
    BY <1>1 DEF DeliveryInv, Journal, JournalTypes
  <2> QED
    BY <1>1, <2>1, JournalMoves
<1>4. Streams'
  BY <1>2, StreamsStand DEF DeliveryInv
<1>5. Claims'
  BY <1>1, <1>2, RelayTurns DEF DeliveryInv, Do
<1> QED
  BY <1>3, <1>4, <1>5 DEF DeliveryInv

LEMMA ScanKeeps ==
  ASSUME DeliveryInv, NEW r \in Relays, Scan(r)
  PROVE  DeliveryInv'
<1>1. PICK cutoff \in 0..Len(published) : ScanUpTo(r, cutoff)
  BY DEF Scan
<1> DEFINE found == {i \in 1..cutoff : Candidate(published[i])}
           count == IF Cardinality(found) < Batch THEN Cardinality(found) ELSE Batch
<1>2. PICK s \in [1..count -> found] :
        Do(r, [Resting EXCEPT !.pc = "recover", !.left = Batch,
                              !.todo = [i \in DOMAIN s |-> published[s[i]]]])
  BY <1>1 DEF ScanUpTo, OldestCandidates
<1>3. published \in Seq(Nat)
  BY DEF DeliveryInv, Journal, JournalTypes
<1>4. Len(published) \in Nat /\ DOMAIN published = 1..Len(published)
  BY <1>3, LenProperties
<1>5. cutoff \in Nat /\ cutoff <= Len(published)
  BY <1>4
<1>6. count \in Nat
  <2>1. IsFiniteSet(1..cutoff)
    BY <1>5, FS_Interval
  <2>2. found \subseteq 1..cutoff
    OBVIOUS
  <2> HIDE DEF found
  <2>3. IsFiniteSet(found)
    BY <2>1, <2>2, FS_Subset
  <2>4. Cardinality(found) \in Nat
    BY <2>3, FS_CardinalityType
  <2> QED
    BY <2>4, DeliveryAssumption
<1> DEFINE listed == [i \in DOMAIN s |-> published[s[i]]]
<1>7. listed \in Seq(Nat)
  <2>0. \A p \in found : p \in 1..Len(published)
    BY <1>4, <1>5
  <2> HIDE DEF count, found
  <2>1. \A i \in 1..count : s[i] \in 1..Len(published)
    BY <2>0
  <2>2. \A i \in 1..count : published[s[i]] \in Nat
    <3>1. \A p \in 1..Len(published) : published[p] \in Nat
      BY <1>3, ElementOfSeq
    <3> QED
      BY <2>1, <3>1
  <2>3. listed \in [1..count -> Nat]
    BY <2>2
  <2> QED
    BY <1>6, <2>3
<1> DEFINE next == [Resting EXCEPT !.pc = "recover", !.left = Batch, !.todo = listed]
<1>8. Do(r, next)
  BY <1>2
<1> HIDE DEF listed
<1>10. next \in RelayStates /\ next.pc = "recover"
  <2>1. Batch \in Nat
    BY DeliveryAssumption
  <2> DEFINE one == [Resting EXCEPT !.pc = "recover"]
             two == [one EXCEPT !.left = Batch]
  <2>2. one \in RelayStates /\ one.pc = "recover"
    BY RestingKnown DEF RelayStates
  <2>3. next = [two EXCEPT !.todo = listed]
    OBVIOUS
  <2> HIDE DEF one
  <2>4. two \in RelayStates /\ two.pc = "recover"
    BY <2>1, <2>2 DEF RelayStates
  <2> HIDE DEF two, next
  <2> QED
    BY <1>7, <2>3, <2>4 DEF RelayStates
<1>11. UNCHANGED <<rows, stream, quarantine, worker, operator, faults>>
  BY <1>1 DEF ScanUpTo
<1>12. FaultTypes'
  BY <1>11 DEF DeliveryInv, FaultTypes
<1> HIDE DEF next
<1> QED
  BY <1>8, <1>10, <1>11, <1>12, RelayAlone

LEMMA RecoverKeeps ==
  ASSUME DeliveryInv, NEW r \in Relays, RecoverCandidate(r)
  PROVE  DeliveryInv'
<1> DEFINE e == Head(relay[r].todo)
           o == outbox[e].op
           c == outbox[e].cmd
           v == op[o].version
           turned == [relay[r] EXCEPT !.todo = Tail(relay[r].todo)]
<1>1. /\ relay[r].pc = "recover" /\ relay[r].todo # <<>>
      /\ Do(r, turned)
      /\ UNCHANGED <<published, stream, quarantine, worker, operator, faults>>
  BY DEF RecoverCandidate, RecoverUpTo
<1>2. \/ /\ ~Required(e)
         /\ UNCHANGED <<op, outbox>>
      \/ /\ Required(e) /\ Cardinality(Republications(o, c, v)) < MaxRecoveries
         /\ outbox' = Append(outbox, Row(o, c, v, e))
         /\ UNCHANGED op
      \/ /\ Required(e)
         /\ op' = [op EXCEPT ![o] = [state |-> Target(ExhaustedKind[op[o].state]),
                                     version |-> v + 1]]
         /\ UNCHANGED outbox
  BY DEF RecoverCandidate, RecoverUpTo
<1>3. turned \in RelayStates /\ turned.pc = "recover"
  <2>1. relay[r] \in RelayStates
    BY DEF DeliveryInv, Claims
  <2>2. relay[r].todo \in Seq(Nat)
    BY <2>1 DEF RelayStates
  <2>3. Tail(relay[r].todo) \in Seq(Nat)
    BY <1>1, <2>2, HeadTailProperties
  <2> QED
    BY <1>1, <2>1, <2>3 DEF RelayStates
<1> HIDE DEF turned, e
<1>4. Journal /\ op \in [Operations -> [state : OperationStates, version : Nat]]
      /\ outbox \in Seq(Lines)
  BY DEF DeliveryInv, Journal, JournalTypes
<1>5. published' = published
  BY <1>1
<1>6. ASSUME Required(e)
      PROVE  /\ e \in Events /\ Published(e)
             /\ \A f \in Events : outbox[f].op = o => f <= e
             /\ o \in Operations /\ c \in Commands /\ v \in Nat /\ e \in Nat
             /\ outbox[e].version <= v
             /\ op[o].state \in CommandStates(c)
  <2>1. Published(e) /\ e = LatestEvent(o) /\ op[o].state \in CommandStates(c)
    BY <1>6 DEF Required
  <2>2. e \in Events
    BY <1>4, <2>1 DEF Journal, Marked, Published
  <2>3. \A f \in Events : outbox[f].op = o => f <= e
    BY <1>4, <2>1, <2>2, LatestKnown DEF Journal
  <2> QED
    BY <1>4, <2>1, <2>2, <2>3, LinesKnown
<1>7. Journal' /\ Events \subseteq Events'
  <2>1. CASE UNCHANGED <<op, outbox>>
    <3>1. op' = op /\ outbox' = outbox
      BY <2>1
    <3>2. op' \in [Operations -> [state : OperationStates, version : Nat]]
          /\ \A p \in Operations : op[p].version <= op'[p].version
      BY <1>4, <3>1
    <3> QED
      BY <1>4, <1>5, <3>1, <3>2, JournalMoves DEF Events
  <2>2. CASE /\ Required(e) /\ Cardinality(Republications(o, c, v)) < MaxRecoveries
             /\ outbox' = Append(outbox, Row(o, c, v, e))
             /\ UNCHANGED op
    <3> DEFINE line == Row(o, c, v, e)
    <3>1. outbox' = Append(outbox, line) /\ op' = op
      BY <2>2
    <3>2. /\ e \in Events /\ Published(e)
          /\ \A f \in Events : outbox[f].op = o => f <= e
          /\ o \in Operations /\ c \in Commands /\ v \in Nat /\ e \in Nat
      BY <1>6, <2>2
    <3>3. /\ line \in Lines /\ line.op = o /\ line.cmd = c /\ line.version = v
          /\ line.source = e
      BY <3>2 DEF Row, Lines
    <3> HIDE DEF line
    <3>4. op' \in [Operations -> [state : OperationStates, version : Nat]]
          /\ \A p \in Operations : op[p].version <= op'[p].version
      BY <1>4, <3>1
    <3>5. line.version <= op'[line.op].version
      BY <3>1, <3>2, <3>3
    <3>6. /\ line.source \in Events /\ Published(line.source)
          /\ outbox[line.source].op = line.op
          /\ \A f \in Events : outbox[f].op = line.op => f <= line.source
          /\ line.version = op[line.op].version
          /\ Cardinality(Republications(line.op, line.cmd, line.version)) < MaxRecoveries
      BY <2>2, <3>2, <3>3
    <3>7. Journal'
      BY <1>4, <1>5, <3>1, <3>3, <3>4, <3>5, <3>6, JournalAppends
    <3>8. Events \subseteq Events'
      BY <1>4, <3>1, <3>3, Appended DEF Events
    <3> QED
      BY <3>7, <3>8
  <2>3. CASE /\ Required(e)
             /\ op' = [op EXCEPT ![o] = [state |-> Target(ExhaustedKind[op[o].state]),
                                         version |-> v + 1]]
             /\ UNCHANGED outbox
    <3> DEFINE moved == [state |-> Target(ExhaustedKind[op[o].state]), version |-> v + 1]
    <3>1. op' = [op EXCEPT ![o] = moved] /\ outbox' = outbox
      BY <2>3
    <3>2. o \in Operations /\ c \in Commands /\ v \in Nat /\ op[o].state \in CommandStates(c)
      BY <1>6, <2>3
    <3>3. moved \in [state : OperationStates, version : Nat] /\ moved.version = v + 1
      BY <3>2, TargetsKnown
    <3> HIDE DEF moved
    <3>4. op' \in [Operations -> [state : OperationStates, version : Nat]]
      BY <1>4, <3>1, <3>3
    <3>5. \A p \in Operations : op[p].version <= op'[p].version
      <4> SUFFICES ASSUME NEW p \in Operations PROVE op[p].version <= op'[p].version
        OBVIOUS
      <4>1. op[p].version \in Nat
        BY <1>4
      <4>2. CASE p = o
        BY <1>4, <3>1, <3>2, <3>3, <4>1, <4>2
      <4>3. CASE p # o
        BY <1>4, <3>1, <4>1, <4>3
      <4> QED
        BY <4>2, <4>3
    <3> QED
      BY <1>4, <1>5, <3>1, <3>4, <3>5, JournalMoves DEF Events
  <2> QED
    BY <1>2, <2>1, <2>2, <2>3
<1>8. Streams'
  BY <1>1, <1>7, StreamsStand DEF DeliveryInv
<1>9. Carried
  BY <1>1 DEF Carried
<1>10. Claims'
  BY <1>1, <1>3, <1>5, <1>7, <1>9, RelayTurns DEF DeliveryInv, Do
<1>11. FaultTypes'
  BY <1>1 DEF DeliveryInv, FaultTypes
<1> QED
  BY <1>7, <1>8, <1>10, <1>11 DEF DeliveryInv

\* A relay that holds a claim afterwards
LEMMA RelayHolds ==
  ASSUME Claims, Events \subseteq Events', Carried, published' = published,
         NEW r \in Relays, NEW s \in RelayStates, relay' = [relay EXCEPT ![r] = s],
         s.ev \in Events, ~Published(s.ev),
         \A q \in Relays : q # r /\ Claiming(q) => relay[q].ev # s.ev,
         s.pc = "mark" => InStream(s.ev)'
  PROVE  Claims'
<1>1. \A e : InStream(e) => InStream(e)'
  BY DEF Carried, InStream
<1>2. \A e : Published(e)' = Published(e)
  BY DEF Published
<1>3. relay \in [Relays -> RelayStates]
  BY DEF Claims
<1>4. relay' \in [Relays -> RelayStates] /\ relay'[r] = s
  BY <1>3
<1>5. \A q \in Relays : q # r => relay'[q] = relay[q] /\ (Claiming(q)' => Claiming(q))
  BY <1>3 DEF Claiming
<1>6. \A q \in Relays : relay'[q].pc = "mark" => Claiming(q)'
  BY DEF Claiming
<1>7. \A q \in Relays : Claiming(q)' => relay'[q].ev \in Events' /\ ~Published(relay[q].ev)'
  <2> SUFFICES ASSUME NEW q \in Relays, Claiming(q)'
               PROVE  relay'[q].ev \in Events' /\ ~Published(relay[q].ev)'
    OBVIOUS
  <2>1. CASE q = r
    BY <1>2, <1>4, <2>1
  <2>2. CASE q # r
    BY <1>2, <1>5, <2>2 DEF Claims
  <2> QED
    BY <2>1, <2>2
<1>8. \A q, p \in Relays :
        Claiming(q)' /\ Claiming(p)' /\ relay'[q].ev = relay'[p].ev => q = p
  <2> SUFFICES ASSUME NEW q \in Relays, NEW p \in Relays, Claiming(q)', Claiming(p)',
                      relay'[q].ev = relay'[p].ev
               PROVE  q = p
    OBVIOUS
  <2>1. CASE q = r \/ p = r
    BY <1>4, <1>5, <2>1
  <2>2. CASE q # r /\ p # r
    BY <1>5, <2>2 DEF Claims
  <2> QED
    BY <2>1, <2>2
<1>9. \A q \in Relays : relay'[q].pc = "mark" => InStream(relay[q].ev)'
  <2> SUFFICES ASSUME NEW q \in Relays, relay'[q].pc = "mark"
               PROVE  InStream(relay[q].ev)'
    OBVIOUS
  <2>1. CASE q = r
    BY <1>4, <2>1
  <2>2. CASE q # r
    BY <1>1, <1>5, <2>2 DEF Claims
  <2> QED
    BY <2>1, <2>2
<1>10. \A i \in DOMAIN published' : InStream(published[i])'
  BY <1>1 DEF Claims
<1> QED
  BY <1>4, <1>7, <1>8, <1>9, <1>10 DEF Claims

LEMMA ClaimPendingKeeps ==
  ASSUME DeliveryInv, NEW r \in Relays, ClaimPending(r)
  PROVE  DeliveryInv'
<1> DEFINE pending == {e \in Events : Pending(e) /\ ~Locked(e)}
           first == CHOOSE e \in pending : \A f \in pending : e <= f
           next == [relay[r] EXCEPT !.pc = "send", !.left = @ - 1, !.ev = first]
<1>1. UNCHANGED <<rows, stream, quarantine, worker, operator, faults>>
  BY DEF ClaimPending
<1>2. FaultTypes'
  BY <1>1 DEF DeliveryInv, FaultTypes
<1>3. \/ Do(r, Resting)
      \/ pending # {} /\ relay[r].left # 0 /\ Do(r, next)
  BY DEF ClaimPending
<1>4. CASE Do(r, Resting)
  BY <1>1, <1>2, <1>4, RestingKnown, RelayAlone
<1>5. CASE pending # {} /\ relay[r].left # 0 /\ Do(r, next)
  <2>1. Events \in SUBSET Nat
    BY LinesKnown DEF DeliveryInv
  <2>2. pending \in SUBSET Nat
    BY <2>1
  <2>3. \E least \in pending : \A other \in pending : least <= other
    <3> HIDE DEF pending
    <3> QED
      BY <1>5, <2>2, LeastHit
  <2>4. first \in pending
    BY <2>3
  <2>5. first \in Events /\ ~Published(first) /\ ~Locked(first) /\ first \in Nat
    BY <2>1, <2>4 DEF Pending
  <2>6. \A q \in Relays : Claiming(q) => relay[q].ev # first
    BY <2>5 DEF Locked, Claiming
  <2> HIDE DEF first, pending
  <2>7. relay[r] \in RelayStates
    BY DEF DeliveryInv, Claims
  <2>8. next \in RelayStates /\ next.pc = "send" /\ next.ev = first
    <3>1. relay[r].left - 1 \in Nat
      BY <1>5, <2>7 DEF RelayStates
    <3> DEFINE less == relay[r].left - 1
               one == [relay[r] EXCEPT !.pc = "send"]
               two == [one EXCEPT !.left = less]
    <3>2. next = [two EXCEPT !.ev = first]
      BY <2>7 DEF RelayStates
    <3> HIDE DEF less
    <3>3. one \in RelayStates /\ one.pc = "send"
      BY <2>7 DEF RelayStates
    <3> HIDE DEF one
    <3>4. two \in RelayStates /\ two.pc = "send"
      BY <3>1, <3>3 DEF RelayStates, less
    <3> HIDE DEF two, next
    <3> QED
      BY <2>5, <3>2, <3>4 DEF RelayStates
  <2> HIDE DEF next
  <2>9. op' = op /\ outbox' = outbox /\ published' = published
    BY <1>1 DEF rows
  <2>10. Events \subseteq Events' /\ Carried
    BY <1>1, <2>9 DEF Events, Carried
  <2>11. Claims'
    BY <1>5, <2>5, <2>6, <2>8, <2>9, <2>10, RelayHolds DEF DeliveryInv, Do
  <2>12. Journal'
    <3>1. Journal /\ op' \in [Operations -> [state : OperationStates, version : Nat]]
          /\ \A o \in Operations : op[o].version <= op'[o].version
      BY <2>9 DEF DeliveryInv, Journal, JournalTypes
    <3> QED
      BY <2>9, <3>1, JournalMoves
  <2>13. Streams'
    BY <1>1, <2>10, StreamsStand DEF DeliveryInv
  <2> QED
    BY <1>2, <2>11, <2>12, <2>13 DEF DeliveryInv
<1> QED
  BY <1>3, <1>4, <1>5

LEMMA JournalStands ==
  ASSUME Journal, UNCHANGED rows
  PROVE  /\ Journal' /\ Events' = Events /\ published' = published
         /\ op' = op /\ outbox' = outbox
<1>1. op' = op /\ outbox' = outbox /\ published' = published
  BY DEF rows
<1>2. op' \in [Operations -> [state : OperationStates, version : Nat]]
      /\ \A o \in Operations : op[o].version <= op'[o].version
  BY <1>1 DEF Journal, JournalTypes
<1>3. Journal'
  BY <1>1, <1>2, JournalMoves
<1> QED
  BY <1>1, <1>3 DEF Events

\* A message for a row is added to the stream
LEMMA StreamGrows ==
  ASSUME Streams, Events' = Events, Events \subseteq Nat, NEW e \in Events,
         stream' = Append(stream, Message(e))
  PROVE  /\ stream' \in Seq(Messages(MaxDeliveries))
         /\ \A m \in DOMAIN stream' : stream'[m].ev \in Events'
         /\ Carried
         /\ \A m \in DOMAIN stream' : stream'[m].fate = "terminated" =>
              m \in DOMAIN stream /\ stream[m].fate = "terminated"
         /\ \E m \in DOMAIN stream' : stream'[m].ev = e
<1>1. /\ Message(e) \in Messages(MaxDeliveries) /\ Message(e).ev = e
      /\ Message(e).fate = "live"
  BY NewMessage, DeliveryAssumption
<1>2. stream \in Seq(Messages(MaxDeliveries))
  BY DEF Streams
<1> DEFINE x == Message(e)
<1> HIDE DEF x
<1>3. /\ stream' \in Seq(Messages(MaxDeliveries))
      /\ \A i \in DOMAIN stream : i \in DOMAIN stream' /\ stream'[i] = stream[i]
      /\ stream'[Len(stream) + 1] = x
      /\ Len(stream) + 1 \in DOMAIN stream'
      /\ \A i \in DOMAIN stream' : i \in DOMAIN stream \/ i = Len(stream) + 1
  BY <1>1, <1>2, Appended DEF x
<1>4. x.ev = e /\ x.fate = "live"
  BY <1>1 DEF x
<1>5. \A m \in DOMAIN stream' : stream'[m].ev \in Events'
  BY <1>3, <1>4 DEF Streams
<1>6. Carried
  BY <1>3 DEF Carried
<1>7. \A m \in DOMAIN stream' : stream'[m].fate = "terminated" =>
        m \in DOMAIN stream /\ stream[m].fate = "terminated"
  BY <1>3, <1>4
<1>8. \E m \in DOMAIN stream' : stream'[m].ev = e
  BY <1>3, <1>4
<1> QED
  BY <1>3, <1>5, <1>6, <1>7, <1>8

LEMMA PublishKeeps ==
  ASSUME DeliveryInv, NEW r \in Relays, Publish(r)
  PROVE  DeliveryInv'
<1> DEFINE next == [relay[r] EXCEPT !.pc = "mark"]
<1>1. /\ relay[r].pc = "send" /\ stream' = Append(stream, Message(relay[r].ev))
      /\ Do(r, next) /\ UNCHANGED rows
      /\ quarantine' = quarantine /\ worker' = worker /\ operator' = operator
      /\ faults' = faults
  BY DEF Publish
<1>2. /\ Journal' /\ Events' = Events /\ published' = published
  BY <1>1, JournalStands DEF DeliveryInv
<1>3. Claiming(r) /\ relay[r].ev \in Events /\ ~Published(relay[r].ev)
  BY <1>1 DEF DeliveryInv, Claims, Claiming
<1>4. Events \subseteq Nat
  BY LinesKnown DEF DeliveryInv
<1>5. /\ stream' \in Seq(Messages(MaxDeliveries))
      /\ \A m \in DOMAIN stream' : stream'[m].ev \in Events'
      /\ Carried
      /\ \A m \in DOMAIN stream' : stream'[m].fate = "terminated" =>
           m \in DOMAIN stream /\ stream[m].fate = "terminated"
  BY <1>1, <1>2, <1>3, <1>4, StreamGrows DEF DeliveryInv
<1>7. \E m \in DOMAIN stream' : stream'[m].ev = relay[r].ev
  BY <1>1, <1>2, <1>3, <1>4, StreamGrows DEF DeliveryInv
<1>8. relay[r] \in RelayStates
  BY DEF DeliveryInv, Claims
<1>9. next \in RelayStates /\ next.pc = "mark" /\ next.ev = relay[r].ev
  BY <1>8 DEF RelayStates
<1> HIDE DEF next
<1>10. Claims'
  <2>1. \A q \in Relays : q # r /\ Claiming(q) => relay[q].ev # next.ev
    BY <1>3, <1>9 DEF DeliveryInv, Claims
  <2>2. \E m \in DOMAIN stream' : stream'[m].ev = next.ev
    BY <1>7, <1>9
  <2> QED
    BY <1>1, <1>2, <1>3, <1>5, <1>9, <2>1, <2>2, RelayHolds DEF DeliveryInv, Do, InStream
<1>11. Streams'
  <2>1. /\ Streams /\ quarantine' \in Seq(Messages(MaxInspections))
        /\ worker' \in WorkerStates /\ operator' \in Nat
        /\ \A q \in DOMAIN quarantine' : quarantine'[q].ev \in Events'
        /\ \A q \in DOMAIN quarantine :
             q \in DOMAIN quarantine' /\ quarantine'[q].ev = quarantine[q].ev
    BY <1>1, <1>2 DEF DeliveryInv, Streams
  <2>2. worker'.pc # "idle" => worker'.m \in DOMAIN stream'
    BY <1>1, <1>5, <2>1 DEF Streams, Carried
  <2>3. operator' # 0 => operator' \in DOMAIN quarantine'
    BY <1>1, <2>1 DEF Streams
  <2>4. worker'.pc = "term" =>
          \E q \in DOMAIN quarantine' : quarantine'[q].ev = stream'[worker'.m].ev
    BY <1>1, <1>5, <2>1 DEF Streams, Carried
  <2>5. \A m \in DOMAIN stream' : stream'[m].fate = "terminated" =>
          /\ m \in DOMAIN stream
          /\ stream[m].fate = "terminated" \/ (worker.pc = "term" /\ m = worker.m)
    BY <1>5
  <2>6. \A m \in DOMAIN stream : m \in DOMAIN stream' /\ stream'[m].ev = stream[m].ev
    BY <1>5 DEF Carried
  <2>7. Events \subseteq Events'
    BY <1>2
  <2> QED
    BY <1>5, <2>1, <2>2, <2>3, <2>4, <2>5, <2>6, <2>7, StreamsKeep
<1>12. FaultTypes'
  BY <1>1 DEF DeliveryInv, FaultTypes
<1> QED
  BY <1>2, <1>10, <1>11, <1>12 DEF DeliveryInv

LEMMA MarkPublishedKeeps ==
  ASSUME DeliveryInv, NEW r \in Relays, MarkPublished(r)
  PROVE  DeliveryInv'
<1> DEFINE e == relay[r].ev
           next == [relay[r] EXCEPT !.pc = "publish", !.ev = 0]
<1>1. /\ relay[r].pc = "mark" /\ published' = Append(published, e)
      /\ relay' = [relay EXCEPT ![r] = next]
      /\ op' = op /\ outbox' = outbox /\ stream' = stream /\ faults' = faults
      /\ UNCHANGED <<stream, quarantine, worker, operator>>
  BY DEF MarkPublished, Do
<1>2. Claiming(r) /\ e \in Events /\ ~Published(e) /\ InStream(e)
  BY <1>1 DEF DeliveryInv, Claims, Claiming
<1>3. relay \in [Relays -> RelayStates]
  BY DEF DeliveryInv, Claims
<1>4. \A q \in Relays : q # r /\ Claiming(q) => relay[q].ev # e
  BY <1>2 DEF DeliveryInv, Claims
<1>5. next \in RelayStates /\ next.pc = "publish"
  <2> DEFINE one == [relay[r] EXCEPT !.pc = "publish"]
  <2>1. one \in RelayStates /\ one.pc = "publish"
    BY <1>3 DEF RelayStates
  <2>2. next = [one EXCEPT !.ev = 0]
    OBVIOUS
  <2> HIDE DEF one, next
  <2> QED
    BY <2>1, <2>2 DEF RelayStates
<1> HIDE DEF e, next
<1>6. Journal'
  BY <1>1, <1>2, JournalMarks DEF DeliveryInv
<1>7. Events' = Events
  BY <1>1 DEF Events
<1>8. Streams'
  BY <1>1, <1>7, StreamsStand DEF DeliveryInv
<1>9. published \in Seq(Nat) /\ e \in Nat
  BY <1>2, LinesKnown DEF DeliveryInv, Journal, JournalTypes
<1>10. /\ \A i \in DOMAIN published' : i \in DOMAIN published \/ i = Len(published) + 1
       /\ \A i \in DOMAIN published : published'[i] = published[i]
       /\ published'[Len(published) + 1] = e
  BY <1>1, <1>9, Appended
<1>11. \A i \in DOMAIN published' :
         published'[i] = e \/ \E j \in DOMAIN published : published[j] = published'[i]
  BY <1>10
<1>12. \A f : Published(f)' => Published(f) \/ f = e
  BY <1>11 DEF Published
<1>13. relay' \in [Relays -> RelayStates] /\ relay'[r] = next
  BY <1>1, <1>3, <1>5
<1>14. \A q \in Relays : Claiming(q)' => q # r /\ relay'[q] = relay[q] /\ Claiming(q)
  BY <1>1, <1>3, <1>5, <1>13 DEF Claiming
<1>15. \A q \in Relays : Claiming(q)' => relay'[q].ev \in Events' /\ ~Published(relay[q].ev)'
  <2> SUFFICES ASSUME NEW q \in Relays, Claiming(q)'
               PROVE  relay'[q].ev \in Events' /\ ~Published(relay[q].ev)'
    OBVIOUS
  <2>1. q # r /\ relay'[q] = relay[q] /\ Claiming(q)
    BY <1>14
  <2>2. relay[q].ev # e /\ relay[q].ev \in Events /\ ~Published(relay[q].ev)
    BY <1>4, <2>1 DEF DeliveryInv, Claims
  <2> QED
    BY <1>7, <1>12, <2>1, <2>2
<1>16. \A q, p \in Relays :
        Claiming(q)' /\ Claiming(p)' /\ relay'[q].ev = relay'[p].ev => q = p
  BY <1>14 DEF DeliveryInv, Claims
<1>17. \A f : InStream(f)' = InStream(f)
  BY <1>1 DEF InStream
<1>18. \A q \in Relays : relay'[q].pc = "mark" => Claiming(q)'
  BY DEF Claiming
<1>19. \A q \in Relays : relay'[q].pc = "mark" => InStream(relay[q].ev)'
  BY <1>14, <1>17, <1>18 DEF DeliveryInv, Claims
<1>20. \A i \in DOMAIN published' : InStream(published[i])'
  BY <1>2, <1>11, <1>17 DEF DeliveryInv, Claims
<1>21. Claims'
  BY <1>13, <1>15, <1>16, <1>19, <1>20 DEF Claims
<1>22. FaultTypes'
  BY <1>1 DEF DeliveryInv, FaultTypes
<1> QED
  BY <1>6, <1>8, <1>21, <1>22 DEF DeliveryInv

LEMMA CrashRelayKeeps ==
  ASSUME DeliveryInv, NEW r \in Relays, CrashRelay(r)
  PROVE  DeliveryInv'
<1>1. /\ Fault("relay") /\ Do(r, Resting)
      /\ UNCHANGED <<rows, stream, quarantine, worker, operator>>
  BY DEF CrashRelay
<1>2. FaultTypes'
  BY <1>1, FaultCounted DEF DeliveryInv
<1> QED
  BY <1>1, <1>2, RestingKnown, RelayAlone

-----------------------------------------------------------------------------
(***************************************************************************)
(* The worker, the broker and the operator                                *)
(***************************************************************************)

\* A step that changes streams, worker or operator only
LEMMA StreamsAlone ==
  ASSUME DeliveryInv, UNCHANGED <<rows, relay>>, Carried, Streams', FaultTypes'
  PROVE  DeliveryInv'
<1>1. UNCHANGED rows /\ relay' = relay
  OBVIOUS
<1>2. Journal' /\ Events' = Events /\ published' = published
  BY <1>1, JournalStands DEF DeliveryInv
<1>3. Claims'
  BY <1>1, <1>2, ClaimsStand DEF DeliveryInv
<1> QED
  BY <1>2, <1>3 DEF DeliveryInv

\* One message of the work stream is settled, lost or delivered
LEMMA MessageTouched ==
  ASSUME Streams, NEW m \in DOMAIN stream, NEW x \in Messages(MaxDeliveries),
         x.ev = stream[m].ev, stream' = [stream EXCEPT ![m] = x],
         x.fate = "terminated" =>
           stream[m].fate = "terminated" \/ (worker.pc = "term" /\ m = worker.m),
         Events' = Events, quarantine' = quarantine, operator' = operator,
         worker' \in WorkerStates, worker'.pc # "idle" => worker'.m \in DOMAIN stream,
         worker'.pc = "term" => worker' = worker
  PROVE  Streams' /\ Carried
<1>1. stream \in Seq(Messages(MaxDeliveries))
  BY DEF Streams
<1>2. /\ stream' \in Seq(Messages(MaxDeliveries)) /\ DOMAIN stream' = DOMAIN stream
      /\ stream'[m] = x
      /\ \A i \in DOMAIN stream : stream'[i].ev = stream[i].ev /\ (i # m => stream'[i] = stream[i])
  BY <1>1, Touched
<1>3. /\ quarantine' \in Seq(Messages(MaxInspections)) /\ operator' \in Nat
      /\ \A q \in DOMAIN quarantine' : quarantine'[q].ev \in Events'
      /\ \A q \in DOMAIN quarantine :
           q \in DOMAIN quarantine' /\ quarantine'[q].ev = quarantine[q].ev
      /\ operator' # 0 => operator' \in DOMAIN quarantine'
  BY DEF Streams
<1>4. \A i \in DOMAIN stream' : stream'[i].ev \in Events'
  BY <1>2 DEF Streams
<1>5. \A i \in DOMAIN stream : i \in DOMAIN stream' /\ stream'[i].ev = stream[i].ev
  BY <1>2
<1>6. \A i \in DOMAIN stream' : stream'[i].fate = "terminated" =>
        /\ i \in DOMAIN stream
        /\ stream[i].fate = "terminated" \/ (worker.pc = "term" /\ i = worker.m)
  BY <1>2
<1>7. worker'.pc # "idle" => worker'.m \in DOMAIN stream'
  BY <1>2
<1>8. worker'.pc = "term" =>
        \E q \in DOMAIN quarantine' : quarantine'[q].ev = stream'[worker'.m].ev
  BY <1>2, <1>7 DEF Streams
<1>9. Events \subseteq Events'
  OBVIOUS
<1>10. Streams'
  BY <1>2, <1>3, <1>4, <1>5, <1>6, <1>7, <1>8, <1>9, StreamsKeep
<1> QED
  BY <1>5, <1>10 DEF Carried

LEMMA FreeKnown == Free \in WorkerStates /\ Free.pc = "idle"
BY DEF Free, WorkerStates

LEMMA StreamKnown ==
  ASSUME Streams, NEW m \in DOMAIN stream
  PROVE  stream[m] \in Messages(MaxDeliveries) /\ m \in Nat
<1>1. stream \in Seq(Messages(MaxDeliveries))
  BY DEF Streams
<1>2. DOMAIN stream = 1..Len(stream) /\ Len(stream) \in Nat
  BY <1>1, LenProperties
<1>3. \A i \in 1..Len(stream) : stream[i] \in Messages(MaxDeliveries)
  BY <1>1, ElementOfSeq
<1> QED
  BY <1>2, <1>3

LEMMA FetchKeeps ==
  ASSUME DeliveryInv, Fetch
  PROVE  DeliveryInv'
<1> DEFINE ready == {m \in DOMAIN stream : Deliverable(m)}
           first == CHOOSE i \in ready : \A j \in ready : i <= j
           x == [stream[first] EXCEPT !.tries = stream[first].tries + 1]
           fetched == [pc |-> "handle", m |-> first,
                       version |-> op[outbox[stream[first].ev].op].version]
<1>1. /\ ready # {} /\ worker' = fetched /\ stream' = [stream EXCEPT ![first] = x]
      /\ UNCHANGED <<rows, quarantine, relay, operator, faults>>
  BY DEF Fetch
<1>2. Streams /\ Journal
  BY DEF DeliveryInv
<1>3. first \in DOMAIN stream /\ Deliverable(first)
  <2>1. ready \in SUBSET Nat
    BY <1>2, StreamKnown
  <2>2. \E least \in ready : \A other \in ready : least <= other
    <3> HIDE DEF ready
    <3> QED
      BY <1>1, <2>1, LeastHit
  <2>3. first \in ready
    BY <2>2
  <2> QED
    BY <2>3
<1> HIDE DEF first, ready
<1>4. stream[first] \in Messages(MaxDeliveries) /\ first \in Nat
  BY <1>2, <1>3, StreamKnown
<1>5. MaxDeliveries \in Nat
  BY DeliveryAssumption
<1>6. stream[first].tries < MaxDeliveries /\ stream[first].fate = "live"
  BY <1>3 DEF Deliverable, Live
<1>7. x \in Messages(MaxDeliveries) /\ x.ev = stream[first].ev /\ x.fate = "live"
  <2> DEFINE y == stream[first]
  <2> HIDE DEF y
  <2>1. y \in Messages(MaxDeliveries) /\ y.tries < MaxDeliveries /\ y.fate = "live"
    BY <1>4, <1>6 DEF y
  <2>2. [y EXCEPT !.tries = y.tries + 1] \in Messages(MaxDeliveries)
        /\ [y EXCEPT !.tries = y.tries + 1].ev = y.ev
        /\ [y EXCEPT !.tries = y.tries + 1].fate = y.fate
    BY <1>5, <2>1, MessageKnown
  <2> QED
    BY <2>1, <2>2 DEF y
<1> HIDE DEF x
<1>8. fetched \in WorkerStates /\ fetched.pc = "handle" /\ fetched.m = first
  <2>1. stream[first].ev \in Events
    BY <1>2, <1>3 DEF Streams
  <2>2. op[outbox[stream[first].ev].op].version \in Nat
    BY <1>2, <2>1, LinesKnown
  <2> QED
    BY <1>4, <2>2 DEF WorkerStates
<1> HIDE DEF fetched
<1>9. Events' = Events
  BY <1>1, <1>2, JournalStands
<1>10. quarantine' = quarantine /\ operator' = operator
  BY <1>1
<1>11. Streams' /\ Carried
  BY <1>1, <1>2, <1>3, <1>7, <1>8, <1>9, <1>10, MessageTouched
<1>12. FaultTypes'
  BY <1>1 DEF DeliveryInv, FaultTypes
<1>13. UNCHANGED <<rows, relay>>
  BY <1>1
<1> QED
  BY <1>11, <1>12, <1>13, StreamsAlone

LEMMA SettleKeeps ==
  ASSUME DeliveryInv, worker.pc # "idle", NEW fate \in Fates, Settle(fate),
         fate = "terminated" => worker.pc = "term"
  PROVE  DeliveryInv'
<1> DEFINE m == worker.m
           x == [stream[m] EXCEPT !.fate = fate]
<1>1. /\ stream' = [stream EXCEPT ![m] = x] /\ worker' = Free
      /\ UNCHANGED <<rows, quarantine, relay, operator, faults>>
  BY DEF Settle
<1>2. Streams /\ Journal /\ m \in DOMAIN stream
  BY DEF DeliveryInv, Streams
<1>3. fate = "terminated" => worker.pc = "term" /\ m = worker.m
  OBVIOUS
<1> HIDE DEF m
<1>4. stream[m] \in Messages(MaxDeliveries)
  BY <1>2, StreamKnown
<1>5. x \in Messages(MaxDeliveries) /\ x.ev = stream[m].ev /\ x.fate = fate
  <2> DEFINE y == stream[m]
  <2> HIDE DEF y
  <2>1. y \in Messages(MaxDeliveries) /\ MaxDeliveries \in Nat
    BY <1>4, DeliveryAssumption DEF y
  <2>2. [y EXCEPT !.fate = fate] \in Messages(MaxDeliveries)
        /\ [y EXCEPT !.fate = fate].ev = y.ev
        /\ [y EXCEPT !.fate = fate].fate = fate
    BY <2>1 DEF Messages
  <2> QED
    BY <2>2 DEF y
<1> HIDE DEF x
<1>6. Events' = Events
  BY <1>1, <1>2, JournalStands
<1>7. quarantine' = quarantine /\ operator' = operator
  BY <1>1
<1>8. worker' \in WorkerStates /\ worker'.pc = "idle"
  BY <1>1, FreeKnown
<1>9. Streams' /\ Carried
  BY <1>1, <1>2, <1>3, <1>5, <1>6, <1>7, <1>8, MessageTouched
<1>10. FaultTypes'
  BY <1>1 DEF DeliveryInv, FaultTypes
<1>11. UNCHANGED <<rows, relay>>
  BY <1>1
<1> QED
  BY <1>9, <1>10, <1>11, StreamsAlone

LEMMA AnswersKeep ==
  ASSUME DeliveryInv, Ack \/ Nak \/ Term
  PROVE  DeliveryInv'
<1>1. {"acked", "live", "terminated"} \subseteq Fates
  BY DEF Fates
<1>2. CASE Ack
  <2>1. worker.pc = "handle" /\ Settle("acked")
    BY <1>2 DEF Ack
  <2> QED
    BY <1>1, <2>1, SettleKeeps
<1>3. CASE Nak
  <2>1. worker.pc \in {"handle", "nak"} /\ Settle("live")
    BY <1>3 DEF Nak
  <2> QED
    BY <1>1, <2>1, SettleKeeps
<1>4. CASE Term
  <2>1. worker.pc = "term" /\ Settle("terminated")
    BY <1>4 DEF Term
  <2> QED
    BY <1>1, <2>1, SettleKeeps
<1> QED
  BY <1>2, <1>3, <1>4

LEMMA LoseKeeps ==
  ASSUME DeliveryInv, NEW m \in DOMAIN stream, Lose(m)
  PROVE  DeliveryInv'
<1> DEFINE x == [stream[m] EXCEPT !.fate = "lost"]
<1>1. /\ stream' = [stream EXCEPT ![m] = x] /\ Fault("loss")
      /\ UNCHANGED <<rows, quarantine, relay, worker, operator>>
  BY DEF Lose
<1>2. Streams /\ Journal
  BY DEF DeliveryInv
<1>3. stream[m] \in Messages(MaxDeliveries)
  BY <1>2, StreamKnown
<1>4. x \in Messages(MaxDeliveries) /\ x.ev = stream[m].ev /\ x.fate = "lost"
  <2> DEFINE y == stream[m]
             gone == "lost"
  <2>1. gone \in Fates
    BY DEF Fates
  <2> HIDE DEF y, gone
  <2>2. y \in Messages(MaxDeliveries) /\ MaxDeliveries \in Nat
    BY <1>3, DeliveryAssumption DEF y
  <2>3. [y EXCEPT !.fate = gone] \in Messages(MaxDeliveries)
        /\ [y EXCEPT !.fate = gone].ev = y.ev
        /\ [y EXCEPT !.fate = gone].fate = gone
    BY <2>1, <2>2 DEF Messages
  <2> QED
    BY <2>3 DEF y, gone
<1> HIDE DEF x
<1>5. Events' = Events
  BY <1>1, <1>2, JournalStands
<1>6. quarantine' = quarantine /\ operator' = operator /\ worker' = worker
  BY <1>1
<1>7. /\ worker' \in WorkerStates
      /\ worker'.pc # "idle" => worker'.m \in DOMAIN stream
  BY <1>2, <1>6 DEF Streams
<1>8. Streams' /\ Carried
  BY <1>1, <1>2, <1>4, <1>5, <1>6, <1>7, MessageTouched
<1>9. FaultTypes'
  BY <1>1, FaultCounted DEF DeliveryInv
<1>10. UNCHANGED <<rows, relay>>
  BY <1>1
<1> QED
  BY <1>8, <1>9, <1>10, StreamsAlone

\* The work stream is left alone
LEMMA StreamUntouched ==
  ASSUME Streams, Events' = Events, stream' = stream,
         quarantine' \in Seq(Messages(MaxInspections)),
         \A q \in DOMAIN quarantine' : quarantine'[q].ev \in Events,
         \A q \in DOMAIN quarantine :
           q \in DOMAIN quarantine' /\ quarantine'[q].ev = quarantine[q].ev,
         worker' \in WorkerStates, operator' \in Nat,
         worker'.pc # "idle" => worker'.m \in DOMAIN stream,
         operator' # 0 => operator' \in DOMAIN quarantine',
         worker'.pc = "term" =>
           \/ worker' = worker
           \/ \E q \in DOMAIN quarantine' : quarantine'[q].ev = stream[worker'.m].ev
  PROVE  Streams' /\ Carried
<1>1. Carried
  BY DEF Carried
<1>2. /\ stream' \in Seq(Messages(MaxDeliveries))
      /\ \A m \in DOMAIN stream' : stream'[m].ev \in Events'
      /\ \A m \in DOMAIN stream : m \in DOMAIN stream' /\ stream'[m].ev = stream[m].ev
      /\ \A q \in DOMAIN quarantine' : quarantine'[q].ev \in Events'
  BY DEF Streams
<1>3. \A m \in DOMAIN stream' : stream'[m].fate = "terminated" =>
        /\ m \in DOMAIN stream
        /\ stream[m].fate = "terminated" \/ (worker.pc = "term" /\ m = worker.m)
  OBVIOUS
<1>4. worker'.pc = "term" =>
        \E q \in DOMAIN quarantine' : quarantine'[q].ev = stream'[worker'.m].ev
  BY DEF Streams
<1>5. worker'.pc # "idle" => worker'.m \in DOMAIN stream'
  OBVIOUS
<1>6. Events \subseteq Events'
  OBVIOUS
<1>7. Streams'
  BY <1>2, <1>3, <1>4, <1>5, <1>6, StreamsKeep
<1> QED
  BY <1>1, <1>7

LEMMA QuarantineStands ==
  ASSUME Streams, quarantine' = quarantine
  PROVE  /\ quarantine' \in Seq(Messages(MaxInspections))
         /\ \A q \in DOMAIN quarantine' : quarantine'[q].ev \in Events
         /\ \A q \in DOMAIN quarantine :
              q \in DOMAIN quarantine' /\ quarantine'[q].ev = quarantine[q].ev
BY DEF Streams

LEMMA GiveUpKeeps ==
  ASSUME DeliveryInv, GiveUp
  PROVE  DeliveryInv'
<1>1. /\ worker.pc = "handle" /\ worker' = [worker EXCEPT !.pc = "quarantine"]
      /\ UNCHANGED <<rows, stream, quarantine, relay, operator, faults>>
  BY DEF GiveUp
<1>2. Streams /\ Journal
  BY DEF DeliveryInv
<1>3. /\ stream' = stream /\ quarantine' = quarantine /\ operator' = operator
      /\ Events' = Events
  BY <1>1, <1>2, JournalStands
<1>4. /\ worker' \in WorkerStates /\ worker'.pc = "quarantine" /\ worker'.m \in DOMAIN stream
  BY <1>1, <1>2 DEF Streams, WorkerStates
<1>5. operator' \in Nat /\ (operator' # 0 => operator' \in DOMAIN quarantine')
  BY <1>2, <1>3 DEF Streams
<1>6. /\ quarantine' \in Seq(Messages(MaxInspections))
      /\ \A q \in DOMAIN quarantine' : quarantine'[q].ev \in Events
      /\ \A q \in DOMAIN quarantine :
           q \in DOMAIN quarantine' /\ quarantine'[q].ev = quarantine[q].ev
  BY <1>2, <1>3, QuarantineStands
<1>7. Streams' /\ Carried
  BY <1>2, <1>3, <1>4, <1>5, <1>6, StreamUntouched
<1>8. FaultTypes' /\ UNCHANGED <<rows, relay>>
  BY <1>1 DEF DeliveryInv, FaultTypes
<1> QED
  BY <1>7, <1>8, StreamsAlone

LEMMA CrashWorkerKeeps ==
  ASSUME DeliveryInv, CrashWorker
  PROVE  DeliveryInv'
<1>1. /\ worker' = Free /\ Fault("worker")
      /\ UNCHANGED <<rows, stream, quarantine, relay, operator>>
  BY DEF CrashWorker
<1>2. Streams /\ Journal
  BY DEF DeliveryInv
<1>3. /\ stream' = stream /\ quarantine' = quarantine /\ operator' = operator
      /\ Events' = Events
  BY <1>1, <1>2, JournalStands
<1>4. worker' \in WorkerStates /\ worker'.pc = "idle"
  BY <1>1, FreeKnown
<1>5. operator' \in Nat /\ (operator' # 0 => operator' \in DOMAIN quarantine')
  BY <1>2, <1>3 DEF Streams
<1>6. /\ quarantine' \in Seq(Messages(MaxInspections))
      /\ \A q \in DOMAIN quarantine' : quarantine'[q].ev \in Events
      /\ \A q \in DOMAIN quarantine :
           q \in DOMAIN quarantine' /\ quarantine'[q].ev = quarantine[q].ev
  BY <1>2, <1>3, QuarantineStands
<1>7. Streams' /\ Carried
  BY <1>2, <1>3, <1>4, <1>5, <1>6, StreamUntouched
<1>8. UNCHANGED <<rows, relay>>
  BY <1>1
<1>9. FaultTypes'
  BY <1>1, FaultCounted DEF DeliveryInv
<1> QED
  BY <1>7, <1>8, <1>9, StreamsAlone

LEMMA QuarantineKeeps ==
  ASSUME DeliveryInv, Quarantine
  PROVE  DeliveryInv'
<1> DEFINE e == stream[worker.m].ev
<1>1. worker.pc = "quarantine" /\ UNCHANGED <<rows, stream, relay, operator>>
  BY DEF Quarantine
<1>2. Streams /\ Journal
  BY DEF DeliveryInv
<1>3. stream' = stream /\ operator' = operator /\ Events' = Events
  BY <1>1, <1>2, JournalStands
<1>4. UNCHANGED <<rows, relay>>
  BY <1>1
<1>5. worker.m \in DOMAIN stream /\ e \in Events /\ worker \in WorkerStates
  BY <1>1, <1>2 DEF Streams
<1>6. e \in Nat
  BY <1>2, <1>5, LinesKnown
<1>7. CASE /\ quarantine' = Append(quarantine, Message(e))
           /\ worker' = [worker EXCEPT !.pc = "term"]
           /\ UNCHANGED faults
  <2>1. worker' \in WorkerStates /\ worker'.pc = "term" /\ worker'.m = worker.m
    BY <1>5, <1>7 DEF WorkerStates
  <2>2. Message(e) \in Messages(MaxInspections) /\ Message(e).ev = e
    BY <1>6, NewMessage, DeliveryAssumption
  <2> DEFINE x == Message(e)
             l == Len(quarantine) + 1
  <2>3. quarantine' = Append(quarantine, x) /\ x \in Messages(MaxInspections)
        /\ x.ev = stream[worker.m].ev /\ x.ev \in Events
    BY <1>5, <1>7, <2>2
  <2> HIDE DEF x, e
  <2>4. quarantine \in Seq(Messages(MaxInspections))
    BY <1>2 DEF Streams
  <2>5. /\ quarantine' \in Seq(Messages(MaxInspections))
        /\ \A q \in DOMAIN quarantine : q \in DOMAIN quarantine' /\ quarantine'[q] = quarantine[q]
        /\ quarantine'[l] = x /\ l \in DOMAIN quarantine'
        /\ \A q \in DOMAIN quarantine' : q \in DOMAIN quarantine \/ q = l
    BY <2>3, <2>4, Appended
  <2> HIDE DEF l
  <2>6. \A q \in DOMAIN quarantine' : quarantine'[q].ev \in Events
    BY <1>2, <2>3, <2>5 DEF Streams
  <2>7. \A q \in DOMAIN quarantine : q \in DOMAIN quarantine' /\ quarantine'[q].ev = quarantine[q].ev
    BY <2>5
  <2>8. operator' \in Nat /\ (operator' # 0 => operator' \in DOMAIN quarantine')
    BY <1>2, <1>3, <2>5 DEF Streams
  <2>9. \E q \in DOMAIN quarantine' : quarantine'[q].ev = stream[worker'.m].ev
    BY <2>1, <2>3, <2>5
  <2>10. worker'.m \in DOMAIN stream
    BY <1>5, <2>1
  <2>11. Streams' /\ Carried
    BY <1>2, <1>3, <2>1, <2>5, <2>6, <2>7, <2>8, <2>9, <2>10, StreamUntouched
  <2>12. FaultTypes'
    BY <1>7 DEF DeliveryInv, FaultTypes
  <2> QED
    BY <1>4, <2>11, <2>12, StreamsAlone
<1>8. CASE /\ Fault("worker") /\ worker' = [worker EXCEPT !.pc = "nak"]
           /\ UNCHANGED quarantine
  <2>1. worker' \in WorkerStates /\ worker'.pc = "nak" /\ worker'.m = worker.m
    BY <1>5, <1>8 DEF WorkerStates
  <2>2. worker'.m \in DOMAIN stream
    BY <1>5, <2>1
  <2>3. /\ quarantine' \in Seq(Messages(MaxInspections))
        /\ \A q \in DOMAIN quarantine' : quarantine'[q].ev \in Events
        /\ \A q \in DOMAIN quarantine :
             q \in DOMAIN quarantine' /\ quarantine'[q].ev = quarantine[q].ev
    BY <1>2, <1>8, QuarantineStands
  <2>4. operator' \in Nat /\ (operator' # 0 => operator' \in DOMAIN quarantine')
    BY <1>2, <1>3, <1>8 DEF Streams
  <2>5. Streams' /\ Carried
    BY <1>2, <1>3, <2>1, <2>2, <2>3, <2>4, StreamUntouched
  <2>6. FaultTypes'
    BY <1>8, FaultCounted DEF DeliveryInv
  <2> QED
    BY <1>4, <2>5, <2>6, StreamsAlone
<1> QED
  BY <1>7, <1>8 DEF Quarantine

\* One message of the quarantine is fetched or settled
LEMMA QuarantineTouched ==
  ASSUME Streams, NEW q \in DOMAIN quarantine, NEW x \in Messages(MaxInspections),
         x.ev = quarantine[q].ev, quarantine' = [quarantine EXCEPT ![q] = x]
  PROVE  /\ quarantine' \in Seq(Messages(MaxInspections))
         /\ DOMAIN quarantine' = DOMAIN quarantine
         /\ \A p \in DOMAIN quarantine' : quarantine'[p].ev \in Events
         /\ \A p \in DOMAIN quarantine :
              p \in DOMAIN quarantine' /\ quarantine'[p].ev = quarantine[p].ev
<1>1. quarantine \in Seq(Messages(MaxInspections))
  BY DEF Streams
<1>2. /\ quarantine' \in Seq(Messages(MaxInspections)) /\ DOMAIN quarantine' = DOMAIN quarantine
      /\ \A p \in DOMAIN quarantine : quarantine'[p].ev = quarantine[p].ev
  BY <1>1, Touched
<1> QED
  BY <1>2 DEF Streams

LEMMA HeldKnown ==
  ASSUME Streams, NEW q \in DOMAIN quarantine, FirstHeld(q)
  PROVE  LET x == [quarantine[q] EXCEPT !.tries = quarantine[q].tries + 1]
         IN /\ x \in Messages(MaxInspections) /\ x.ev = quarantine[q].ev /\ q \in Nat
            /\ [x EXCEPT !.fate = "discarded"] \in Messages(MaxInspections)
            /\ [x EXCEPT !.fate = "discarded"].ev = quarantine[q].ev
            /\ quarantine[q].ev \in Events
<1> DEFINE y == quarantine[q]
           x == [y EXCEPT !.tries = y.tries + 1]
<1>1. quarantine \in Seq(Messages(MaxInspections))
  BY DEF Streams
<1>2. DOMAIN quarantine = 1..Len(quarantine) /\ Len(quarantine) \in Nat
  BY <1>1, LenProperties
<1>3. \A i \in 1..Len(quarantine) : quarantine[i] \in Messages(MaxInspections)
  BY <1>1, ElementOfSeq
<1>4. y \in Messages(MaxInspections) /\ y.tries < MaxInspections /\ y.ev \in Events /\ q \in Nat
  BY <1>2, <1>3 DEF FirstHeld, Held, Streams
<1>5. MaxInspections \in Nat
  BY DeliveryAssumption
<1> HIDE DEF y
<1>6. x \in Messages(MaxInspections) /\ x.ev = y.ev
  BY <1>4, <1>5, MessageKnown
<1> HIDE DEF x
<1>7. [x EXCEPT !.fate = "discarded"] \in Messages(MaxInspections)
      /\ [x EXCEPT !.fate = "discarded"].ev = x.ev
  BY <1>6 DEF Messages, Fates
<1> QED
  BY <1>4, <1>6, <1>7 DEF x, y

LEMMA InspectKeeps ==
  ASSUME DeliveryInv, NEW q \in DOMAIN quarantine, Inspect(q) \/ Discard(q)
  PROVE  DeliveryInv'
<1> DEFINE x == [quarantine[q] EXCEPT !.tries = quarantine[q].tries + 1]
           z == [x EXCEPT !.fate = "discarded"]
<1>1. /\ operator = 0 /\ FirstHeld(q) /\ Fault("command")
      /\ UNCHANGED <<rows, stream, relay, worker, operator>>
  BY DEF Inspect, Discard
<1>2. Streams /\ Journal
  BY DEF DeliveryInv
<1>3. \/ quarantine' = [quarantine EXCEPT ![q] = x]
      \/ quarantine' = [quarantine EXCEPT ![q] = z]
  <2>1. CASE Inspect(q)
    BY <2>1 DEF Inspect
  <2>2. CASE Discard(q)
    <3>1. quarantine' = [[quarantine EXCEPT ![q] = x] EXCEPT ![q].fate = "discarded"]
      BY <2>2 DEF Discard
    <3> QED
      BY <3>1
  <2> QED
    BY <2>1, <2>2
<1>4. /\ x \in Messages(MaxInspections) /\ x.ev = quarantine[q].ev
      /\ z \in Messages(MaxInspections) /\ z.ev = quarantine[q].ev
  BY <1>1, <1>2, HeldKnown
<1> HIDE DEF x, z
<1>5. /\ quarantine' \in Seq(Messages(MaxInspections))
      /\ DOMAIN quarantine' = DOMAIN quarantine
      /\ \A p \in DOMAIN quarantine' : quarantine'[p].ev \in Events
      /\ \A p \in DOMAIN quarantine :
           p \in DOMAIN quarantine' /\ quarantine'[p].ev = quarantine[p].ev
  BY <1>2, <1>3, <1>4, QuarantineTouched
<1>6. /\ stream' = stream /\ operator' = operator /\ Events' = Events /\ worker' = worker
  BY <1>1, <1>2, JournalStands
<1>7. /\ operator' \in Nat /\ (operator' # 0 => operator' \in DOMAIN quarantine')
      /\ worker' \in WorkerStates
      /\ worker'.pc # "idle" => worker'.m \in DOMAIN stream
  BY <1>2, <1>5, <1>6 DEF Streams
<1>8. Streams' /\ Carried
  BY <1>2, <1>5, <1>6, <1>7, StreamUntouched
<1>9. FaultTypes'
  BY <1>1, FaultCounted DEF DeliveryInv
<1>10. UNCHANGED <<rows, relay>>
  BY <1>1
<1> QED
  BY <1>8, <1>9, <1>10, StreamsAlone

LEMMA ReplayKeeps ==
  ASSUME DeliveryInv, NEW q \in DOMAIN quarantine, Replay(q)
  PROVE  DeliveryInv'
<1> DEFINE x == [quarantine[q] EXCEPT !.tries = quarantine[q].tries + 1]
           e == quarantine[q].ev
<1>1. /\ FirstHeld(q) /\ Fault("command")
      /\ quarantine' = [quarantine EXCEPT ![q] = x]
      /\ stream' = Append(stream, Message(e)) /\ operator' = q
      /\ UNCHANGED <<rows, relay, worker>>
  BY DEF Replay
<1>2. Streams /\ Journal
  BY DEF DeliveryInv
<1>3. x \in Messages(MaxInspections) /\ x.ev = quarantine[q].ev /\ q \in Nat /\ e \in Events
  BY <1>1, <1>2, HeldKnown
<1> HIDE DEF x, e
<1>4. /\ quarantine' \in Seq(Messages(MaxInspections))
      /\ DOMAIN quarantine' = DOMAIN quarantine
      /\ \A p \in DOMAIN quarantine' : quarantine'[p].ev \in Events
      /\ \A p \in DOMAIN quarantine :
           p \in DOMAIN quarantine' /\ quarantine'[p].ev = quarantine[p].ev
  BY <1>1, <1>2, <1>3, QuarantineTouched
<1>5. Events' = Events /\ worker' = worker /\ Events \subseteq Nat
  BY <1>1, <1>2, JournalStands, LinesKnown
<1>6. /\ stream' \in Seq(Messages(MaxDeliveries))
      /\ \A m \in DOMAIN stream' : stream'[m].ev \in Events'
      /\ Carried
      /\ \A m \in DOMAIN stream' : stream'[m].fate = "terminated" =>
           m \in DOMAIN stream /\ stream[m].fate = "terminated"
  BY <1>1, <1>2, <1>3, <1>5, StreamGrows
<1>7. \A m \in DOMAIN stream : m \in DOMAIN stream' /\ stream'[m].ev = stream[m].ev
  BY <1>6 DEF Carried
<1>8. \A m \in DOMAIN stream' : stream'[m].fate = "terminated" =>
        /\ m \in DOMAIN stream
        /\ stream[m].fate = "terminated" \/ (worker.pc = "term" /\ m = worker.m)
  BY <1>6
<1>9. /\ worker' \in WorkerStates /\ operator' \in Nat
      /\ worker'.pc # "idle" => worker'.m \in DOMAIN stream'
      /\ operator' # 0 => operator' \in DOMAIN quarantine'
  BY <1>1, <1>2, <1>3, <1>4, <1>5, <1>7 DEF Streams
<1>10. worker'.pc = "term" =>
         \E p \in DOMAIN quarantine' : quarantine'[p].ev = stream'[worker'.m].ev
  BY <1>2, <1>4, <1>5, <1>7 DEF Streams
<1>11. Events \subseteq Events' /\ \A p \in DOMAIN quarantine' : quarantine'[p].ev \in Events'
  BY <1>4, <1>5
<1>12. Streams'
  BY <1>2, <1>4, <1>6, <1>7, <1>8, <1>9, <1>10, <1>11, StreamsKeep
<1>13. FaultTypes'
  BY <1>1, FaultCounted DEF DeliveryInv
<1>14. UNCHANGED <<rows, relay>>
  BY <1>1
<1> QED
  BY <1>6, <1>12, <1>13, <1>14, StreamsAlone

LEMMA AckReplayKeeps ==
  ASSUME DeliveryInv, AckReplay
  PROVE  DeliveryInv'
<1>1. PICK fate \in {"replayed", "live"} :
        quarantine' = [quarantine EXCEPT ![operator].fate = fate]
  BY DEF AckReplay
<1>2. /\ operator # 0 /\ operator' = 0
      /\ UNCHANGED <<rows, stream, relay, worker, faults>>
  BY DEF AckReplay
<1>3. Streams /\ Journal /\ operator \in DOMAIN quarantine
  BY <1>2 DEF DeliveryInv, Streams
<1> DEFINE q == operator
           y == quarantine[q]
           x == [y EXCEPT !.fate = fate]
<1>4. quarantine' = [quarantine EXCEPT ![q] = x] /\ q \in DOMAIN quarantine
  BY <1>1, <1>3
<1> HIDE DEF q
<1>5. y \in Messages(MaxInspections)
  <2>1. quarantine \in Seq(Messages(MaxInspections))
    BY <1>3 DEF Streams
  <2>2. DOMAIN quarantine = 1..Len(quarantine)
    BY <2>1, LenProperties
  <2>3. \A i \in 1..Len(quarantine) : quarantine[i] \in Messages(MaxInspections)
    BY <2>1, ElementOfSeq
  <2> QED
    BY <1>4, <2>2, <2>3
<1>6. x \in Messages(MaxInspections) /\ x.ev = quarantine[q].ev
  <2>1. fate \in Fates
    BY DEF Fates
  <2> HIDE DEF y
  <2>2. x \in Messages(MaxInspections) /\ x.ev = y.ev
    BY <1>5, <2>1 DEF Messages
  <2> HIDE DEF x
  <2> QED
    BY <2>2 DEF y
<1> HIDE DEF x, y
<1>7. /\ quarantine' \in Seq(Messages(MaxInspections))
      /\ DOMAIN quarantine' = DOMAIN quarantine
      /\ \A p \in DOMAIN quarantine' : quarantine'[p].ev \in Events
      /\ \A p \in DOMAIN quarantine :
           p \in DOMAIN quarantine' /\ quarantine'[p].ev = quarantine[p].ev
  BY <1>3, <1>4, <1>6, QuarantineTouched
<1>8. stream' = stream /\ Events' = Events /\ worker' = worker
  BY <1>2, <1>3, JournalStands
<1>9. /\ operator' \in Nat /\ operator' = 0
      /\ worker' \in WorkerStates
      /\ worker'.pc # "idle" => worker'.m \in DOMAIN stream
  BY <1>2, <1>3, <1>8 DEF Streams
<1>10. Streams' /\ Carried
  BY <1>3, <1>7, <1>8, <1>9, StreamUntouched
<1>11. FaultTypes' /\ UNCHANGED <<rows, relay>>
  BY <1>2 DEF DeliveryInv, FaultTypes
<1> QED
  BY <1>10, <1>11, StreamsAlone

-----------------------------------------------------------------------------
(***************************************************************************)
(* The theorems                                                           *)
(***************************************************************************)

\* As many rows as operations, and one for every operation: no operation has two
LEMMA FirstRowsDiffer ==
  ASSUME Init, NEW e \in Events, NEW f \in Events, outbox[e].op = outbox[f].op
  PROVE  e = f
<1> DEFINE n == Cardinality(Operations)
           owner == [i \in 1..n |-> outbox[i].op]
<1>1. IsFiniteSet(Operations)
  BY DeliveryAssumption
<1>2. n \in Nat
  BY <1>1, FS_CardinalityType
<1>3. /\ outbox \in [1..n -> {Row(o, "EXECUTE", 2, 0) : o \in Operations}]
      /\ \A o \in Operations : \E i \in DOMAIN outbox : outbox[i].op = o
  BY DEF Init
<1>4. \A i \in 1..n : outbox[i].op \in Operations
  BY <1>3 DEF Row
<1>5. DOMAIN outbox = 1..n
  BY <1>3
<1> HIDE DEF n
<1>6. owner \in Surjection(1..n, Operations)
  BY <1>3, <1>4, <1>5 DEF Surjection
<1>7. IsFiniteSet(1..n) /\ Cardinality(1..n) = n
  BY <1>2, FS_Interval
<1>8. Cardinality(1..n) = Cardinality(Operations)
  BY <1>7 DEF n
<1>9. owner \in Injection(1..n, Operations)
  <2> HIDE DEF owner
  <2> QED
    BY <1>6, <1>7, <1>8, FS_SurjSameCardinalityImpliesInj
<1>10. \A i, j \in 1..n : owner[i] = owner[j] => i = j
  BY <1>9 DEF Injection, IsInjective
<1> QED
  BY <1>5, <1>10 DEF Events

LEMMA DeliveryStarts ==
  ASSUME Init
  PROVE  DeliveryInv
<1> DEFINE n == Cardinality(Operations)
<1>1. n \in Nat
  BY DeliveryAssumption, FS_CardinalityType
<1>2. outbox \in [1..n -> {Row(o, "EXECUTE", 2, 0) : o \in Operations}]
  BY DEF Init
<1> HIDE DEF n
<1>3. \A i \in 1..n : /\ outbox[i] \in Lines /\ outbox[i].op \in Operations
                      /\ outbox[i].version = 2 /\ outbox[i].source = 0
  BY <1>2 DEF Row, Lines, Commands
<1>4. Events = 1..n
  BY <1>2 DEF Events
<1>5. outbox \in Seq(Lines)
  BY <1>1, <1>2, <1>3
<1>6. op = [o \in Operations |-> [state |-> "READY", version |-> 2]] /\ published = << >>
  BY DEF Init
<1>7. << >> \in Seq(Nat) /\ DOMAIN published = {}
  BY <1>6, EmptySeq
<1>8. JournalTypes
  BY <1>5, <1>6, <1>7 DEF JournalTypes, OperationStates
<1>9. Ordered
  <2>1. \A e \in Events : outbox[e].version <= op[outbox[e].op].version
    BY <1>3, <1>4, <1>6
  <2>2. \A e \in Events : outbox[e].source = 0
    BY <1>3, <1>4
  <2>3. \A e, f \in Events : outbox[e].op = outbox[f].op => e = f
    BY FirstRowsDiffer
  <2>4. \A e, f \in Events : e < f /\ outbox[e].op = outbox[f].op => FALSE
    BY <1>1, <1>4, <2>3
  <2> QED
    BY <2>1, <2>2, <2>4 DEF Ordered
<1>10. ReplayedOnce
  BY <1>3, <1>4 DEF ReplayedOnce
<1>11. Counted
  <2> SUFFICES ASSUME NEW o \in Operations, NEW c \in Commands, NEW v \in Nat
               PROVE  Cardinality(Republications(o, c, v)) <= MaxRecoveries
    BY DEF Counted
  <2>1. Republications(o, c, v) = {}
    BY <1>3, <1>4 DEF Republications
  <2>2. Cardinality(Republications(o, c, v)) = 0
    BY <2>1, FS_EmptySet
  <2> QED
    BY <2>2, DeliveryAssumption
<1>12. Marked
  BY <1>7 DEF Marked
<1>13. Journal
  BY <1>8, <1>9, <1>10, <1>11, <1>12 DEF Journal
<1>14. Streams
  <2>1. stream = << >> /\ quarantine = << >> /\ worker = Free /\ operator = 0
    BY DEF Init
  <2>2. /\ stream \in Seq(Messages(MaxDeliveries)) /\ DOMAIN stream = {}
        /\ quarantine \in Seq(Messages(MaxInspections)) /\ DOMAIN quarantine = {}
    BY <2>1, EmptySeq
  <2>3. worker \in WorkerStates /\ worker.pc = "idle"
    BY <2>1, FreeKnown
  <2> QED
    BY <2>1, <2>2, <2>3 DEF Streams, TermIsQuarantined
<1>15. Claims
  <2>1. relay = [r \in Relays |-> Resting]
    BY DEF Init
  <2>2. relay \in [Relays -> RelayStates] /\ \A r \in Relays : relay[r].pc = "idle"
    BY <2>1, RestingKnown
  <2> QED
    BY <1>7, <2>2 DEF Claims, Claiming
<1>16. FaultTypes
  BY DeliveryAssumption DEF Init, FaultTypes
<1> QED
  BY <1>13, <1>14, <1>15, <1>16 DEF DeliveryInv

LEMMA DeliverySteps ==
  ASSUME DeliveryInv, [Next]_vars
  PROVE  DeliveryInv'
<1>1. CASE \E o \in Operations : StartCompensation(o)
  BY <1>1, StartCompensationKeeps
<1>2. CASE \E r \in Relays : Relay(r) \/ CrashRelay(r)
  <2>1. PICK r \in Relays : Relay(r) \/ CrashRelay(r)
    BY <1>2
  <2>2. CASE Scan(r)
    BY <2>2, ScanKeeps
  <2>3. CASE RecoverCandidate(r)
    BY <2>3, RecoverKeeps
  <2>4. CASE ClaimPending(r)
    BY <2>4, ClaimPendingKeeps
  <2>5. CASE Publish(r)
    BY <2>5, PublishKeeps
  <2>6. CASE MarkPublished(r)
    BY <2>6, MarkPublishedKeeps
  <2>7. CASE CrashRelay(r)
    BY <2>7, CrashRelayKeeps
  <2> QED
    BY <2>1, <2>2, <2>3, <2>4, <2>5, <2>6, <2>7 DEF Relay
<1>3. CASE Worker
  <2>1. CASE Fetch
    BY <2>1, FetchKeeps
  <2>2. CASE Handle
    BY <2>2, HandleKeeps
  <2>3. CASE Ack \/ Nak \/ Term
    BY <2>3, AnswersKeep
  <2>4. CASE GiveUp
    BY <2>4, GiveUpKeeps
  <2>5. CASE Quarantine
    BY <2>5, QuarantineKeeps
  <2> QED
    BY <1>3, <2>1, <2>2, <2>3, <2>4, <2>5 DEF Worker
<1>4. CASE CrashWorker
  BY <1>4, CrashWorkerKeeps
<1>5. CASE \E m \in DOMAIN stream : Lose(m)
  BY <1>5, LoseKeeps
<1>6. CASE Operator
  <2>1. CASE AckReplay
    BY <2>1, AckReplayKeeps
  <2>2. CASE \E q \in DOMAIN quarantine : Inspect(q) \/ Replay(q) \/ Discard(q)
    BY <2>2, InspectKeeps, ReplayKeeps
  <2> QED
    BY <1>6, <2>1, <2>2 DEF Operator
<1>7. CASE UNCHANGED vars
  <2>1. /\ UNCHANGED rows /\ UNCHANGED <<rows, relay>>
        /\ UNCHANGED <<stream, quarantine, worker, operator>> /\ faults' = faults
    BY <1>7 DEF vars, rows
  <2>2. Events' = Events
    BY <2>1, JournalStands DEF DeliveryInv
  <2>3. Streams'
    BY <2>1, <2>2, StreamsStand DEF DeliveryInv
  <2>4. Carried /\ FaultTypes'
    BY <2>1 DEF Carried, DeliveryInv, FaultTypes
  <2> QED
    BY <2>1, <2>3, <2>4, StreamsAlone
<1> QED
  BY <1>1, <1>2, <1>3, <1>4, <1>5, <1>6, <1>7 DEF Next

\* The rows of the journal, the two streams with their worker and operator, and the
\* claims of the relays stay consistent through every interleaving of scans,
\* publications, handlers, crashes, lost messages and operator commands: for any number
\* of operations, relays, deliveries and republications
THEOREM DeliveryInvariance == Spec => []DeliveryInv
<1>1. Init => DeliveryInv
  BY DeliveryStarts
<1>2. DeliveryInv /\ [Next]_vars => DeliveryInv'
  BY DeliverySteps
<1> QED
  BY <1>1, <1>2, PTL DEF Spec

\* Rows, messages, relays and worker keep their types: no message is delivered more than
\* MaxDeliveries times, none is inspected more than MaxInspections times
THEOREM DeliveryTyped == Spec => []TypeOK
<1>1. DeliveryInv => TypeOK
  BY DEF DeliveryInv, Journal, JournalTypes, Streams, Claims, FaultTypes, TypeOK, Lines,
         RelayStates, WorkerStates
<1> QED
  BY <1>1, DeliveryInvariance, PTL

\* An outbox row is marked PUBLISHED once, and never before a message for it is in the
\* stream: the lock of list_pending_for_claim keeps any number of relays apart, and a
\* crash between the publication and the mark leaves the row pending
THEOREM RowsPublishedOnce == Spec => []PublishedOnce
<1>1. DeliveryInv => PublishedOnce
  BY DEF DeliveryInv, Journal, Marked, Claims, InStream, PublishedOnce
<1> QED
  BY <1>1, DeliveryInvariance, PTL

\* recover_stranded replays no row twice, however many relays found it in their scans:
\* after the replay it is not the latest row of its operation any more
THEOREM RowsReplayedOnce == Spec => []ReplayedOnce
<1>1. DeliveryInv => ReplayedOnce
  BY DEF DeliveryInv, Journal
<1> QED
  BY <1>1, DeliveryInvariance, PTL

\* However many relays recover at once, one command of one operation version is
\* republished at most MaxRecoveries times
THEOREM ReplaysBounded == Spec => []ReplayBudget
<1>1. DeliveryInv => ReplayBudget
  <2> SUFFICES ASSUME DeliveryInv, NEW e \in Events
               PROVE  Cardinality(Republications(outbox[e].op, outbox[e].cmd, outbox[e].version))
                        <= MaxRecoveries
    BY DEF ReplayBudget
  <2>1. outbox[e].op \in Operations /\ outbox[e].cmd \in Commands /\ outbox[e].version \in Nat
    BY LinesKnown DEF DeliveryInv
  <2> QED
    BY <2>1 DEF DeliveryInv, Journal, Counted
<1> QED
  BY <1>1, DeliveryInvariance, PTL

\* No message is terminated without its diagnostic in the quarantine stream, although the
\* worker may crash and the publication of the diagnostic may fail
THEOREM TerminatedKept == Spec => []TermIsQuarantined
<1>1. DeliveryInv => TermIsQuarantined
  BY DEF DeliveryInv, Streams
<1> QED
  BY <1>1, DeliveryInvariance, PTL

\* When recovery gives an operation up, the row it recovers is the latest one of the
\* operation, and published; the other rows of this version come before it
LEMMA GivenUpAfterAll ==
  ASSUME DeliveryInv, NEW r \in Relays, RecoverCandidate(r),
         NEW o \in Operations, op'[o] # op[o],
         NEW f \in Events, outbox[f].op = o, outbox[f].version = op[o].version
  PROVE  Published(f)
<1> DEFINE e == Head(relay[r].todo)
<1>1. /\ Required(e)
      /\ op' = [op EXCEPT ![outbox[e].op] =
                  [state |-> Target(ExhaustedKind[op[outbox[e].op].state]),
                   version |-> op[outbox[e].op].version + 1]]
  BY DEF RecoverCandidate, RecoverUpTo
<1> HIDE DEF e
<1>2. Journal /\ op \in [Operations -> [state : OperationStates, version : Nat]]
  BY DEF DeliveryInv, Journal, JournalTypes
<1>3. outbox[e].op = o
  BY <1>1, <1>2
<1>4. Published(e) /\ e = LatestEvent(outbox[e].op)
  BY <1>1 DEF Required
<1>5. e \in Events
  BY <1>2, <1>4 DEF Journal, Marked, Published
<1>6. f <= e
  BY <1>2, <1>3, <1>4, <1>5, LatestKnown DEF Journal
<1>7. /\ e \in Nat /\ f \in Nat /\ outbox[e].version \in Nat /\ outbox[f].version \in Nat
      /\ outbox[e].version <= op[outbox[e].op].version
  BY <1>2, <1>5, LinesKnown
<1>8. CASE f = e
  BY <1>4, <1>8
<1>9. CASE f < e
  <2>1. /\ outbox[f].version <= outbox[e].version
        /\ outbox[f].version = outbox[e].version => Published(f)
    BY <1>2, <1>3, <1>5, <1>9 DEF Journal, Ordered
  <2>2. outbox[f].version = outbox[e].version
    BY <1>3, <1>7, <2>1
  <2> QED
    BY <2>1, <2>2
<1> QED
  BY <1>6, <1>7, <1>8, <1>9

\* recover_stranded gives an operation up only when every row of its current version was
\* published: no relay's pending republication is overtaken by the decision of another
THEOREM GivenUpInTurn == Spec => ExhaustedAfterAllTries
<1> DEFINE Fair == \A o \in Operations :
                     (op'[o] # op[o] /\ relay' # relay) =>
                       \A e \in Events : (outbox[e].op = o /\ outbox[e].version = op[o].version)
                                           => Published(e)
<1>1. ASSUME Next PROVE op' = op \/ relay' = relay \/ \E r \in Relays : RecoverCandidate(r)
  <2>1. CASE \E o \in Operations : StartCompensation(o)
    BY <2>1 DEF StartCompensation
  <2>2. CASE \E r \in Relays : Relay(r) \/ CrashRelay(r)
    <3>1. PICK r \in Relays : Relay(r) \/ CrashRelay(r)
      BY <2>2
    <3> QED
      BY <3>1 DEF Relay, CrashRelay, Scan, ScanUpTo, ClaimPending, Publish, MarkPublished, rows
  <2>3. CASE Worker
    BY <2>3 DEF Worker, Fetch, Handle, Ack, Nak, GiveUp, Quarantine, Term, Settle, rows
  <2>4. CASE CrashWorker
    BY <2>4 DEF CrashWorker
  <2>5. CASE \E m \in DOMAIN stream : Lose(m)
    BY <2>5 DEF Lose
  <2>6. CASE Operator
    BY <2>6 DEF Operator, AckReplay, Inspect, Replay, Discard
  <2> QED
    BY <1>1, <2>1, <2>2, <2>3, <2>4, <2>5, <2>6 DEF Next
<1>2. DeliveryInv /\ [Next]_vars => [Fair]_vars
  <2> SUFFICES ASSUME DeliveryInv, Next, NEW o \in Operations, op'[o] # op[o], relay' # relay,
                      NEW e \in Events, outbox[e].op = o, outbox[e].version = op[o].version
               PROVE  Published(e)
    OBVIOUS
  <2>1. PICK r \in Relays : RecoverCandidate(r)
    BY <1>1
  <2> QED
    BY <2>1, GivenUpAfterAll
<1> HIDE DEF Fair
<1>3. ([][Fair]_vars) => ExhaustedAfterAllTries
  BY DEF Fair, ExhaustedAfterAllTries
<1> QED
  BY <1>2, <1>3, DeliveryInvariance, PTL DEF Spec
===============================================================================
