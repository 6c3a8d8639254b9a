-------------------------- MODULE RunOutputProofs --------------------------
(***************************************************************************)
(* Proofs about a stage and the run that collects its events, for any      *)
(* texts, sizes and numbers of events.  InOrder and NothingLost are not    *)
(* inductive: they need to know where the one event between the two        *)
(* goroutines is (Handover), and that a pump that is gone while the        *)
(* context is live has read everything.                                    *)
(*                                                                         *)
(* The last part is about the reader of the stream that such a run is sent *)
(* to the browser with (EventReader).                                      *)
(***************************************************************************)
EXTENDS RunOutput, EventReader, FiniteSetTheorems, SequenceTheorems,
        WellFoundedInduction, TLAPS

\* Where the next event is while the main goroutine selects.
Handover ==
  /\ read <= Len(emitted) /\ fwd <= read /\ fwd <= Len(out)
  /\ main = "select" =>
       /\ limit = "none" /\ Len(out) = fwd
       /\ pump = "next" => read = fwd
       /\ pump = "offer" => read = fwd + 1
       /\ pump = "gone" /\ runErr = "none" =>
            fwd = Len(emitted) /\ ~srcOpen

\* What came from the source, and what comes behind it.
Order ==
  /\ \A k \in 1..fwd : out[k] = emitted[k]
  /\ main = "finalize" => limit # "none" /\ finalizer /\ Len(out) > fwd
  /\ Len(out) > fwd =>
       IF limit = "none"
       THEN Len(out) = fwd + 1 /\ out[fwd + 1] = Plain("error") /\ main = "done"
       ELSE out[fwd + 1] = Plain("status")
  /\ Len(out) > fwd + 1 => finalizer
  /\ main = "done" /\ Len(out) = fwd => ~srcOpen /\ fwd = Len(emitted)

\* Every text seen is an item, unless there was no room.
SeenKept ==
  /\ \A t \in seen :
       chars = EvidenceMax \/ \E j \in DOMAIN evidence : evidence[j].text = t
  /\ \A k \in 1..fwd :
       out[k].kind = "text" => chars = EvidenceMax \/ out[k].text \in seen

IInv == TypeOK /\ Handover /\ Order /\ SeenKept

-----------------------------------------------------------------------------
LEMMA EventFacts ==
  /\ Emitted \subseteq Events
  /\ Summaries \subseteq Emitted
  /\ Plain("error") \in Events /\ Plain("status") \in Events
  /\ Plain("fallback") \in Events
  /\ Plain("error").kind = "error" /\ Plain("status").kind = "status"
  /\ Plain("fallback").kind = "fallback"
  /\ \A e \in Events : e.kind = "text" => e.text \in Texts
  /\ \A e \in Events : e.kind = "error" => e = Plain("error")
BY DEF Events, Emitted, Summaries, Plain, Says, Kinds

LEMMA Appended ==
  ASSUME NEW S, NEW s \in Seq(S), NEW e \in S
  PROVE  /\ Append(s, e) \in Seq(S)
         /\ Len(s) \in Nat /\ Len(Append(s, e)) = Len(s) + 1
         /\ DOMAIN Append(s, e) = 1..(Len(s) + 1) /\ DOMAIN s = 1..Len(s)
         /\ \A k \in 1..Len(s) : Append(s, e)[k] = s[k]
         /\ Append(s, e)[Len(s) + 1] = e
<1> QED
  BY AppendProperties, LenProperties

LEMMA InitIInv == Init => IInv
<1> SUFFICES ASSUME Init PROVE IInv
  OBVIOUS
<1>1. <<>> \in Seq(Emitted) /\ <<>> \in Seq(Events)
      /\ <<>> \in Seq([text : Texts, len : Nat]) /\ Len(<<>>) = 0
  BY EmptySeq
<1>2. chars \in 0..EvidenceMax /\ read \in Nat /\ fwd \in Nat
  BY SizeAssumption DEF Init
<1>3. TypeOK
  BY <1>1, <1>2 DEF Init, TypeOK
<1> QED
  BY <1>1, <1>3 DEF IInv, Init, Handover, Order, SeenKept

\* Collecting keeps the evidence within its bound and complete.
LEMMA CollectStep ==
  ASSUME TypeOK, SeenKept, NEW e \in Events, Collect(e)
  PROVE  /\ evidence' \in Seq([text : Texts, len : Nat])
         /\ chars' \in 0..EvidenceMax /\ seen' \subseteq Texts
         /\ seen \subseteq seen'
         /\ chars = EvidenceMax => chars' = EvidenceMax
         /\ e.kind = "text" => chars' = EvidenceMax \/ e.text \in seen'
         /\ \A t \in seen' :
              chars' = EvidenceMax \/ \E j \in DOMAIN evidence' : evidence'[j].text = t
<1> USE SizeAssumption DEF TypeOK, SeenKept
<1>1. CASE e.kind # "text" \/ e.text \in seen \/ chars >= EvidenceMax
  BY <1>1 DEF Collect, kept
<1>2. CASE ~(e.kind # "text" \/ e.text \in seen \/ chars >= EvidenceMax)
  <2> DEFINE len == Least(Least(Size[e.text], ItemMax), EvidenceMax - chars)
  <2>1. e.text \in Texts
    BY <1>2, EventFacts
  <2>2. len \in Nat /\ chars + len <= EvidenceMax
    BY <1>2, <2>1 DEF Least
  <2>3. /\ seen' = seen \cup {e.text}
        /\ evidence' = Append(evidence, [text |-> e.text, len |-> len])
        /\ chars' = chars + len
    BY <1>2 DEF Collect
  <2> DEFINE item == [text |-> e.text, len |-> len]
  <2>4. item \in [text : Texts, len : Nat] /\ item.text = e.text
    BY <2>1, <2>2
  <2> HIDE DEF len, item
  <2>5. evidence' = Append(evidence, item)
    BY <2>3 DEF item
  <2>6. /\ evidence' \in Seq([text : Texts, len : Nat])
        /\ Len(evidence) \in Nat
        /\ DOMAIN evidence = 1..Len(evidence)
        /\ DOMAIN evidence' = 1..(Len(evidence) + 1)
        /\ \A k \in 1..Len(evidence) : evidence'[k] = evidence[k]
        /\ evidence'[Len(evidence) + 1] = item
    BY <2>4, <2>5, Appended
  <2>7. \A t \in seen' : chars' = EvidenceMax
                         \/ \E j \in DOMAIN evidence' : evidence'[j].text = t
    <3> SUFFICES ASSUME NEW t \in seen', chars' # EvidenceMax
                 PROVE  \E j \in DOMAIN evidence' : evidence'[j].text = t
      OBVIOUS
    <3>1. CASE t = e.text
      <4>1. Len(evidence) + 1 \in DOMAIN evidence'
        BY <2>6
      <4>2. evidence'[Len(evidence) + 1].text = t
        BY <3>1, <2>4, <2>6
      <4> QED
        BY <4>1, <4>2
    <3>2. CASE t \in seen
      <4>1. chars # EvidenceMax
        BY <1>2
      <4>2. PICK j \in DOMAIN evidence : evidence[j].text = t
        BY <3>2, <4>1
      <4>3. j \in 1..Len(evidence) /\ j \in 1..(Len(evidence) + 1)
        BY <2>6
      <4>4. evidence'[j].text = t
        BY <2>6, <4>2, <4>3
      <4> QED
        BY <2>6, <4>3, <4>4
    <3> QED
      BY <3>1, <3>2, <2>3
  <2>8. chars' \in 0..EvidenceMax /\ chars # EvidenceMax
    BY <1>2, <2>2, <2>3
  <2>9. seen' \subseteq Texts /\ seen \subseteq seen' /\ e.text \in seen'
    BY <2>1, <2>3
  <2> QED
    BY <2>6, <2>7, <2>8, <2>9
<1> QED
  BY <1>1, <1>2

\* Steps that touch neither the output nor the main goroutine: the source, the
\* contexts and the pump.
LEMMA OutsideStep ==
  ASSUME IInv,
         \/ \E e \in Emitted : Emit(e)
         \/ CloseSource \/ Deadline
         \/ EndParent("cancelled") \/ EndParent("expired") \/ Pump
  PROVE  IInv'
<1> USE DEF IInv, TypeOK, source, kept
<1>1. ASSUME NEW e \in Emitted, Emit(e) PROVE IInv'
  <2>1. /\ emitted' \in Seq(Emitted) /\ Len(emitted) \in Nat
        /\ Len(emitted') = Len(emitted) + 1
        /\ \A k \in 1..Len(emitted) : emitted'[k] = emitted[k]
    BY <1>1, Appended DEF Emit
  <2>2. /\ main = "select" /\ srcOpen
        /\ UNCHANGED <<timed, finalizer, parent, runErr, srcOpen, pump, read,
                       main, limit, out, fwd, evidence, chars, seen, finSeen>>
    BY <1>1 DEF Emit
  <2>3. TypeOK'
    BY <2>1, <2>2
  <2>4. Handover'
    BY <2>1, <2>2 DEF Handover
  <2>5. Order'
    <3>1. fwd \in Nat /\ fwd <= Len(emitted) /\ Len(out) = fwd
      BY <2>1, <2>2 DEF Handover
    <3>2. \A k \in 1..fwd : out[k] = emitted[k]
      BY DEF Order
    <3>3. \A k \in 1..fwd : k \in 1..Len(emitted)
      BY <3>1, <2>1
    <3>4. \A k \in 1..fwd' : out'[k] = emitted'[k]
      BY <3>2, <3>3, <2>1, <2>2
    <3> QED
      BY <3>1, <3>4, <2>2 DEF Order
  <2>6. SeenKept'
    BY <2>2 DEF SeenKept
  <2> QED
    BY <2>3, <2>4, <2>5, <2>6
<1>2. ASSUME CloseSource PROVE IInv'
  <2>1. TypeOK'
    BY <1>2 DEF CloseSource
  <2>2. Handover'
    BY <1>2 DEF CloseSource, Handover
  <2>3. Order'
    BY <1>2 DEF CloseSource, Handover, Order
  <2>4. SeenKept'
    BY <1>2 DEF CloseSource, SeenKept
  <2> QED BY <2>1, <2>2, <2>3, <2>4
<1>3. ASSUME Deadline PROVE IInv'
  BY <1>3 DEF Deadline, DoneFor, Handover, Order, SeenKept
<1>4. ASSUME NEW how \in {"cancelled", "expired"}, EndParent(how) PROVE IInv'
  BY <1>4 DEF EndParent, DoneFor, Handover, Order, SeenKept
<1>5. ASSUME Pump PROVE IInv'
  <2>1. /\ UNCHANGED <<timed, finalizer, parent, runErr, emitted, srcOpen, main,
                       limit, out, fwd, evidence, chars, seen, finSeen>>
        /\ pump' \in {"next", "offer", "gone"} /\ read' \in Nat
    BY <1>5 DEF Pump, Take, SourceEnds, Drop
  <2>3. TypeOK'
    BY <2>1
  <2>4. Order' /\ SeenKept'
    BY <2>1 DEF Order, SeenKept
  <2>2. Handover'
    BY <1>5, LenProperties DEF Pump, Take, SourceEnds, Drop, Handover
  <2> QED
    BY <2>2, <2>3, <2>4
<1> QED
  BY <1>1, <1>2, <1>3, <1>4, <1>5

\* The event on the channel is the next one to go out.
LEMMA Offered ==
  ASSUME IInv, main = "select", pump = "offer"
  PROVE  /\ read = fwd + 1 /\ Len(out) = fwd /\ read \in 1..Len(emitted)
         /\ emitted[read] \in Emitted /\ emitted[read] \in Events
         /\ fwd \in Nat
<1>1. /\ read = fwd + 1 /\ Len(out) = fwd /\ fwd \in Nat /\ Len(emitted) \in Nat
      /\ read <= Len(emitted)
  BY LenProperties DEF IInv, TypeOK, Handover
<1>2. emitted[read] \in Emitted
  BY <1>1, ElementOfSeq DEF IInv, TypeOK
<1> QED
  BY <1>1, <1>2, EventFacts

LEMMA ForwardStep == IInv /\ Forward => IInv'
<1> SUFFICES ASSUME IInv, Forward PROVE IInv'
  OBVIOUS
<1> USE DEF IInv, source, kept
<1> DEFINE e == emitted[read]
<1>1. /\ main = "select" /\ pump = "offer" /\ pump' = "next"
      /\ out' = Append(out, e) /\ fwd' = fwd + 1 /\ Collect(e)
      /\ UNCHANGED <<timed, finalizer, parent, runErr, emitted, srcOpen, read,
                     main, limit, finSeen>>
  BY DEF Forward
<1>2. /\ read = fwd + 1 /\ Len(out) = fwd /\ read \in 1..Len(emitted)
      /\ e \in Events /\ fwd \in Nat
  BY <1>1, Offered
<1> HIDE DEF e
<1>3. /\ out' \in Seq(Events) /\ Len(out') = fwd + 1
      /\ \A k \in 1..fwd : out'[k] = out[k]
      /\ out'[fwd + 1] = e
  BY <1>1, <1>2, Appended DEF TypeOK
<1>4. /\ evidence' \in Seq([text : Texts, len : Nat])
      /\ chars' \in 0..EvidenceMax /\ seen' \subseteq Texts
      /\ seen \subseteq seen'
      /\ chars = EvidenceMax => chars' = EvidenceMax
      /\ e.kind = "text" => chars' = EvidenceMax \/ e.text \in seen'
      /\ \A t \in seen' :
           chars' = EvidenceMax \/ \E j \in DOMAIN evidence' : evidence'[j].text = t
  BY <1>1, <1>2, CollectStep
<1>5. TypeOK'
  BY <1>1, <1>2, <1>3, <1>4 DEF TypeOK
<1>6. Handover'
  BY <1>1, <1>2, <1>3 DEF Handover
<1>7. Order'
  BY <1>1, <1>2, <1>3 DEF Order, Handover, e
<1>8. SeenKept'
  <2>1. ASSUME NEW k \in 1..fwd', out'[k].kind = "text"
        PROVE  chars' = EvidenceMax \/ out'[k].text \in seen'
    <3>1. CASE k = fwd + 1
      BY <3>1, <2>1, <1>3, <1>4
    <3>2. CASE k \in 1..fwd
      BY <3>2, <2>1, <1>3, <1>4 DEF SeenKept
    <3> QED
      BY <3>1, <3>2, <1>1, <1>2
  <2> QED
    BY <2>1, <1>4 DEF SeenKept
<1> QED
  BY <1>5, <1>6, <1>7, <1>8

\* The select is left with one event behind those of the source: an error, or
\* the announcement of a limit.
LEMMA LeaveStep ==
  ASSUME IInv, main = "select",
         UNCHANGED <<timed, finalizer, parent, emitted, srcOpen, read, fwd,
                     evidence, chars, seen, finSeen>>,
         pump' \in {"next", "offer", "gone"},
         runErr' \in {"none", "cancelled", "deadline"},
         \/ out' = Append(out, Plain("error")) /\ main' = "done" /\ UNCHANGED limit
         \/ \E kind \in {"timeout", "iterations"} : AnnounceLimit(kind)
  PROVE  IInv'
<1> USE DEF IInv
<1>1. Len(out) = fwd /\ limit = "none" /\ fwd \in Nat
  BY DEF Handover, TypeOK
<1>2. PICK e \in Events :
        /\ out' = Append(out, e)
        /\ \/ e = Plain("error") /\ main' = "done" /\ limit' = "none"
           \/ /\ e = Plain("status") /\ limit' \in {"timeout", "iterations"}
              /\ main' = IF finalizer THEN "finalize" ELSE "done"
  BY <1>1, EventFacts DEF AnnounceLimit
<1>3. /\ out' \in Seq(Events) /\ Len(out') = fwd + 1
      /\ \A k \in 1..fwd : out'[k] = out[k]
      /\ out'[fwd + 1] = e
  BY <1>1, <1>2, Appended DEF TypeOK
<1>4. TypeOK'
  BY <1>2, <1>3 DEF TypeOK
<1>5. Handover'
  BY <1>1, <1>2, <1>3 DEF Handover
<1>6. Order'
  <2>1. \A k \in 1..fwd' : out'[k] = emitted'[k]
    BY <1>1, <1>3 DEF Order
  <2>2. CASE e = Plain("error") /\ main' = "done" /\ limit' = "none"
    BY <2>1, <2>2, <1>1, <1>3 DEF Order
  <2>3. CASE /\ e = Plain("status") /\ limit' \in {"timeout", "iterations"}
             /\ main' = IF finalizer THEN "finalize" ELSE "done"
    <3>1. /\ main' \in {"finalize", "done"} /\ main' = "finalize" => finalizer'
          /\ limit' # "none"
      BY <2>3
    <3> QED
      BY <2>1, <2>3, <3>1, <1>1, <1>3 DEF Order
  <2> QED
    BY <2>2, <2>3, <1>2
<1>7. SeenKept'
  BY <1>1, <1>3 DEF SeenKept
<1> QED
  BY <1>4, <1>5, <1>6, <1>7

\* The finalizer's events and the fallback come behind the announcement.
LEMMA FinalStep ==
  ASSUME IInv, main = "finalize", main' \in {"finalize", "done"},
         UNCHANGED <<timed, finalizer, parent, runErr, emitted, srcOpen, pump,
                     read, limit, fwd, evidence, chars, seen>>,
         finSeen' \in BOOLEAN,
         out' = out \/ \E e \in Events : out' = Append(out, e)
  PROVE  IInv'
<1> USE DEF IInv
<1>1. /\ Len(out) > fwd /\ limit # "none" /\ finalizer /\ fwd \in Nat
      /\ Len(out) \in Nat
  BY LenProperties DEF Order, TypeOK
<1>2. /\ out' \in Seq(Events) /\ Len(out') >= Len(out)
      /\ \A k \in 1..Len(out) : out'[k] = out[k]
  <2>1. CASE out' = out
    BY <2>1, <1>1 DEF TypeOK
  <2>2. ASSUME NEW e \in Events, out' = Append(out, e)
        PROVE  /\ out' \in Seq(Events) /\ Len(out') >= Len(out)
               /\ \A k \in 1..Len(out) : out'[k] = out[k]
    BY <2>2, <1>1, Appended DEF TypeOK
  <2> QED
    BY <2>1, <2>2
<1>3. Len(out') \in Nat
  BY <1>2, LenProperties
<1>4. TypeOK'
  BY <1>2 DEF TypeOK
<1>5. Handover'
  BY <1>1, <1>2, <1>3 DEF Handover
<1>6. Order'
  <2>1. \A k \in 1..fwd' : out'[k] = emitted'[k]
    BY <1>1, <1>2 DEF Order
  <2>2. out'[fwd + 1] = Plain("status")
    BY <1>1, <1>2 DEF Order
  <2> QED
    BY <1>1, <1>2, <1>3, <2>1, <2>2 DEF Order
<1>7. SeenKept'
  BY <1>1, <1>2 DEF SeenKept
<1> QED
  BY <1>4, <1>5, <1>6, <1>7

LEMMA MainStep == IInv /\ Main => IInv'
<1> SUFFICES ASSUME IInv, Main PROVE IInv'
  OBVIOUS
<1> USE DEF source, kept
<1>1. CASE Forward
  BY <1>1, ForwardStep
<1>2. CASE IterationLimit
  BY <1>2, LeaveStep DEF IterationLimit, DoneFor, IInv, TypeOK
<1>3. CASE LateError
  BY <1>3, LeaveStep DEF LateError, IInv, TypeOK
<1>4. CASE StageEnds
  BY <1>4, LenProperties DEF StageEnds, IInv, TypeOK, Handover, Order, SeenKept
<1>5. CASE ContextEnd
  BY <1>5, LeaveStep DEF ContextEnd, IInv, TypeOK
<1> QED
  BY <1>1, <1>2, <1>3, <1>4, <1>5 DEF Main

LEMMA SummariseStep == IInv /\ Summarise => IInv'
<1> SUFFICES ASSUME IInv, Summarise PROVE IInv'
  OBVIOUS
<1> USE EventFacts DEF source, kept
<1>1. ASSUME NEW e \in Summaries \ {Plain("error")}, Finalizing(e) PROVE IInv'
  BY <1>1, FinalStep DEF Finalizing, IInv, TypeOK
<1>2. CASE FinalizerFails
  BY <1>2, FinalStep DEF FinalizerFails, Finish, IInv, TypeOK
<1>3. CASE FinalizerEnds
  BY <1>3, FinalStep DEF FinalizerEnds, Finish, IInv, TypeOK
<1> QED
  BY <1>1, <1>2, <1>3 DEF Summarise

LEMMA NextIInv == IInv /\ [Next]_vars => IInv'
<1> SUFFICES ASSUME IInv, [Next]_vars PROVE IInv'
  OBVIOUS
<1>1. CASE UNCHANGED vars
  BY <1>1 DEF vars, source, kept, IInv, TypeOK, Handover, Order, SeenKept
<1> QED
  BY <1>1, OutsideStep, MainStep, SummariseStep DEF Next

-----------------------------------------------------------------------------
(* What the stage's output looks like follows from the invariant.          *)

LEMMA Shape == IInv => InOrder /\ NothingLost /\ EvidenceKept
<1> SUFFICES ASSUME IInv PROVE InOrder /\ NothingLost /\ EvidenceKept
  OBVIOUS
<1>1. /\ fwd \in Nat /\ Len(out) \in Nat /\ Len(emitted) \in Nat
      /\ fwd <= Len(out) /\ fwd <= Len(emitted)
      /\ out \in Seq(Events) /\ emitted \in Seq(Emitted)
  BY LenProperties DEF IInv, TypeOK, Handover
<1>2. /\ Ending \in Seq(Events) /\ Len(Ending) = Len(out) - fwd
      /\ Len(out) > fwd => Ending[1] = out[fwd + 1]
  BY <1>1, SubSeqProperties DEF Ending
<1>3. SubSeq(out, 1, fwd) = SubSeq(emitted, 1, fwd)
  <2>1. /\ SubSeq(out, 1, fwd) = [k \in 1..fwd |-> out[k]]
        /\ SubSeq(emitted, 1, fwd) = [k \in 1..fwd |-> emitted[k]]
    BY <1>1
  <2>2. \A k \in 1..fwd : out[k] = emitted[k]
    BY DEF IInv, Order
  <2> QED
    BY <2>1, <2>2
<1>4. main = "select" => Ending = <<>>
  BY <1>1, <1>2, EmptySeq DEF IInv, Handover
<1>5. Len(Ending) > 0 =>
        IF limit = "none" THEN Ending = <<Plain("error")>> ELSE Ending[1] = Plain("status")
  <2>1. CASE limit # "none"
    BY <2>1, <1>1, <1>2 DEF IInv, Order
  <2>2. CASE limit = "none" /\ Len(Ending) > 0
    <3>1. Len(Ending) = 1 /\ Ending[1] = Plain("error")
      BY <2>2, <1>1, <1>2 DEF IInv, Order
    <3> QED
      BY <3>1, <2>2, <1>2
  <2> QED
    BY <2>1, <2>2
<1>6. Len(Ending) > 1 => finalizer
  BY <1>1, <1>2 DEF IInv, Order
<1>7. InOrder
  BY <1>1, <1>3, <1>4, <1>5, <1>6 DEF InOrder
<1>8. NothingLost
  <2> SUFFICES ASSUME main = "done", Ending = <<>> PROVE ~srcOpen /\ fwd = Len(emitted)
    BY DEF NothingLost
  <2>1. Len(out) = fwd
    BY <1>1, <1>2, EmptySeq
  <2> QED
    BY <2>1 DEF IInv, Order
<1>9. EvidenceKept
  BY DEF IInv, SeenKept, EvidenceKept
<1> QED
  BY <1>7, <1>8, <1>9

\* A step of the stage adds at most one event, and none after the end.
LEMMA StreamStep ==
  ASSUME IInv, [Next]_vars
  PROVE  /\ out' = out \/ \E e \in Events : out' = Append(out, e)
         /\ main = "done" => UNCHANGED <<out, main>>
<1> USE EventFacts DEF source, kept
<1>1. CASE UNCHANGED vars
  BY <1>1 DEF vars
<1>2. CASE \E e \in Emitted : Emit(e)
  BY <1>2 DEF Emit
<1>3. CASE CloseSource \/ Deadline
  BY <1>3 DEF CloseSource, Deadline
<1>4. CASE EndParent("cancelled") \/ EndParent("expired")
  BY <1>4 DEF EndParent
<1>5. CASE Pump
  BY <1>5 DEF Pump, Take, SourceEnds, Drop
<1>6. CASE Forward
  <2>1. main = "select" /\ pump = "offer" /\ out' = Append(out, emitted[read])
    BY <1>6 DEF Forward
  <2> QED
    BY <2>1, Offered
<1>7. CASE IterationLimit \/ LateError
  BY <1>7 DEF IterationLimit, LateError, AnnounceLimit
<1>8. CASE StageEnds \/ ContextEnd
  BY <1>8 DEF StageEnds, ContextEnd, AnnounceLimit
<1>9. CASE Summarise
  BY <1>9 DEF Summarise, Finalizing, FinalizerFails, FinalizerEnds, Finish
<1> QED
  BY <1>1, <1>2, <1>3, <1>4, <1>5, <1>6, <1>7, <1>8, <1>9 DEF Next, Main

-----------------------------------------------------------------------------
(* The collector.                                                          *)

\* Its output is the last text among the events taken.
Newest ==
  LET texts == {k \in 1..taken : out[k].kind = "text"}
  IN  IF texts = {} THEN output = None
      ELSE \E k \in texts : output = out[k].text /\ \A j \in texts : j <= k

RunInv == IInv /\ RunTypeOK /\ Newest /\ (collector = "done" => taken = Len(out) /\ main = "done")

LEMMA InitRunInv == RunInit => RunInv
<1> SUFFICES ASSUME RunInit PROVE RunInv
  OBVIOUS
<1>1. IInv
  BY InitIInv DEF RunInit
<1>2. Len(out) = 0 /\ taken = 0
  BY EmptySeq DEF RunInit, Init
<1>3. RunTypeOK
  <2>1. TypeOK /\ taken \in Nat /\ taken <= Len(out)
    BY <1>1, <1>2 DEF IInv
  <2> QED
    BY <2>1 DEF RunInit, RunTypeOK
<1>4. Newest
  BY <1>2 DEF RunInit, Newest
<1> QED
  BY <1>1, <1>3, <1>4 DEF RunInv, RunInit

LEMMA NextRunInv == RunInv /\ [RunNext]_runVars => RunInv'
<1> SUFFICES ASSUME RunInv, [RunNext]_runVars PROVE RunInv'
  OBVIOUS
<1>1. /\ out \in Seq(Events) /\ Len(out) \in Nat /\ taken \in Nat /\ taken <= Len(out)
  BY LenProperties DEF RunInv, RunTypeOK, TypeOK
<1>2. CASE [Next]_vars /\ UNCHANGED run
  <2>1. IInv'
    BY <1>2, NextIInv DEF RunInv
  <2>2. /\ UNCHANGED <<stops, taken, output, noted, collector>>
    BY <1>2 DEF run
  <2>3. /\ Len(out') >= Len(out) /\ \A k \in 1..Len(out) : out'[k] = out[k]
    <3>1. CASE out' = out
      BY <3>1, <1>1
    <3>2. ASSUME NEW e \in Events, out' = Append(out, e)
          PROVE  Len(out') >= Len(out) /\ \A k \in 1..Len(out) : out'[k] = out[k]
      BY <3>2, <1>1, Appended
    <3> QED
      BY <3>1, <3>2, <1>2, StreamStep DEF RunInv
  <2>4. Len(out') \in Nat
    BY <2>1, LenProperties DEF IInv, TypeOK
  <2>5. RunTypeOK'
    BY <2>1, <2>2, <2>3, <2>4, <1>1 DEF RunInv, RunTypeOK, IInv
  <2>6. Newest'
    <3>1. \A k \in 1..taken : out'[k] = out[k]
      BY <2>3, <1>1
    <3> QED
      BY <3>1, <2>2 DEF RunInv, Newest
  <2>7. collector' = "done" => taken' = Len(out') /\ main' = "done"
    BY <1>2, <2>2, StreamStep DEF RunInv
  <2> QED
    BY <2>1, <2>5, <2>6, <2>7 DEF RunInv
<1>3. CASE (TakeEvent \/ TakeError \/ EndOfEvents)
  <2>1. UNCHANGED vars /\ UNCHANGED stops
    BY <1>3 DEF TakeEvent, TakeError, EndOfEvents
  <2>2. IInv' /\ UNCHANGED <<out, main>>
    BY <2>1, NextIInv DEF RunInv, vars
  <2>3. CASE TakeEvent
    <3> DEFINE e == out[taken + 1]
    <3>1. /\ collector = "running" /\ main = "done" /\ taken < Len(out)
          /\ taken' = taken + 1 /\ UNCHANGED <<collector>>
          /\ IF UsedAsOutput(e)
             THEN output' = Content(e) /\ noted' = FALSE
             ELSE UNCHANGED <<output, noted>>
      BY <2>3 DEF TakeEvent
    <3>2. e \in Events
      BY <1>1, <3>1, ElementOfSeq
    <3>3. UsedAsOutput(e) <=> e.kind = "text"
      BY DEF UsedAsOutput, IsStatus
    <3>4. e.kind = "text" => Content(e) = e.text /\ e.text \in Texts
      BY <3>2, EventFacts DEF Content
    <3> HIDE DEF e
    <3>5. RunTypeOK'
      <4>1. taken' \in Nat /\ taken' <= Len(out')
        BY <3>1, <2>2, <1>1
      <4>2. output' \in Texts \cup {None, "fallback"} /\ noted' \in BOOLEAN
        <5>1. CASE UsedAsOutput(e)
          BY <5>1, <3>1, <3>3, <3>4
        <5>2. CASE ~UsedAsOutput(e)
          BY <5>2, <3>1 DEF RunInv, RunTypeOK
        <5> QED
          BY <5>1, <5>2
      <4>3. TypeOK' /\ stops' \in BOOLEAN /\ collector' \in {"running", "done", "failed", "transfer"}
        BY <3>1, <2>1, <2>2 DEF RunInv, RunTypeOK, IInv
      <4> QED
        BY <4>1, <4>2, <4>3 DEF RunTypeOK
    <3>6. Newest'
      <4>1. CASE e.kind = "text"
        <5>1. taken + 1 \in {k \in 1..taken' : out'[k].kind = "text"}
              /\ output' = out'[taken + 1].text
          BY <4>1, <3>1, <3>3, <3>4, <2>2, <1>1 DEF e
        <5> QED
          BY <5>1, <3>1, <1>1 DEF Newest
      <4>2. CASE e.kind # "text"
        <5>1. {k \in 1..taken' : out'[k].kind = "text"} =
                {k \in 1..taken : out[k].kind = "text"}
          BY <4>2, <3>1, <2>2, <1>1 DEF e
        <5>2. output' = output
          BY <4>2, <3>1, <3>3
        <5> QED
          BY <5>1, <5>2, <2>2 DEF RunInv, Newest
      <4> QED
        BY <4>1, <4>2
    <3> QED
      BY <3>1, <3>5, <3>6, <2>2 DEF RunInv
  <2>4. CASE TakeError
    <3>1. /\ taken < Len(out) /\ taken' = taken + 1 /\ out[taken + 1].kind = "error"
          /\ collector = "running" /\ collector' \in {"running", "failed", "transfer"}
          /\ noted' \in BOOLEAN /\ output' = output
      BY <2>4 DEF TakeError, RunInv, RunTypeOK
    <3>2. RunTypeOK'
      BY <3>1, <2>1, <2>2, <1>1 DEF RunInv, RunTypeOK, IInv
    <3>3. {k \in 1..taken' : out'[k].kind = "text"} = {k \in 1..taken : out[k].kind = "text"}
      BY <3>1, <2>2, <1>1
    <3>4. Newest'
      BY <3>1, <3>3, <2>2 DEF RunInv, Newest
    <3> QED
      BY <3>1, <3>2, <3>4, <2>2 DEF RunInv
  <2>5. CASE EndOfEvents
    BY <2>5, <2>1, <2>2, <1>1 DEF EndOfEvents, RunInv, RunTypeOK, IInv, Newest
  <2> QED
    BY <1>3, <2>3, <2>4, <2>5
<1> QED
  BY <1>2, <1>3 DEF RunNext, runVars

-----------------------------------------------------------------------------
\* The variables of a stage and of its collector keep their types; with them
\* the evidence keeps its bound.
THEOREM TypeCorrect == RunSpec => []RunTypeOK
<1>1. RunInv => RunTypeOK
  BY DEF RunInv
<1> QED
  BY <1>1, InitRunInv, NextRunInv, PTL DEF RunSpec

\* A stage passes its source's events on in order, and adds to them only an
\* error, or the announcement of a limit and the finalizer's events.
THEOREM StageInOrder == RunSpec => []InOrder
<1>1. RunInv => InOrder
  BY Shape DEF RunInv
<1> QED
  BY <1>1, InitRunInv, NextRunInv, PTL DEF RunSpec

\* A stage that reports neither an error nor a limit has passed on everything.
THEOREM StageLosesNothing == RunSpec => []NothingLost
<1>1. RunInv => NothingLost
  BY Shape DEF RunInv
<1> QED
  BY <1>1, InitRunInv, NextRunInv, PTL DEF RunSpec

\* Every conclusion that went out is in the evidence, or the evidence is full.
THEOREM StageKeepsEvidence == RunSpec => []EvidenceKept
<1>1. RunInv => EvidenceKept
  BY Shape DEF RunInv
<1> QED
  BY <1>1, InitRunInv, NextRunInv, PTL DEF RunSpec

\* The answer of a run is the last conclusion that was sent.
THEOREM RunAnswers == RunSpec => []AnswerIsNewest
<1>1. RunInv => AnswerIsNewest
  <2> SUFFICES ASSUME RunInv, collector = "done" PROVE AnswerIsNewest
    BY DEF AnswerIsNewest
  <2>1. taken = Len(out) /\ DOMAIN out = 1..Len(out)
    BY LenProperties DEF RunInv, RunTypeOK, TypeOK
  <2> QED
    BY <2>1 DEF RunInv, Newest, AnswerIsNewest
<1> QED
  BY <1>1, InitRunInv, NextRunInv, PTL DEF RunSpec

-----------------------------------------------------------------------------
(***************************************************************************)
(* The reader of a run's stream, for any number of envelopes and wherever  *)
(* the network cuts the text.  That envelopes arrive in order and once is  *)
(* inductive only together with the text: buffer and wire are what follows *)
(* the lines that were read, and an unfinished line is in the buffer from  *)
(* its first character on (InText).                                        *)
(***************************************************************************)

Chars == [line : Nat, half : 0 .. 2]

\* The character at place p of the whole text, four to an envelope.
At(p) ==
  LET k == (p + 3) \div 4
  IN  IF p = 4 * k - 3 THEN [line |-> k, half |-> 1]
      ELSE IF p = 4 * k - 2 THEN [line |-> k, half |-> 2]
      ELSE Newline

\* How much of the text has been taken out of the buffer.
Off == 4 * Len(sent) - Len(wire) - Len(buffer)

InText ==
  /\ sent \in Seq([type : Types, event : Event]) /\ Len(sent) > 0
  /\ wire \in Seq(Chars) /\ buffer \in Seq(Chars)
  /\ Len(parsed) \in Nat /\ Len(parsed) <= Len(sent)
  /\ parsed = [k \in 1 .. Len(parsed) |-> k]
  /\ Off \in Nat /\ Off \in {4 * Len(parsed), 4 * Len(parsed) - 1}
  /\ \A i \in 1 .. Len(buffer) : buffer[i] = At(Off + i) /\ buffer[i] # Newline
  /\ \A i \in 1 .. Len(wire) : wire[i] = At(Off + Len(buffer) + i)

\* Only the last envelope is final, and interrupts are what it said of asks.
Heard ==
  /\ asks \in BOOLEAN /\ interrupts \in BOOLEAN
  /\ reader \in {"reading", "returned", "failed"}
  /\ \A k \in DOMAIN sent : sent[k].type = "final" => k = Len(sent)
  /\ interrupts <=> asks /\ \E k \in 1 .. Len(parsed) : sent[k].type = "final"
  /\ reader = "returned" => Over /\ Len(parsed) = Len(sent)

ReaderInv == InText /\ Heard

\* Every place is one of four of a line.
LEMMA Places ==
  ASSUME NEW p \in Nat \ {0}
  PROVE  \E k \in Nat \ {0} : p \in {4 * k - 3, 4 * k - 2, 4 * k - 1, 4 * k}
<1> DEFINE k == (p + 3) \div 4
<1>1. k \in Nat \ {0} /\ p \in {4 * k - 3, 4 * k - 2, 4 * k - 1, 4 * k}
  OBVIOUS
<1> QED BY <1>1

LEMMA AtLine ==
  ASSUME NEW k \in Nat \ {0}
  PROVE  /\ At(4 * k - 3) = [line |-> k, half |-> 1]
         /\ At(4 * k - 2) = [line |-> k, half |-> 2]
         /\ At(4 * k - 1) = Newline
         /\ At(4 * k) = Newline
<1>1. /\ (4 * k - 3 + 3) \div 4 = k /\ (4 * k - 2 + 3) \div 4 = k
      /\ (4 * k - 1 + 3) \div 4 = k /\ (4 * k + 3) \div 4 = k
  OBVIOUS
<1>2. /\ At(4 * k - 3) = [line |-> k, half |-> 1]
      /\ At(4 * k - 2) = [line |-> k, half |-> 2]
  BY <1>1 DEF At
<1>3. At(4 * k - 1) = Newline /\ At(4 * k) = Newline
  BY <1>1 DEF At
<1> QED BY <1>2, <1>3

LEMMA AtKind ==
  ASSUME NEW k \in Nat \ {0}
  PROVE  /\ At(4 * k - 3) # Newline /\ At(4 * k - 2) # Newline
         /\ At(4 * k - 3).half = 1 /\ At(4 * k - 3).line = k
         /\ At(4 * k - 2).half = 2
         /\ At(4 * k - 1).half = 0 /\ At(4 * k).half = 0
<1>1. /\ [line |-> k, half |-> 1].half = 1 /\ [line |-> k, half |-> 1].line = k
      /\ [line |-> k, half |-> 2].half = 2 /\ Newline.half = 0
  BY DEF Newline
<1>2. /\ At(4 * k - 3).half = 1 /\ At(4 * k - 3).line = k
      /\ At(4 * k - 2).half = 2
      /\ At(4 * k - 1).half = 0 /\ At(4 * k).half = 0
  BY <1>1, AtLine
<1>3. At(4 * k - 3) # Newline /\ At(4 * k - 2) # Newline
  BY <1>1, <1>2
<1> QED BY <1>2, <1>3

LEMMA LineText ==
  ASSUME NEW k \in Nat \ {0}
  PROVE  /\ Text(k) \in Seq(Chars) /\ Len(Text(k)) = 4
         /\ \A i \in 1 .. 4 : Text(k)[i] = At(4 * (k - 1) + i)
<1>1. Newline \in Chars /\ [line |-> k, half |-> 1] \in Chars /\ [line |-> k, half |-> 2] \in Chars
  BY DEF Newline, Chars
<1>2. Text(k) \in Seq(Chars) /\ Len(Text(k)) = 4
  BY <1>1 DEF Text
<1>3. /\ Text(k)[1] = At(4 * k - 3) /\ Text(k)[2] = At(4 * k - 2)
      /\ Text(k)[3] = At(4 * k - 1) /\ Text(k)[4] = At(4 * k)
  BY AtLine DEF Text
<1>4. /\ 4 * (k - 1) + 1 = 4 * k - 3 /\ 4 * (k - 1) + 2 = 4 * k - 2
      /\ 4 * (k - 1) + 3 = 4 * k - 1 /\ 4 * (k - 1) + 4 = 4 * k
  OBVIOUS
<1>5. \A i \in 1 .. 4 : i = 1 \/ i = 2 \/ i = 3 \/ i = 4
  OBVIOUS
<1> HIDE DEF Text
<1> QED BY <1>2, <1>3, <1>4, <1>5

-----------------------------------------------------------------------------
(* Lines start four places apart. *)

Steps(a, c) == {a + 4 * j : j \in 1 .. c}

LEMMA StepsCount ==
  ASSUME NEW a \in Int, NEW c \in Nat
  PROVE  Cardinality(Steps(a, c)) = c
<1> DEFINE f == [j \in 1 .. c |-> a + 4 * j]
<1>1. f \in [1 .. c -> Steps(a, c)]
  BY DEF Steps
<1>2. \A i, j \in 1 .. c : f[i] = f[j] => i = j
  OBVIOUS
<1>3. \A s \in Steps(a, c) : \E j \in 1 .. c : f[j] = s
  BY DEF Steps
<1> HIDE DEF f
<1>4. f \in Bijection(1 .. c, Steps(a, c))
  BY <1>1, <1>2, <1>3 DEF Bijection, Injection, Surjection, IsInjective
<1> QED BY <1>4, FS_CountingElements DEF ExistsBijection

LEMMA NthStep ==
  ASSUME NEW a \in Int, NEW c \in Nat, NEW n \in 1 .. c
  PROVE  Nth(Steps(a, c), n) = a + 4 * n
<1>1. ASSUME NEW j \in 1 .. c
      PROVE  Cardinality({i \in Steps(a, c) : i <= a + 4 * j}) = j
  <2>1. {i \in Steps(a, c) : i <= a + 4 * j} = Steps(a, j)
    BY DEF Steps
  <2> QED BY <2>1, StepsCount
<1>2. a + 4 * n \in Steps(a, c)
  BY DEF Steps
<1>3. ASSUME NEW i \in Steps(a, c), Cardinality({s \in Steps(a, c) : s <= i}) = n
      PROVE  i = a + 4 * n
  <2>1. PICK j \in 1 .. c : i = a + 4 * j
    BY DEF Steps
  <2>2. j = n
    BY <1>1, <1>3, <2>1
  <2> QED BY <2>1, <2>2
<1> QED BY <1>1, <1>2, <1>3 DEF Nth

-----------------------------------------------------------------------------
(* What the reader finds in its text. *)

\* A text that follows m lines: behind both newlines of the last, or between.
Follows(text, off, m) ==
  /\ text \in Seq(Chars) /\ off \in Nat /\ m \in Nat
  /\ off \in {4 * m, 4 * m - 1}
  /\ \A i \in 1 .. Len(text) : text[i] = At(off + i)

LEMMA LastIs ==
  ASSUME NEW text \in Seq(Chars), NEW l \in 0 .. Len(text), l > 0 => text[l] = Newline,
         \A i \in 1 .. Len(text) : i > l => text[i] # Newline
  PROVE  LastNewline(text) = l
<1>1. Newlines(text) \subseteq 1 .. l
  BY DEF Newlines
<1>2. CASE l = 0
  BY <1>1, <1>2 DEF LastNewline
<1>3. CASE l > 0
  <2>1. l \in Newlines(text)
    BY <1>3 DEF Newlines
  <2>2. \A i \in Newlines(text) : (\A j \in Newlines(text) : j <= i) => i = l
    BY <1>1, <2>1
  <2> QED BY <1>1, <2>1, <2>2 DEF LastNewline
<1> QED BY <1>2, <1>3

\* The text ends within two characters of its last newline.
LEMMA LastOf ==
  ASSUME NEW text, NEW off, NEW m, Follows(text, off, m)
  PROVE  \E k \in Nat :
           /\ m <= k /\ 4 * k - 1 <= off + Len(text)
           /\ LastNewline(text) \in 0 .. Len(text)
           /\ off + LastNewline(text) \in {4 * k, 4 * k - 1}
           /\ \A i \in 1 .. Len(text) : i > LastNewline(text) => text[i] # Newline
<1>1. /\ text \in Seq(Chars) /\ off \in Nat /\ m \in Nat /\ Len(text) \in Nat
      /\ off = 4 * m \/ off = 4 * m - 1
  BY DEF Follows
<1>2. \A i \in 1 .. Len(text) : text[i] = At(off + i)
  BY DEF Follows
<1>3. ASSUME NEW k \in Nat, NEW l \in 0 .. Len(text), off + l = 4 * k \/ off + l = 4 * k - 1,
             \A i \in 1 .. Len(text) : i > l => text[i] # Newline
      PROVE  /\ m <= k /\ 4 * k - 1 <= off + Len(text)
             /\ LastNewline(text) = l
  <2>1. m <= k /\ 4 * k - 1 <= off + Len(text)
    BY <1>1, <1>3
  <2>2. l > 0 => text[l] = Newline
    <3> SUFFICES ASSUME l > 0 PROVE text[l] = Newline
      OBVIOUS
    <3>1. k \in Nat \ {0} /\ text[l] = At(off + l)
      BY <1>1, <1>2, <1>3
    <3>2. CASE off + l = 4 * k
      BY <3>1, <3>2, AtLine
    <3>3. CASE off + l = 4 * k - 1
      BY <3>1, <3>3, AtLine
    <3> QED BY <1>3, <3>2, <3>3
  <2>3. LastNewline(text) = l
    BY <1>1, <1>3, <2>2, LastIs
  <2> QED BY <2>1, <2>3
<1>4. \E k \in Nat, l \in 0 .. Len(text) :
        /\ off + l = 4 * k \/ off + l = 4 * k - 1
        /\ \A i \in 1 .. Len(text) : i > l => text[i] # Newline
  <2>1. CASE off + Len(text) = 0
    <3>1. off + 0 = 4 * 0 /\ 0 \in 0 .. Len(text) /\ 1 .. Len(text) = {}
      BY <1>1, <2>1
    <3> QED BY <3>1
  <2>2. CASE off + Len(text) # 0
    <3>1. PICK k \in Nat \ {0} : off + Len(text) \in {4 * k - 3, 4 * k - 2, 4 * k - 1, 4 * k}
      <4>1. off + Len(text) \in Nat \ {0}
        BY <1>1, <2>2
      <4> QED BY <4>1, Places
    <3>2. CASE off + Len(text) \in {4 * k - 1, 4 * k}
      <4>1. Len(text) \in 0 .. Len(text) /\ \A i \in 1 .. Len(text) : ~(i > Len(text))
        BY <1>1
      <4> QED BY <3>2, <4>1
    <3>3. CASE off + Len(text) = 4 * k - 3
      <4> DEFINE l == Len(text) - 1
      <4>1. l \in 0 .. Len(text) /\ off + l = 4 * (k - 1) /\ k - 1 \in Nat
            /\ \A i \in 1 .. Len(text) : i > l => i = Len(text)
        BY <1>1, <3>3
      <4>2. text[Len(text)] = At(4 * k - 3)
        <5>1. Len(text) \in 1 .. Len(text)
          BY <4>1
        <5> QED BY <1>2, <3>3, <5>1
      <4>3. \A i \in 1 .. Len(text) : i > l => text[i] # Newline
        <5>1. At(4 * k - 3) # Newline /\ At(4 * k - 2) # Newline
          BY AtKind
        <5> HIDE DEF l
        <5> QED BY <4>1, <4>2, <5>1
      <4> HIDE DEF l
      <4> QED BY <4>1, <4>3
    <3>4. CASE off + Len(text) = 4 * k - 2
      <4> DEFINE l == Len(text) - 2
      <4>1. l \in 0 .. Len(text) /\ off + l = 4 * (k - 1) /\ k - 1 \in Nat
            /\ \A i \in 1 .. Len(text) : i > l => i = Len(text) \/ i = Len(text) - 1
        BY <1>1, <3>4
      <4>2. text[Len(text)] = At(4 * k - 2) /\ text[Len(text) - 1] = At(4 * k - 3)
        <5>1. Len(text) \in 1 .. Len(text) /\ Len(text) - 1 \in 1 .. Len(text)
              /\ off + (Len(text) - 1) = 4 * k - 3
          BY <1>1, <3>4, <4>1
        <5> QED BY <1>2, <3>4, <5>1
      <4>3. \A i \in 1 .. Len(text) : i > l => text[i] # Newline
        <5>1. At(4 * k - 3) # Newline /\ At(4 * k - 2) # Newline
          BY AtKind
        <5> HIDE DEF l
        <5> QED BY <4>1, <4>2, <5>1
      <4> HIDE DEF l
      <4> QED BY <4>1, <4>3
    <3> QED BY <3>1, <3>2, <3>3, <3>4
  <2> QED BY <2>1, <2>2
<1> QED BY <1>3, <1>4

LEMMA Between ==
  ASSUME NEW m \in Nat, NEW k \in Nat, NEW j \in Nat, NEW i \in Nat, NEW off \in Nat, NEW l \in Nat,
         off = 4 * m \/ off = 4 * m - 1, off + l = 4 * k \/ off + l = 4 * k - 1
  PROVE  /\ off + i = 4 * j - 3 /\ i \in 1 .. l - 2 => j - m \in 1 .. k - m
         /\ i = 4 * j - 3 - off /\ j - m \in 1 .. k - m => i \in 1 .. l - 2
OBVIOUS

\* The lines up to the last newline are the next envelopes, each once.
LEMMA LinesAre ==
  ASSUME NEW text, NEW off, NEW m, Follows(text, off, m), NEW k \in Nat, m <= k,
         LastNewline(text) \in 0 .. Len(text), off + LastNewline(text) \in {4 * k, 4 * k - 1},
         NEW n
  PROVE  Lines(text, n) = [j \in 1 .. (k - m) |-> m + j]
<1> DEFINE a == 4 * m - 3 - off
           c == k - m
           last == LastNewline(text)
<1>1. /\ text \in Seq(Chars) /\ off \in Nat /\ m \in Nat /\ Len(text) \in Nat
      /\ off = 4 * m \/ off = 4 * m - 1
  BY DEF Follows
<1>2. \A i \in 1 .. Len(text) : text[i] = At(off + i)
  BY DEF Follows
<1>3. a \in Int /\ c \in Nat /\ last \in 0 .. Len(text) /\ (off + last = 4 * k \/ off + last = 4 * k - 1)
  BY <1>1
<1> HIDE DEF last
<1>4. ASSUME NEW i \in Starts(text, n)
      PROVE  i \in Steps(a, c)
  <2>1. i \in 1 .. last - 2 /\ text[i].half = 1
    BY DEF Starts, last
  <2>2. i \in 1 .. Len(text) /\ off + i \in Nat \ {0}
    BY <1>1, <1>3, <2>1
  <2>3. PICK j \in Nat \ {0} : off + i \in {4 * j - 3, 4 * j - 2, 4 * j - 1, 4 * j}
    BY <2>2, Places
  <2>4. off + i = 4 * j - 3
    <3>1. At(off + i).half = 1
      BY <1>2, <2>1, <2>2
    <3>2. At(4 * j - 2).half = 2 /\ At(4 * j - 1).half = 0 /\ At(4 * j).half = 0
      BY AtKind
    <3>3. off + i # 4 * j - 2 /\ off + i # 4 * j - 1 /\ off + i # 4 * j
      BY <3>1, <3>2
    <3> QED BY <2>3, <3>3
  <2>5. j - m \in 1 .. c /\ i = a + 4 * (j - m)
    BY <1>1, <1>3, <2>1, <2>4, Between
  <2> QED BY <2>5 DEF Steps
<1>5. ASSUME NEW j \in 1 .. c
      PROVE  a + 4 * j \in Starts(text, n) /\ text[a + 4 * j].line = m + j
  <2> DEFINE i == a + 4 * j
             q == m + j
  <2>1. q \in Nat \ {0} /\ off + i = 4 * q - 3 /\ off + (i + 1) = 4 * q - 2 /\ off + (i + 2) = 4 * q - 1
    BY <1>1, <1>3
  <2>2. i \in 1 .. last - 2
    <3>1. i \in Nat /\ i = 4 * q - 3 - off /\ q - m \in 1 .. k - m
      BY <1>1, <1>3
    <3> QED BY <1>1, <1>3, <2>1, <3>1, Between
  <2> HIDE DEF i, q
  <2>3. i \in 1 .. Len(text) /\ i + 1 \in 1 .. Len(text) /\ i + 2 \in 1 .. Len(text)
    BY <1>1, <1>3, <2>2
  <2>4. text[i] = At(4 * q - 3) /\ text[i + 1] = At(4 * q - 2) /\ text[i + 2] = At(4 * q - 1)
    BY <1>2, <2>1, <2>3
  <2>5. text[i].half = 1 /\ text[i].line = q /\ text[i + 1].half = 2 /\ text[i + 2] = Newline
    BY <2>1, <2>4, AtKind, AtLine
  <2>6. i \in Starts(text, n)
    BY <2>2, <2>5 DEF Starts, last
  <2> QED BY <2>5, <2>6 DEF i, q
<1> HIDE DEF a, c
<1>6. Starts(text, n) = Steps(a, c)
  BY <1>4, <1>5 DEF Steps
<1>7. Lines(text, n) = [j \in 1 .. c |-> text[Nth(Steps(a, c), j)].line]
  BY <1>3, <1>6, StepsCount DEF Lines
<1>8. \A j \in 1 .. c : text[Nth(Steps(a, c), j)].line = m + j
  BY <1>3, <1>5, NthStep
<1>9. Lines(text, n) = [j \in 1 .. c |-> m + j]
  BY <1>7, <1>8
<1> QED BY <1>9 DEF c

-----------------------------------------------------------------------------
(* The text stays where the reader believes it. *)

\* A sequence is the function of its places.
LEMMA SeqAgain ==
  ASSUME NEW S, NEW s \in Seq(S)
  PROVE  s = [k \in 1 .. Len(s) |-> s[k]]
OBVIOUS

\* What is left of a sequence.
LEMMA RestOf ==
  ASSUME NEW S, NEW s \in Seq(S), NEW l \in 0 .. Len(s)
  PROVE  /\ SubSeq(s, l + 1, Len(s)) \in Seq(S)
         /\ Len(SubSeq(s, l + 1, Len(s))) = Len(s) - l
         /\ \A i \in 1 .. Len(s) - l : SubSeq(s, l + 1, Len(s))[i] = s[l + i]
OBVIOUS

LEMMA Counted ==
  ASSUME NEW m \in Nat, NEW c \in Nat
  PROVE  [k \in 1 .. m |-> k] \o [j \in 1 .. c |-> m + j] = [k \in 1 .. (m + c) |-> k]
<1> DEFINE a == [k \in 1 .. m |-> k]
           b == [j \in 1 .. c |-> m + j]
<1>1. a \in Seq(Nat) /\ Len(a) = m /\ b \in Seq(Nat) /\ Len(b) = c
  OBVIOUS
<1>2. /\ a \o b \in Seq(Nat) /\ Len(a \o b) = m + c
      /\ \A k \in 1 .. m + c : (a \o b)[k] = IF k <= m THEN a[k] ELSE b[k - m]
  BY <1>1, ConcatProperties
<1>3. \A k \in 1 .. m + c : (a \o b)[k] = k
  BY <1>2
<1> HIDE DEF a, b
<1>4. a \o b = [k \in 1 .. m + c |-> (a \o b)[k]]
  <2> DEFINE s == a \o b
  <2>1. s \in Seq(Nat) /\ Len(s) = m + c
    BY <1>2
  <2> HIDE DEF s
  <2>2. s = [k \in 1 .. Len(s) |-> s[k]]
    BY <2>1, SeqAgain
  <2>3. s = [k \in 1 .. m + c |-> s[k]]
    BY <2>1, <2>2
  <2> QED BY <2>3 DEF s
<1>5. a \o b = [k \in 1 .. m + c |-> k]
  BY <1>3, <1>4
<1> QED BY <1>5 DEF a, b

LEMMA InitReader == ReaderInit => ReaderInv
<1> SUFFICES ASSUME ReaderInit PROVE ReaderInv
  OBVIOUS
<1>1. /\ sent = <<Envelope("session", NoEvent)>> /\ wire = Text(1) /\ buffer = <<>> /\ parsed = <<>>
      /\ asks = FALSE /\ interrupts = FALSE /\ reader = "reading"
  BY DEF ReaderInit
<1>2. NoEvent \in Event
  BY DEF NoEvent, Event
<1>3. sent \in Seq([type : Types, event : Event]) /\ Len(sent) = 1 /\ sent[1].type = "session"
  BY <1>1, <1>2 DEF Envelope, Types
<1>4. /\ wire \in Seq(Chars) /\ Len(wire) = 4 /\ \A i \in 1 .. 4 : wire[i] = At(0 + i)
  BY <1>1, LineText
<1>5. buffer \in Seq(Chars) /\ Len(buffer) = 0 /\ Len(parsed) = 0 /\ parsed = [k \in 1 .. 0 |-> k]
  BY <1>1
<1>6. Off = 0
  BY <1>3, <1>4, <1>5 DEF Off
<1>7. InText
  BY <1>3, <1>4, <1>5, <1>6 DEF InText
<1>8. Heard
  <2>1. DOMAIN sent = {1} /\ sent[1].type # "final" /\ 1 .. Len(parsed) = {}
    BY <1>3, <1>5
  <2> QED BY <1>1, <1>3, <2>1 DEF Heard
<1> QED BY <1>7, <1>8 DEF ReaderInv

\* An envelope is written behind all others.
LEMMA WriteText ==
  ASSUME InText, NEW type \in Types, NEW event \in Event, Write(type, event)
  PROVE  /\ InText'
         /\ Len(sent') = Len(sent) + 1 /\ sent'[Len(sent) + 1].type = type
         /\ \A k \in 1 .. Len(sent) : sent'[k] = sent[k]
<1> DEFINE L == Len(sent)
<1>1. /\ sent' = Append(sent, Envelope(type, event)) /\ wire' = wire \o Text(L + 1)
      /\ buffer' = buffer /\ parsed' = parsed
  BY DEF Write
<1>2. /\ sent \in Seq([type : Types, event : Event]) /\ L > 0 /\ L \in Nat
      /\ wire \in Seq(Chars) /\ buffer \in Seq(Chars) /\ Len(wire) \in Nat /\ Len(buffer) \in Nat
      /\ \A i \in 1 .. Len(wire) : wire[i] = At(Off + Len(buffer) + i)
      /\ Off \in Nat
  BY DEF InText
<1>3. Envelope(type, event) \in [type : Types, event : Event] /\ Envelope(type, event).type = type
  BY DEF Envelope
<1>4. /\ sent' \in Seq([type : Types, event : Event]) /\ Len(sent') = L + 1
      /\ sent'[L + 1].type = type /\ \A k \in 1 .. L : sent'[k] = sent[k]
  BY <1>1, <1>2, <1>3
<1>5. /\ Text(L + 1) \in Seq(Chars) /\ Len(Text(L + 1)) = 4
      /\ \A i \in 1 .. 4 : Text(L + 1)[i] = At(4 * L + i)
  <2>1. L + 1 \in Nat \ {0} /\ 4 * (L + 1 - 1) = 4 * L
    BY <1>2
  <2> QED BY <2>1, LineText
<1>6. /\ wire' \in Seq(Chars) /\ Len(wire') = Len(wire) + 4
      /\ \A i \in 1 .. Len(wire) + 4 :
           wire'[i] = IF i <= Len(wire) THEN wire[i] ELSE Text(L + 1)[i - Len(wire)]
  <2> DEFINE line == Text(L + 1)
  <2>1. line \in Seq(Chars) /\ Len(line) = 4 /\ wire' = wire \o line /\ wire \in Seq(Chars)
    BY <1>1, <1>2, <1>5
  <2> HIDE DEF line
  <2>2. /\ wire \o line \in Seq(Chars)
        /\ Len(wire \o line) = Len(wire) + Len(line)
        /\ \A i \in 1 .. Len(wire) + Len(line) :
             (wire \o line)[i] = IF i <= Len(wire) THEN wire[i] ELSE line[i - Len(wire)]
    BY <2>1, ConcatProperties
  <2> QED BY <2>1, <2>2 DEF line
<1>7. Off' = Off
  <2>1. Len(sent') = L + 1 /\ Len(wire') = Len(wire) + 4 /\ Len(buffer') = Len(buffer)
    BY <1>1, <1>4, <1>6
  <2>2. L \in Nat /\ Len(wire) \in Nat /\ Len(buffer) \in Nat
    BY <1>2
  <2> QED BY <2>1, <2>2 DEF Off
<1>8. ASSUME NEW i \in 1 .. Len(wire')
      PROVE  wire'[i] = At(Off + Len(buffer) + i)
  <2>1. CASE i <= Len(wire)
    BY <1>2, <1>6, <2>1
  <2>2. CASE ~(i <= Len(wire))
    <3>1. i - Len(wire) \in 1 .. 4 /\ Off + Len(buffer) + i = 4 * L + (i - Len(wire))
      <4>1. L \in Nat /\ Len(wire) \in Nat /\ Len(buffer) \in Nat
        BY <1>2
      <4>2. i \in 1 .. Len(wire) + 4 /\ ~(i <= Len(wire))
        BY <1>6, <2>2
      <4> QED BY <4>1, <4>2 DEF Off
    <3>2. wire'[i] = Text(L + 1)[i - Len(wire)]
      BY <1>6, <2>2
    <3> QED BY <1>5, <3>1, <3>2
  <2> QED BY <2>1, <2>2
<1>9. L + 1 > 0
  BY <1>2
<1>10. InText'
  BY <1>1, <1>2, <1>4, <1>6, <1>7, <1>8, <1>9 DEF InText
<1> QED BY <1>4, <1>10

\* A read hands on the envelopes up to the last newline.
LEMMA ReadText ==
  ASSUME InText, NEW n, Read(n)
  PROVE  /\ InText'
         /\ Len(parsed) <= Len(parsed') /\ Len(parsed') <= Len(sent)
         /\ interrupts' = (interrupts \/ (asks /\ \E k \in Len(parsed) + 1 .. Len(parsed') : sent[k].type = "final"))
         /\ Lines(buffer \o SubSeq(wire, 1, n), n)
              = [j \in 1 .. Len(parsed') - Len(parsed) |-> Len(parsed) + j]
<1> DEFINE L == Len(sent)
           m == Len(parsed)
           chunk == SubSeq(wire, 1, n)
           text == buffer \o chunk
           last == LastNewline(text)
           lines == Lines(text, n)
<1>1. /\ n \in 1 .. Len(wire) /\ sent' = sent
      /\ wire' = SubSeq(wire, n + 1, Len(wire)) /\ buffer' = SubSeq(text, last + 1, Len(text))
      /\ parsed' = parsed \o lines
      /\ interrupts' = (interrupts \/ (asks /\ \E i \in DOMAIN lines : sent[lines[i]].type = "final"))
  BY DEF Read, Rest
<1>2. /\ L \in Nat /\ L > 0 /\ m \in Nat /\ m <= L
      /\ wire \in Seq(Chars) /\ buffer \in Seq(Chars) /\ Len(wire) \in Nat /\ Len(buffer) \in Nat
      /\ Off \in Nat /\ Off \in {4 * m, 4 * m - 1}
      /\ \A i \in 1 .. Len(buffer) : buffer[i] = At(Off + i)
      /\ \A i \in 1 .. Len(wire) : wire[i] = At(Off + Len(buffer) + i)
      /\ parsed = [k \in 1 .. m |-> k]
      /\ sent \in Seq([type : Types, event : Event])
  BY DEF InText
<1>3. chunk \in Seq(Chars) /\ Len(chunk) = n /\ \A i \in 1 .. n : chunk[i] = wire[i]
  BY <1>1, <1>2
<1> HIDE DEF chunk
<1>4. /\ text \in Seq(Chars) /\ Len(text) = Len(buffer) + n
      /\ \A i \in 1 .. Len(buffer) + n :
           text[i] = IF i <= Len(buffer) THEN buffer[i] ELSE chunk[i - Len(buffer)]
  BY <1>2, <1>3, ConcatProperties
<1> HIDE DEF text
<1>5. ASSUME NEW i \in 1 .. Len(text)
      PROVE  text[i] = At(Off + i)
  <2>1. CASE i <= Len(buffer)
    <3>1. i \in 1 .. Len(buffer)
      BY <1>2, <2>1
    <3>2. text[i] = buffer[i]
      BY <1>4, <2>1
    <3> QED BY <1>2, <3>1, <3>2
  <2>2. CASE ~(i <= Len(buffer))
    <3>1. /\ i - Len(buffer) \in 1 .. n /\ i - Len(buffer) \in 1 .. Len(wire)
          /\ Off + Len(buffer) + (i - Len(buffer)) = Off + i
      <4>1. /\ Len(text) = Len(buffer) + n /\ Len(buffer) \in Nat /\ Len(wire) \in Nat
            /\ Off \in Nat /\ n \in 1 .. Len(wire)
        BY <1>1, <1>2, <1>4
      <4> QED BY <2>2, <4>1
    <3>2. text[i] = wire[i - Len(buffer)]
      BY <1>3, <1>4, <2>2, <3>1
    <3> QED BY <1>2, <3>1, <3>2
  <2> QED BY <2>1, <2>2
<1>6. Follows(text, Off, m)
  BY <1>2, <1>4, <1>5 DEF Follows
<1>7. PICK k \in Nat :
        /\ m <= k /\ 4 * k - 1 <= Off + Len(text)
        /\ last \in 0 .. Len(text)
        /\ Off + last \in {4 * k, 4 * k - 1}
        /\ \A i \in 1 .. Len(text) : i > last => text[i] # Newline
  BY <1>6, LastOf
<1>8. lines = [j \in 1 .. (k - m) |-> m + j]
  BY <1>6, <1>7, LinesAre
<1> HIDE DEF last, lines
<1>9. k <= L
  BY <1>1, <1>2, <1>4, <1>7 DEF Off
<1>10. parsed' = [j \in 1 .. k |-> j] /\ Len(parsed') = k
  <2>1. k - m \in Nat /\ m + (k - m) = k
    BY <1>2, <1>7
  <2>2. parsed' = [j \in 1 .. k |-> j]
    <3>1. parsed' = [j \in 1 .. m |-> j] \o [j \in 1 .. (k - m) |-> m + j]
      BY <1>1, <1>2, <1>8
    <3>2. m \in Nat
      BY <1>2
    <3> QED BY <2>1, <3>1, <3>2, Counted
  <2> QED BY <2>2
<1>11. buffer' \in Seq(Chars) /\ Len(buffer') = Len(text) - last
       /\ \A i \in 1 .. Len(text) - last : buffer'[i] = text[last + i]
  BY <1>1, <1>4, <1>7, RestOf
<1>12. wire' \in Seq(Chars) /\ Len(wire') = Len(wire) - n
       /\ \A i \in 1 .. Len(wire) - n : wire'[i] = wire[n + i]
  <2>1. wire \in Seq(Chars) /\ n \in 0 .. Len(wire)
    BY <1>1, <1>2
  <2> QED BY <1>1, <2>1, RestOf
<1>13. Off' = Off + last
  <2>1. /\ L \in Nat /\ Len(wire) \in Nat /\ Len(buffer) \in Nat /\ n \in Nat /\ last \in Nat
        /\ Len(text) = Len(buffer) + n /\ sent' = sent
    BY <1>1, <1>2, <1>4, <1>7
  <2>2. Len(buffer') = Len(text) - last /\ Len(wire') = Len(wire) - n
    BY <1>11, <1>12
  <2> QED BY <2>1, <2>2 DEF Off
<1>14. ASSUME NEW i \in 1 .. Len(buffer')
       PROVE  buffer'[i] = At(Off' + i) /\ buffer'[i] # Newline
  <2>1. last + i \in 1 .. Len(text) /\ last + i > last /\ Off + (last + i) = Off' + i
    <3>1. Off \in Nat /\ Len(text) \in Nat /\ last \in 0 .. Len(text) /\ i \in 1 .. Len(text) - last
      BY <1>2, <1>4, <1>7, <1>11
    <3> QED BY <1>13, <3>1
  <2>2. buffer'[i] = text[last + i]
    BY <1>11
  <2> QED BY <1>5, <1>7, <2>1, <2>2
<1>15. ASSUME NEW i \in 1 .. Len(wire')
       PROVE  wire'[i] = At(Off' + Len(buffer') + i)
  <2>1. n + i \in 1 .. Len(wire) /\ Off + Len(buffer) + (n + i) = Off' + Len(buffer') + i
    <3>1. /\ Off \in Nat /\ Len(text) \in Nat /\ last \in 0 .. Len(text) /\ i \in 1 .. Len(wire) - n
          /\ n \in 1 .. Len(wire) /\ Len(wire) \in Nat /\ Len(buffer) \in Nat
      BY <1>1, <1>2, <1>4, <1>7, <1>12
    <3>2. Len(text) = Len(buffer) + n /\ Len(buffer') = Len(text) - last
      BY <1>4, <1>11
    <3> QED BY <1>13, <3>1, <3>2
  <2> QED BY <1>2, <1>12, <2>1
<1>16. Off' \in Nat /\ Off' \in {4 * k, 4 * k - 1}
  BY <1>2, <1>7, <1>13
<1>17. InText'
  BY <1>1, <1>2, <1>9, <1>10, <1>11, <1>12, <1>14, <1>15, <1>16 DEF InText
<1>18. (\E i \in DOMAIN lines : sent[lines[i]].type = "final")
         <=> \E j \in m + 1 .. k : sent[j].type = "final"
  <2>1. ASSUME NEW j \in m + 1 .. k
        PROVE  j - m \in DOMAIN lines /\ lines[j - m] = j
    BY <1>2, <1>8
  <2>2. ASSUME NEW i \in DOMAIN lines
        PROVE  lines[i] \in m + 1 .. k
    BY <1>2, <1>8
  <2> QED BY <2>1, <2>2
<1>19. Lines(buffer \o SubSeq(wire, 1, n), n) = [j \in 1 .. Len(parsed') - Len(parsed) |-> Len(parsed) + j]
  BY <1>8, <1>10 DEF lines, text, chunk
<1> QED BY <1>1, <1>7, <1>9, <1>10, <1>17, <1>18, <1>19

LEMMA ReaderStep == ReaderInv /\ [ReaderNext]_readerVars => ReaderInv'
<1> SUFFICES ASSUME ReaderInv, [ReaderNext]_readerVars PROVE ReaderInv'
  OBVIOUS
<1>1. InText /\ Heard
  BY DEF ReaderInv
<1>2. /\ sent \in Seq([type : Types, event : Event]) /\ Len(sent) \in Nat /\ Len(sent) > 0
      /\ DOMAIN sent = 1 .. Len(sent) /\ Len(parsed) \in Nat /\ Len(parsed) <= Len(sent)
  BY <1>1 DEF InText
<1>3. NoEvent \in Event /\ \A b \in BOOLEAN : [NoEvent EXCEPT !.says = b] \in Event
  BY DEF NoEvent, Event
<1>4. ASSUME NEW type \in Types, NEW event \in Event, Write(type, event),
             asks' \in BOOLEAN, type = "final" => asks' = asks, asks => asks'
      PROVE  ReaderInv'
  <2>1. /\ InText' /\ Len(sent') = Len(sent) + 1 /\ sent'[Len(sent) + 1].type = type
        /\ \A k \in 1 .. Len(sent) : sent'[k] = sent[k]
    BY <1>1, <1>4, WriteText
  <2>2. ~Over /\ UNCHANGED <<parsed, reader, interrupts>>
    BY <1>4 DEF Write
  <2>3. \A k \in 1 .. Len(sent) : sent[k].type # "final"
    BY <1>1, <1>2, <2>2 DEF Heard, Over
  <2>4. DOMAIN sent' = 1 .. Len(sent) + 1
    BY <2>1 DEF InText
  <2>5. \A k \in DOMAIN sent' : sent'[k].type = "final" => k = Len(sent')
    BY <1>2, <2>1, <2>3, <2>4
  <2>6. \A k \in 1 .. Len(parsed) : sent'[k].type # "final" /\ sent[k].type # "final"
    BY <1>2, <2>1, <2>3
  <2>7. reader # "returned" /\ interrupts \in BOOLEAN /\ ~interrupts
        /\ reader \in {"reading", "returned", "failed"}
    BY <1>1, <2>2, <2>6 DEF Heard
  <2>8. Heard'
    BY <1>4, <2>2, <2>5, <2>6, <2>7 DEF Heard
  <2> QED BY <2>1, <2>8 DEF ReaderInv
<1>5. ASSUME NEW e \in Event, WriteEvent(e)
      PROVE  ReaderInv'
  <2>1. Write("event", e) /\ ~asks /\ asks' = (e.action = "interrupt")
    BY <1>5 DEF WriteEvent
  <2>2. "event" \in Types /\ "event" # "final"
    BY DEF Types
  <2>3. asks' \in BOOLEAN
    BY <2>1
  <2> QED BY <1>4, <2>1, <2>2, <2>3
<1>6. CASE WriteOther
  <2>1. PICK type \in {"error", "compaction", "todo_update"} : Write(type, NoEvent)
    BY <1>6 DEF WriteOther
  <2>2. type \in Types
    BY DEF Types
  <2>3. asks' = asks /\ asks \in BOOLEAN
    BY <1>1, <1>6 DEF WriteOther, Heard
  <2> QED BY <1>3, <1>4, <2>1, <2>2, <2>3
<1>7. CASE WriteFinal
  <2>1. PICK b \in BOOLEAN : Write("final", [NoEvent EXCEPT !.says = b])
    BY <1>7 DEF WriteFinal
  <2>2. "final" \in Types
    BY DEF Types
  <2>3. asks' = asks /\ asks \in BOOLEAN
    BY <1>1, <1>7 DEF WriteFinal, Heard
  <2> QED BY <1>3, <1>4, <2>1, <2>2, <2>3
<1>8. ASSUME NEW n \in 1 .. Len(wire), Read(n)
      PROVE  ReaderInv'
  <2>1. /\ InText'
        /\ Len(parsed) <= Len(parsed') /\ Len(parsed') <= Len(sent)
        /\ interrupts' = (interrupts \/ (asks /\ \E k \in Len(parsed) + 1 .. Len(parsed') : sent[k].type = "final"))
    BY <1>1, <1>8, ReadText
  <2>2. reader = "reading" /\ UNCHANGED <<sent, asks, reader>>
    BY <1>8 DEF Read
  <2>3. Len(parsed') \in Nat
    BY <2>1 DEF InText
  <2>4. (\E k \in 1 .. Len(parsed') : sent[k].type = "final")
          <=> \/ \E k \in 1 .. Len(parsed) : sent[k].type = "final"
              \/ \E k \in Len(parsed) + 1 .. Len(parsed') : sent[k].type = "final"
    BY <1>2, <2>1, <2>3
  <2>5. asks \in BOOLEAN /\ interrupts \in BOOLEAN
        /\ (interrupts <=> asks /\ \E k \in 1 .. Len(parsed) : sent[k].type = "final")
        /\ \A k \in DOMAIN sent : sent[k].type = "final" => k = Len(sent)
    BY <1>1 DEF Heard
  <2>6. interrupts' \in BOOLEAN
        /\ (interrupts' <=> asks /\ \E k \in 1 .. Len(parsed') : sent[k].type = "final")
    BY <2>1, <2>4, <2>5, Zenon
  <2>7. Heard'
    BY <2>2, <2>5, <2>6 DEF Heard
  <2> QED BY <2>1, <2>7 DEF ReaderInv
<1>9. CASE Done
  <2>1. /\ Over /\ wire = <<>> /\ reader' = "returned"
        /\ UNCHANGED <<sent, asks, wire, buffer, parsed, interrupts>>
    BY <1>9 DEF Done
  <2>2. Len(parsed) = Len(sent)
    <3>1. /\ Off = 4 * Len(sent) - Len(buffer) /\ Len(buffer) \in Nat
          /\ Off = 4 * Len(parsed) \/ Off = 4 * Len(parsed) - 1
          /\ \A i \in 1 .. Len(buffer) : buffer[i] = At(Off + i) /\ buffer[i] # Newline
      BY <1>1, <1>2, <2>1 DEF InText, Off
    <3>2. ASSUME Len(buffer) > 0
          PROVE  FALSE
      <4>1. Len(buffer) \in 1 .. Len(buffer) /\ Off + Len(buffer) = 4 * Len(sent)
        BY <1>2, <3>1, <3>2
      <4>2. At(4 * Len(sent)) = Newline
        <5>1. Len(sent) \in Nat \ {0}
          BY <1>2
        <5> QED BY <5>1, AtLine
      <4> QED BY <3>1, <4>1, <4>2
    <3> QED BY <1>2, <3>1, <3>2
  <2>3. InText'
    BY <1>1, <2>1 DEF InText, Off
  <2>4. Heard'
    BY <1>1, <2>1, <2>2 DEF Heard, Over
  <2> QED BY <2>3, <2>4 DEF ReaderInv
<1>10. CASE Break
  <2>1. reader' = "failed" /\ UNCHANGED <<sent, asks, wire, buffer, parsed, interrupts>>
    BY <1>10 DEF Break
  <2> QED BY <1>1, <2>1 DEF ReaderInv, InText, Heard, Off, Over
<1>11. CASE UNCHANGED readerVars
  BY <1>1, <1>11 DEF readerVars, ReaderInv, InText, Heard, Off, Over
<1> QED BY <1>5, <1>6, <1>7, <1>8, <1>9, <1>10, <1>11 DEF ReaderNext

\* A run that asks for approval is heard, wherever the network cuts its stream.
THEOREM AskHeard == ReaderSpec => []AskIsHeard
<1>1. ReaderInv => AskIsHeard
  <2> SUFFICES ASSUME ReaderInv, reader = "returned" PROVE interrupts <=> asks
    BY DEF AskIsHeard
  <2>1. /\ Over /\ Len(parsed) = Len(sent) /\ Len(sent) \in Nat /\ Len(sent) > 0
        /\ (interrupts <=> asks /\ \E k \in 1 .. Len(parsed) : sent[k].type = "final")
    BY DEF ReaderInv, Heard, InText
  <2>2. Len(sent) \in 1 .. Len(parsed) /\ sent[Len(sent)].type = "final"
    BY <2>1 DEF Over
  <2> QED BY <2>1, <2>2
<1> QED BY <1>1, InitReader, ReaderStep, PTL DEF ReaderSpec

LEMMA WriteRefines ==
  ASSUME InText, NEW type \in Types, NEW event \in Event, Write(type, event)
  PROVE  Channel!Write
<1>1. Len(sent') = Len(sent) + 1 /\ UNCHANGED <<parsed, reader>>
  BY WriteText DEF Write
<1>2. /\ sent \in Seq([type : Types, event : Event]) /\ sent' \in Seq([type : Types, event : Event])
      /\ Len(sent) \in Nat
  BY WriteText DEF InText
<1> DEFINE before == [k \in DOMAIN sent |-> k]
           after == [k \in DOMAIN sent' |-> k]
<1>3. before = [k \in 1 .. Len(sent) |-> k] /\ after = [k \in 1 .. Len(sent) + 1 |-> k]
  BY <1>1, <1>2
<1>4. Len(before) = Len(sent) /\ before \in Seq(Nat)
  BY <1>2, <1>3
<1>5. after = Append(before, Len(before) + 1)
  BY <1>2, <1>3, <1>4
<1> QED BY <1>1, <1>5 DEF Channel!Write

LEMMA ReadRefines ==
  ASSUME InText, NEW n, Read(n)
  PROVE  [Channel!Receive]_(Channel!vars)
<1>1. InText' /\ Len(parsed) <= Len(parsed') /\ Len(parsed') <= Len(sent)
  BY ReadText
<1>2. /\ sent \in Seq([type : Types, event : Event]) /\ Len(sent) \in Nat
      /\ Len(parsed) \in Nat /\ parsed = [k \in 1 .. Len(parsed) |-> k]
      /\ Len(parsed') \in Nat /\ parsed' = [k \in 1 .. Len(parsed') |-> k]
  BY <1>1 DEF InText
<1>3. reader = "reading" /\ UNCHANGED <<sent, reader>>
  BY DEF Read
<1> DEFINE written == [k \in DOMAIN sent |-> k]
<1>4. written = [k \in 1 .. Len(sent) |-> k] /\ written' = written
  BY <1>2, <1>3
<1>5. CASE Len(parsed') = Len(parsed)
  BY <1>2, <1>3, <1>4, <1>5 DEF Channel!vars
<1>6. CASE Len(parsed') # Len(parsed)
  <2>1. Len(written) = Len(sent) /\ written \in Seq(Nat)
    BY <1>2, <1>4
  <2>2. Len(parsed') \in Len(parsed) + 1 .. Len(written)
    <3>1. /\ Len(parsed) \in Nat /\ Len(parsed') \in Nat /\ Len(sent) \in Nat
          /\ Len(parsed) <= Len(parsed') /\ Len(parsed') <= Len(sent) /\ Len(parsed') # Len(parsed)
      BY <1>1, <1>2, <1>6
    <3>2. Len(parsed') \in Len(parsed) + 1 .. Len(sent)
      BY <3>1
    <3> QED BY <2>1, <3>2
  <2>3. parsed' = SubSeq(written, 1, Len(parsed'))
    BY <1>1, <1>2, <1>4, <2>1
  <2> QED BY <1>3, <1>4, <2>2, <2>3 DEF Channel!Receive
<1> QED BY <1>5, <1>6

LEMMA ReaderRefines ==
  ASSUME ReaderInv, [ReaderNext]_readerVars
  PROVE  [Channel!Next]_(Channel!vars)
<1>1. InText
  BY DEF ReaderInv
<1>2. NoEvent \in Event /\ \A b \in BOOLEAN : [NoEvent EXCEPT !.says = b] \in Event
  BY DEF NoEvent, Event
<1>3. CASE (\E e \in Event : WriteEvent(e)) \/ WriteOther \/ WriteFinal
  <2>1. \E type \in Types, event \in Event : Write(type, event)
    BY <1>2, <1>3 DEF WriteEvent, WriteOther, WriteFinal, Types
  <2> QED BY <1>1, <2>1, WriteRefines DEF Channel!Next
<1>4. CASE \E n \in 1 .. Len(wire) : Read(n)
  BY <1>1, <1>4, ReadRefines DEF Channel!Next
<1>5. CASE Done \/ Break
  BY <1>5 DEF Done, Break, Channel!Next, Channel!Close
<1>6. CASE UNCHANGED readerVars
  BY <1>6 DEF readerVars, Channel!vars
<1> QED BY <1>3, <1>4, <1>5, <1>6 DEF ReaderNext

\* The reader implements the channel: what the server writes is parsed in order
\* and once, however the network cuts it and wherever the connection breaks.
THEOREM ReaderIsChannel == ReaderSpec => ChannelSpec
<1>1. ReaderInit => Channel!Init
  <2> SUFFICES ASSUME ReaderInit PROVE Channel!Init
    OBVIOUS
  <2>1. sent = <<Envelope("session", NoEvent)>> /\ parsed = <<>> /\ reader = "reading"
    BY DEF ReaderInit
  <2>2. DOMAIN sent = 1 .. 1
    BY <2>1
  <2>3. Len([k \in DOMAIN sent |-> k]) = 1
    BY <2>2
  <2> QED BY <2>1, <2>3 DEF Channel!Init
<1> QED BY <1>1, InitReader, ReaderStep, ReaderRefines, PTL DEF ReaderSpec, ChannelSpec, Channel!Spec

-----------------------------------------------------------------------------
(***************************************************************************)
(* What the folds over lists give, for lists of any length.  Induction is  *)
(* over sets of numbers, by their least elements: no lemma has an operator *)
(* for a parameter.                                                        *)
(***************************************************************************)

\* A set of numbers has a least one.
LEMMA LeastNumber ==
  ASSUME NEW T, T \subseteq Nat, T # {}
  PROVE  \E x \in T : \A y \in T : x <= y
<1> DEFINE R == OpToRel(LAMBDA a, b : a < b, Nat)
<1>1. IsWellFoundedOn(R, Nat)
  BY NatLessThanWellFounded
<1>2. PICK x \in T : \A y \in T : ~ (<<y, x>> \in R)
  BY <1>1, WFMin
<1>3. \A y \in T : ~ (y < x)
  BY <1>2 DEF OpToRel
<1> QED BY <1>3

\* Induction over a set of numbers.
LEMMA AllUpTo ==
  ASSUME NEW m \in Nat, NEW T, 0 \in T, \A i \in 0 .. m : i \in T /\ i < m => i + 1 \in T
  PROVE  0 .. m \subseteq T
<1> SUFFICES ASSUME ~ (0 .. m \subseteq T) PROVE FALSE
  OBVIOUS
<1> DEFINE B == {i \in 0 .. m : i \notin T}
<1>1. B \subseteq Nat /\ B # {}
  OBVIOUS
<1>2. PICK x \in B : \A y \in B : x <= y
  BY <1>1, LeastNumber
<1>3. x # 0 /\ x \in 0 .. m
  BY <1>2
<1>4. x - 1 \in 0 .. m /\ x - 1 < m /\ (x - 1) + 1 = x /\ ~ (x <= x - 1)
  BY <1>3
<1>5. x - 1 \in T
  BY <1>2, <1>4
<1> QED BY <1>2, <1>4, <1>5

\* The sums of a list of lists, and that there is one list of them.
Sums(f, ss, m) == \A i \in 1 .. m : f[i] = IF i = 1 THEN ss[i] ELSE f[i - 1] \o ss[i]

LEMMA SumsExist ==
  ASSUME NEW S, NEW ss \in Seq(Seq(S)), NEW m \in 0 .. Len(ss)
  PROVE  \E f \in [1 .. m -> Seq(S)] : Sums(f, ss, m)
<1> DEFINE T == {i \in 0 .. m : \E f \in [1 .. i -> Seq(S)] : Sums(f, ss, i)}
<1>1. 0 \in T
  <2> DEFINE none == [j \in 1 .. 0 |-> <<>>]
  <2>1. none \in [1 .. 0 -> Seq(S)] /\ 0 \in 0 .. m
    OBVIOUS
  <2> HIDE DEF none
  <2>2. Sums(none, ss, 0)
    BY DEF Sums
  <2> QED BY <2>1, <2>2
<1>2. ASSUME NEW i \in 0 .. m, i \in T, i < m
      PROVE  i + 1 \in T
  <2>1. PICK f \in [1 .. i -> Seq(S)] : Sums(f, ss, i)
    BY <1>2
  <2>2. i + 1 \in 1 .. Len(ss) /\ ss[i + 1] \in Seq(S) /\ i \in Nat
    BY <1>2
  <2> DEFINE last == IF i = 0 THEN ss[i + 1] ELSE f[i] \o ss[i + 1]
             g == [j \in 1 .. i + 1 |-> IF j = i + 1 THEN last ELSE f[j]]
  <2>3. last \in Seq(S)
    <3>1. CASE i = 0
      BY <2>2, <3>1
    <3>2. CASE i # 0
      <4>1. f[i] \in Seq(S)
        BY <2>2, <3>2
      <4> QED BY <2>2, <3>2, <4>1, ConcatProperties
    <3> QED BY <3>1, <3>2
  <2> HIDE DEF last
  <2>4. g \in [1 .. i + 1 -> Seq(S)]
    BY <2>2, <2>3
  <2>5. ASSUME NEW j \in 1 .. i + 1
        PROVE  g[j] = IF j = 1 THEN ss[j] ELSE g[j - 1] \o ss[j]
    <3>1. CASE j = i + 1
      <4>1. g[j] = last
        BY <3>1
      <4>2. i # 0 => g[j - 1] = f[i] /\ j # 1
        BY <2>2, <3>1
      <4> QED BY <2>2, <3>1, <4>1, <4>2 DEF last
    <3>2. CASE j # i + 1
      <4>1. j \in 1 .. i /\ g[j] = f[j]
        BY <2>2, <3>2
      <4>2. j # 1 => g[j - 1] = f[j - 1]
        BY <2>2, <4>1
      <4> QED BY <2>1, <4>1, <4>2 DEF Sums
    <3> QED BY <3>1, <3>2
  <2>6. Sums(g, ss, i + 1)
    BY <2>5 DEF Sums
  <2> HIDE DEF g
  <2>7. i + 1 \in 0 .. m
    BY <1>2
  <2> QED BY <2>4, <2>6, <2>7
<1>3. m \in Nat
  OBVIOUS
<1> HIDE DEF T
<1>4. 0 .. m \subseteq T
  BY <1>1, <1>2, <1>3, AllUpTo
<1>5. m \in T
  BY <1>3, <1>4
<1> QED BY <1>5 DEF T

LEMMA SumsAgree ==
  ASSUME NEW m \in Nat, NEW ss, NEW f, NEW g, Sums(f, ss, m), Sums(g, ss, m)
  PROVE  \A i \in 1 .. m : f[i] = g[i]
<1> DEFINE T == {i \in 0 .. m : i # 0 => f[i] = g[i]}
<1>1. 0 \in T
  OBVIOUS
<1>2. ASSUME NEW i \in 0 .. m, i \in T, i < m
      PROVE  i + 1 \in T
  <2>1. i + 1 \in 1 .. m /\ (i # 0 => i + 1 # 1) /\ (i + 1) - 1 = i
    BY <1>2
  <2>2. /\ f[i + 1] = IF i + 1 = 1 THEN ss[i + 1] ELSE f[(i + 1) - 1] \o ss[i + 1]
        /\ g[i + 1] = IF i + 1 = 1 THEN ss[i + 1] ELSE g[(i + 1) - 1] \o ss[i + 1]
    BY <2>1 DEF Sums
  <2> QED BY <1>2, <2>1, <2>2
<1> HIDE DEF T
<1>3. 0 .. m \subseteq T
  BY <1>1, <1>2, AllUpTo
<1> QED BY <1>3 DEF T

\* FlattenSeq is the last of the sums.
LEMMA FlattenIs ==
  ASSUME NEW S, NEW ss \in Seq(Seq(S)), Len(ss) # 0
  PROVE  \E f \in [1 .. Len(ss) -> Seq(S)] : Sums(f, ss, Len(ss)) /\ FlattenSeq(ss) = f[Len(ss)]
<1> DEFINE Whole(h) == h = [i \in 1 .. Len(ss) |-> IF i = 1 THEN ss[i] ELSE h[i - 1] \o ss[i]]
           flatten == CHOOSE h : Whole(h)
<1>1. PICK f \in [1 .. Len(ss) -> Seq(S)] : Sums(f, ss, Len(ss))
  <2>1. Len(ss) \in 0 .. Len(ss)
    OBVIOUS
  <2> QED BY <2>1, SumsExist
<1>2. Whole(f)
  BY <1>1 DEF Sums
<1>3. Whole(flatten)
  BY <1>2
<1>4. FlattenSeq(ss) = flatten[Len(ss)]
  BY DEF FlattenSeq
<1> HIDE DEF flatten
<1>5. Sums(flatten, ss, Len(ss))
  BY <1>3 DEF Sums
<1>6. \A i \in 1 .. Len(ss) : flatten[i] = f[i]
  BY <1>1, <1>5, SumsAgree
<1>7. Len(ss) \in 1 .. Len(ss)
  OBVIOUS
<1> QED BY <1>1, <1>4, <1>6, <1>7

LEMMA FlattenMore ==
  ASSUME NEW S, NEW ss \in Seq(Seq(S)), NEW tt \in Seq(Seq(S)), NEW m \in Nat \ {0},
         Len(ss) = m, Len(tt) = m + 1, \A i \in 1 .. m : ss[i] = tt[i]
  PROVE  FlattenSeq(tt) = FlattenSeq(ss) \o tt[m + 1]
<1>1. PICK f : Sums(f, ss, m) /\ FlattenSeq(ss) = f[m]
  BY FlattenIs
<1>2. PICK g : Sums(g, tt, m + 1) /\ FlattenSeq(tt) = g[m + 1]
  BY FlattenIs
<1>3. Sums(f, tt, m)
  BY <1>1 DEF Sums
<1>4. Sums(g, tt, m)
  <2>1. \A i \in 1 .. m : i \in 1 .. m + 1
    OBVIOUS
  <2> QED BY <1>2, <2>1 DEF Sums
<1>5. f[m] = g[m]
  <2>1. m \in Nat /\ m \in 1 .. m
    OBVIOUS
  <2>2. \A i \in 1 .. m : f[i] = g[i]
    BY <1>3, <1>4, <2>1, SumsAgree
  <2> QED BY <2>1, <2>2
<1>6. g[m + 1] = g[m] \o tt[m + 1]
  <2>1. m + 1 \in 1 .. m + 1 /\ m + 1 # 1 /\ (m + 1) - 1 = m
    OBVIOUS
  <2>2. g[m + 1] = g[(m + 1) - 1] \o tt[m + 1]
    BY <1>2, <2>1 DEF Sums
  <2> QED BY <2>1, <2>2
<1> QED BY <1>1, <1>2, <1>5, <1>6

\* A list more is flattened behind the others.
LEMMA Flattened ==
  ASSUME NEW S, NEW ss \in Seq(Seq(S)), NEW s \in Seq(S)
  PROVE  /\ Append(ss, s) \in Seq(Seq(S)) /\ FlattenSeq(ss) \in Seq(S)
         /\ FlattenSeq(Append(ss, s)) = FlattenSeq(ss) \o s
<1> DEFINE tt == Append(ss, s)
<1>1. /\ tt \in Seq(Seq(S)) /\ Len(tt) = Len(ss) + 1 /\ Len(ss) \in Nat
      /\ \A i \in 1 .. Len(ss) : ss[i] = tt[i]
      /\ tt[Len(ss) + 1] = s
  OBVIOUS
<1>2. CASE Len(ss) = 0
  <2> HIDE DEF tt
  <2>1. FlattenSeq(ss) = ss /\ ss = <<>>
    BY <1>2 DEF FlattenSeq
  <2>2. PICK g \in [1 .. 1 -> Seq(S)] : Sums(g, tt, 1) /\ FlattenSeq(tt) = g[1]
    <3>1. Len(tt) = 1 /\ Len(tt) # 0
      BY <1>1, <1>2
    <3> QED BY <1>1, <3>1, FlattenIs
  <2>3. g[1] = s
    BY <1>1, <1>2, <2>2 DEF Sums
  <2>4. <<>> \o s = s /\ <<>> \in Seq(S)
    OBVIOUS
  <2> QED BY <1>1, <2>1, <2>2, <2>3, <2>4 DEF tt
<1>3. CASE Len(ss) # 0
  <2> HIDE DEF tt
  <2>1. FlattenSeq(tt) = FlattenSeq(ss) \o s
    <3>1. Len(ss) \in Nat \ {0}
      BY <1>1, <1>3
    <3> QED BY <1>1, <3>1, FlattenMore
  <2>2. FlattenSeq(ss) \in Seq(S)
    <3>1. PICK f \in [1 .. Len(ss) -> Seq(S)] : FlattenSeq(ss) = f[Len(ss)]
      BY <1>3, FlattenIs
    <3>2. Len(ss) \in 1 .. Len(ss)
      BY <1>1, <1>3
    <3> QED BY <3>1, <3>2
  <2> QED BY <1>1, <2>1, <2>2 DEF tt
<1> QED BY <1>2, <1>3

\* What adding cards to a timeline gives, by the places of those added.
Adding(f, base, cards, m) ==
  f = [s \in SUBSET (1 .. m) |->
         IF s = {} THEN base ELSE AddActivity(f[s \ {Max(s)}], cards[Max(s)])]

LEMMA MaxOf ==
  ASSUME NEW m \in Nat, NEW s \in SUBSET (1 .. m), s # {}
  PROVE  Max(s) \in s /\ \A y \in s : Max(s) >= y
<1> DEFINE B == {i \in Nat : \A y \in s : i >= y}
<1>1. m \in B /\ B \subseteq Nat
  <2>1. \A y \in s : y \in 1 .. m /\ m >= y
    OBVIOUS
  <2> QED BY <2>1
<1> HIDE DEF B
<1>2. PICK x \in B : \A y \in B : x <= y
  BY <1>1, LeastNumber
<1>3. x \in Nat /\ \A y \in s : x >= y
  BY <1>2 DEF B
<1>4. x \in s
  <2> SUFFICES ASSUME x \notin s PROVE FALSE
    OBVIOUS
  <2>1. \A y \in s : y \in Nat /\ y >= 1 /\ y < x
    BY <1>3
  <2>2. x - 1 \in Nat /\ \A y \in s : x - 1 >= y
    <3>1. PICK z \in s : TRUE
      OBVIOUS
    <3>2. x \in Nat /\ x >= 1
      BY <1>3, <2>1, <3>1
    <3>3. ASSUME NEW y \in s PROVE x - 1 >= y
      BY <2>1, <3>2
    <3> QED BY <3>2, <3>3
  <2>3. x - 1 \in B
    BY <2>2 DEF B
  <2> QED BY <1>2, <1>3, <2>2, <2>3
<1>5. \E z \in s : \A y \in s : z >= y
  BY <1>3, <1>4
<1> QED BY <1>5 DEF Max

LEMMA AddedExists ==
  ASSUME NEW base, NEW cards, NEW m \in Nat
  PROVE  \E f : Adding(f, base, cards, m)
<1> DEFINE Body(f, s) == IF s = {} THEN base ELSE AddActivity(f[s \ {Max(s)}], cards[Max(s)])
           Whole(f, i) == Adding(f, base, cards, i)
           T == {i \in 0 .. m : \E f : Whole(f, i)}
<1>1. 0 \in T
  <2> DEFINE f == [s \in SUBSET (1 .. 0) |-> base]
  <2>1. \A s \in SUBSET (1 .. 0) : s = {}
    OBVIOUS
  <2>2. Whole(f, 0)
    BY <2>1 DEF Adding
  <2> QED BY <2>2
<1>2. ASSUME NEW i \in 0 .. m, i \in T, i < m
      PROVE  i + 1 \in T
  <2>1. PICK f : Whole(f, i)
    BY <1>2
  <2> DEFINE g == [s \in SUBSET (1 .. i + 1) |->
                     IF i + 1 \in s THEN AddActivity(f[s \ {i + 1}], cards[i + 1]) ELSE f[s]]
  <2>2. ASSUME NEW s \in SUBSET (1 .. i + 1)
        PROVE  g[s] = Body(g, s)
    <3>1. CASE i + 1 \in s
      <4>1. Max(s) \in s /\ \A y \in s : Max(s) >= y
        <5>1. i + 1 \in Nat /\ s # {}
          BY <3>1
        <5> QED BY <5>1, MaxOf
      <4>2. Max(s) = i + 1
        <5>1. Max(s) \in 1 .. i + 1
          BY <4>1
        <5>2. Max(s) >= i + 1
          BY <3>1, <4>1
        <5> HIDE DEF g, T
        <5> QED BY <5>1, <5>2
      <4>3. s \ {i + 1} \in SUBSET (1 .. i + 1) /\ i + 1 \notin s \ {i + 1}
        OBVIOUS
      <4>4. g[s \ {i + 1}] = f[s \ {i + 1}]
        BY <4>3
      <4>5. s # {}
        BY <3>1
      <4> QED BY <3>1, <4>2, <4>4, <4>5
    <3>2. CASE i + 1 \notin s
      <4>1. s \in SUBSET (1 .. i)
        BY <3>2
      <4>2. g[s] = f[s] /\ f[s] = Body(f, s)
        BY <2>1, <3>2, <4>1 DEF Adding
      <4>3. s # {} => f[s \ {Max(s)}] = g[s \ {Max(s)}]
        <5>1. s \ {Max(s)} \in SUBSET (1 .. i + 1) /\ i + 1 \notin s \ {Max(s)}
          BY <3>2
        <5> QED BY <5>1
      <4> QED BY <4>2, <4>3
    <3> QED BY <3>1, <3>2
  <2>3. Whole(g, i + 1)
    <3>1. g = [s \in SUBSET (1 .. i + 1) |-> g[s]]
      OBVIOUS
    <3> HIDE DEF g
    <3> QED BY <2>2, <3>1 DEF Adding
  <2> HIDE DEF g
  <2>4. i + 1 \in 0 .. m
    BY <1>2
  <2> QED BY <2>3, <2>4
<1> HIDE DEF T
<1>3. 0 .. m \subseteq T
  BY <1>1, <1>2, AllUpTo
<1>4. m \in T
  BY <1>3
<1> QED BY <1>4 DEF T

\* AddActivities is what adding all of them gives.
LEMMA FoldIs ==
  ASSUME NEW base, NEW S, NEW cards \in Seq(S)
  PROVE  \E f : /\ Adding(f, base, cards, Len(cards))
                /\ AddActivities(base, cards) = f[1 .. Len(cards)]
<1> DEFINE Whole(h) == h = [s \in SUBSET (1 .. Len(cards)) |->
                              IF s = {} THEN base ELSE AddActivity(h[s \ {Max(s)}], cards[Max(s)])]
           iter == CHOOSE h : Whole(h)
<1>1. DOMAIN cards = 1 .. Len(cards) /\ Len(cards) \in Nat
  OBVIOUS
<1>2. PICK h : Adding(h, base, cards, Len(cards))
  BY <1>1, AddedExists
<1>3. Whole(iter)
  <2>1. Whole(h)
    BY <1>2 DEF Adding
  <2> HIDE DEF Whole
  <2> QED BY <2>1
<1>4. AddActivities(base, cards) = iter[1 .. Len(cards)]
  BY <1>1, Zenon DEF AddActivities, FoldLeft, MapThenFoldSet
<1>5. Adding(iter, base, cards, Len(cards))
  <2> HIDE DEF iter
  <2> QED BY <1>3 DEF Adding
<1> HIDE DEF iter
<1> QED BY <1>4, <1>5

\* Along the prefixes.
LEMMA AddingStep ==
  ASSUME NEW f, NEW base, NEW cards, NEW m \in Nat, Adding(f, base, cards, m), NEW i \in 1 .. m
  PROVE  f[1 .. i] = AddActivity(f[1 .. i - 1], cards[i])
<1>1. 1 .. i \in SUBSET (1 .. m) /\ 1 .. i # {} /\ i \in Nat /\ i \in 1 .. i
  OBVIOUS
<1>2. Max(1 .. i) \in 1 .. i /\ \A y \in 1 .. i : Max(1 .. i) >= y
  <2>1. 1 .. i \in SUBSET (1 .. i)
    OBVIOUS
  <2> QED BY <1>1, <2>1, MaxOf
<1>3. Max(1 .. i) = i
  BY <1>1, <1>2
<1>4. (1 .. i) \ {i} = 1 .. i - 1
  OBVIOUS
<1>5. f[1 .. i] = AddActivity(f[(1 .. i) \ {Max(1 .. i)}], cards[Max(1 .. i)])
  BY <1>1 DEF Adding
<1> QED BY <1>3, <1>4, <1>5

LEMMA AddingEmpty ==
  ASSUME NEW f, NEW base, NEW cards, NEW m \in Nat, Adding(f, base, cards, m)
  PROVE  f[1 .. 0] = base
<1>1. 1 .. 0 = {} /\ {} \in SUBSET (1 .. m)
  OBVIOUS
<1> QED BY <1>1 DEF Adding

Alike(ss, tt, m) == \A i \in 1 .. m : ss[i] = tt[i]

LEMMA AddingAlike ==
  ASSUME NEW m \in Nat, NEW f, NEW base, NEW cards, NEW more,
         Alike(cards, more, m), Adding(f, base, cards, m)
  PROVE  Adding(f, base, more, m)
<1>1. ASSUME NEW s \in SUBSET (1 .. m), s # {}
      PROVE  cards[Max(s)] = more[Max(s)]
  <2>1. Max(s) \in 1 .. m
    BY <1>1, MaxOf
  <2> QED BY <2>1 DEF Alike
<1> QED BY <1>1 DEF Adding

LEMMA AddingAgrees ==
  ASSUME NEW m \in Nat, NEW f, NEW g, NEW base, NEW cards,
         Adding(f, base, cards, m), Adding(g, base, cards, m + 1)
  PROVE  f[1 .. m] = g[1 .. m]
<1> DEFINE T == {i \in 0 .. m : f[1 .. i] = g[1 .. i]}
<1>1. 0 \in T
  BY AddingEmpty
<1>2. ASSUME NEW i \in 0 .. m, i \in T, i < m
      PROVE  i + 1 \in T
  <2>1. i + 1 \in 1 .. m /\ i + 1 \in 1 .. m + 1 /\ (i + 1) - 1 = i /\ i + 1 \in 0 .. m
    BY <1>2
  <2>2. f[1 .. i + 1] = AddActivity(f[1 .. (i + 1) - 1], cards[i + 1])
    BY <2>1, AddingStep
  <2>3. g[1 .. i + 1] = AddActivity(g[1 .. (i + 1) - 1], cards[i + 1])
    BY <2>1, AddingStep
  <2>4. f[1 .. i] = g[1 .. i]
    BY <1>2
  <2> QED BY <2>1, <2>2, <2>3, <2>4
<1> HIDE DEF T
<1>3. 0 .. m \subseteq T
  BY <1>1, <1>2, AllUpTo
<1>4. m \in T
  BY <1>3
<1> QED BY <1>4 DEF T

LEMMA FoldNone ==
  ASSUME NEW base
  PROVE  AddActivities(base, <<>>) = base
<1>1. <<>> \in Seq({}) /\ Len(<<>>) = 0
  OBVIOUS
<1>2. PICK f : /\ Adding(f, base, <<>>, 0)
               /\ AddActivities(base, <<>>) = f[1 .. 0]
  BY <1>1, FoldIs
<1> QED BY <1>2, AddingEmpty

LEMMA FoldAlike ==
  ASSUME NEW S, NEW base, NEW cards \in Seq(S), NEW more \in Seq(S),
         Len(more) = Len(cards) + 1, Alike(cards, more, Len(cards))
  PROVE  AddActivities(base, more)
           = AddActivity(AddActivities(base, cards), more[Len(more)])
<1> DEFINE m == Len(cards)
<1>1. PICK f : Adding(f, base, cards, m) /\ AddActivities(base, cards) = f[1 .. m]
  BY FoldIs
<1>2. PICK g : Adding(g, base, more, m + 1) /\ AddActivities(base, more) = g[1 .. m + 1]
  BY FoldIs
<1>3. m \in Nat /\ m + 1 \in Nat /\ m + 1 \in 1 .. m + 1 /\ (m + 1) - 1 = m
  OBVIOUS
<1> HIDE DEF m
<1>4. f[1 .. m] = g[1 .. m]
  <2>1. Adding(f, base, more, m)
    BY <1>1, <1>3, AddingAlike DEF m
  <2> QED BY <1>2, <1>3, <2>1, AddingAgrees
<1>5. g[1 .. m + 1] = AddActivity(g[1 .. (m + 1) - 1], more[m + 1])
  BY <1>2, <1>3, AddingStep
<1> QED BY <1>1, <1>2, <1>3, <1>4, <1>5 DEF m

\* A card more is added behind the others.
LEMMA FoldMore ==
  ASSUME NEW S, NEW base, NEW cards \in Seq(S), NEW card \in S
  PROVE  AddActivities(base, Append(cards, card))
           = AddActivity(AddActivities(base, cards), card)
<1> DEFINE more == Append(cards, card)
<1>1. /\ more \in Seq(S) /\ Len(more) = Len(cards) + 1
      /\ Alike(cards, more, Len(cards))
      /\ more[Len(more)] = card
  BY DEF Alike
<1> HIDE DEF more
<1>2. AddActivities(base, more) = AddActivity(AddActivities(base, cards), more[Len(more)])
  BY <1>1, FoldAlike
<1> QED BY <1>1, <1>2 DEF more

LEMMA OnlyIs ==
  ASSUME NEW S, NEW list \in Seq(S), NEW places
  PROVE  Only(list, places) \in Seq(S)
<1> DEFINE parts == [i \in 1 .. Len(list) |-> IF i \in places THEN <<list[i]>> ELSE <<>>]
<1>1. Len(list) \in Nat /\ DOMAIN list = 1 .. Len(list) /\ \A i \in 1 .. Len(list) : list[i] \in S
  OBVIOUS
<1>2. parts \in Seq(Seq(S))
  <2>1. \A i \in 1 .. Len(list) : <<list[i]>> \in Seq(S) /\ <<>> \in Seq(S)
    BY <1>1
  <2> QED BY <1>1, <2>1
<1>3. Only(list, places) = FlattenSeq(parts)
  BY <1>1 DEF Only
<1>4. <<>> \in Seq(S)
  OBVIOUS
<1> HIDE DEF parts
<1> QED BY <1>2, <1>3, <1>4, Flattened

\* Something more in a list stands behind what is taken of it, or is not taken.
LEMMA OnlyMore ==
  ASSUME NEW S, NEW list \in Seq(S), NEW x \in S, NEW places, NEW more,
         \A i \in 1 .. Len(list) : i \in places <=> i \in more
  PROVE  Only(Append(list, x), more)
           = IF Len(list) + 1 \in more THEN Append(Only(list, places), x) ELSE Only(list, places)
<1> DEFINE m == Len(list)
           longer == Append(list, x)
           parts == [i \in 1 .. m |-> IF i \in places THEN <<list[i]>> ELSE <<>>]
           part == IF m + 1 \in more THEN <<x>> ELSE <<>>
           all == [i \in 1 .. m + 1 |-> IF i \in more THEN <<longer[i]>> ELSE <<>>]
<1>1. /\ m \in Nat /\ DOMAIN list = 1 .. m /\ DOMAIN longer = 1 .. m + 1
      /\ \A i \in 1 .. m : list[i] \in S /\ longer[i] = list[i]
      /\ longer[m + 1] = x
  OBVIOUS
<1> HIDE DEF m, longer
<1>2. parts \in Seq(Seq(S)) /\ Len(parts) = m
  <2>1. \A i \in 1 .. m : <<list[i]>> \in Seq(S) /\ <<>> \in Seq(S)
    BY <1>1
  <2> QED BY <1>1, <2>1
<1>3. part \in Seq(S)
  OBVIOUS
<1>4. all = Append(parts, part)
  <2>1. all \in Seq(Seq(S)) /\ Len(all) = m + 1
    <3>1. \A i \in 1 .. m + 1 : longer[i] \in S
      BY <1>1
    <3>2. \A i \in 1 .. m + 1 : <<longer[i]>> \in Seq(S) /\ <<>> \in Seq(S)
      BY <3>1
    <3> QED BY <1>1, <3>2
  <2>2. ASSUME NEW i \in 1 .. m + 1
        PROVE  all[i] = IF i = m + 1 THEN part ELSE parts[i]
    <3>1. CASE i = m + 1
      BY <1>1, <3>1
    <3>2. CASE i # m + 1
      <4>1. i \in 1 .. m
        BY <1>1, <3>2
      <4>2. (i \in places <=> i \in more) /\ longer[i] = list[i]
        BY <1>1, <4>1 DEF m
      <4> QED BY <3>2, <4>1, <4>2
    <3> QED BY <3>1, <3>2
  <2> HIDE DEF all, parts, part
  <2>3. Append(parts, part) \in Seq(Seq(S)) /\ Len(Append(parts, part)) = m + 1
        /\ \A i \in 1 .. m + 1 : Append(parts, part)[i] = IF i = m + 1 THEN part ELSE parts[i]
    BY <1>1, <1>2, <1>3
  <2> QED BY <2>1, <2>2, <2>3
<1>5. Only(longer, more) = FlattenSeq(all) /\ Only(list, places) = FlattenSeq(parts)
  BY <1>1 DEF Only
<1> HIDE DEF all, parts, part
<1>6. FlattenSeq(all) = FlattenSeq(parts) \o part /\ FlattenSeq(parts) \in Seq(S)
  BY <1>2, <1>3, <1>4, Flattened
<1>7. Only(longer, more) = Only(list, places) \o part /\ Only(list, places) \in Seq(S)
  BY <1>5, <1>6
<1> QED BY <1>7 DEF part, m, longer

LEMMA ResultsMore ==
  ASSUME NEW cards \in Seq(Cardlike), NEW card \in Cardlike
  PROVE  /\ Results(cards) \in Seq(Cardlike) /\ Answers(cards) \in Seq(Cardlike)
         /\ Results(Append(cards, card))
              = IF card.type = "tool_result" THEN Append(Results(cards), card) ELSE Results(cards)
         /\ Answers(Append(cards, card))
              = IF card.type = "output" /\ card.agent # Supervisor
                THEN Append(Answers(cards), card) ELSE Answers(cards)
<1> DEFINE all == Append(cards, card)
           m == Len(cards)
<1>1. /\ m \in Nat /\ DOMAIN cards = 1 .. m /\ DOMAIN all = 1 .. m + 1
      /\ \A i \in 1 .. m : all[i] = cards[i]
      /\ all[m + 1] = card
  OBVIOUS
<1> HIDE DEF all
<1>2. Results(all) = IF card.type = "tool_result" THEN Append(Results(cards), card) ELSE Results(cards)
  <2> DEFINE old == {i \in DOMAIN cards : cards[i].type = "tool_result"}
             new == {i \in DOMAIN all : all[i].type = "tool_result"}
  <2>1. (\A i \in 1 .. m : i \in old <=> i \in new) /\ (m + 1 \in new <=> card.type = "tool_result")
    BY <1>1
  <2>2. Results(all) = Only(all, new) /\ Results(cards) = Only(cards, old)
    BY DEF Results
  <2> HIDE DEF old, new
  <2> QED BY <2>1, <2>2, OnlyMore DEF all
<1>3. Answers(all) = IF card.type = "output" /\ card.agent # Supervisor
                     THEN Append(Answers(cards), card) ELSE Answers(cards)
  <2> DEFINE old == {i \in DOMAIN cards : cards[i].type = "output" /\ cards[i].agent # Supervisor}
             new == {i \in DOMAIN all : all[i].type = "output" /\ all[i].agent # Supervisor}
  <2>1. (\A i \in 1 .. m : i \in old <=> i \in new)
        /\ (m + 1 \in new <=> card.type = "output" /\ card.agent # Supervisor)
    BY <1>1
  <2>2. Answers(all) = Only(all, new) /\ Answers(cards) = Only(cards, old)
    BY DEF Answers
  <2> HIDE DEF old, new
  <2> QED BY <2>1, <2>2, OnlyMore DEF all
<1>4. Results(cards) \in Seq(Cardlike) /\ Answers(cards) \in Seq(Cardlike)
  BY OnlyIs DEF Results, Answers
<1> QED BY <1>2, <1>3, <1>4 DEF all

-----------------------------------------------------------------------------
(***************************************************************************)
(* The timeline and its replay.  They have different cards; they agree on  *)
(* the results and the sub-agents' answers after every envelope, and this  *)
(* is inductive along the lines of one read (LinesAgree).                  *)
(***************************************************************************)

\* Two timelines that show the same results and the same answers.
Agreeing(a, b) ==
  /\ a \in Seq(Cardlike) /\ b \in Seq(Cardlike)
  /\ Results(a) = Results(b) /\ Answers(a) = Answers(b)

LEMMA ActivityAdded ==
  ASSUME NEW a \in Seq(Cardlike), NEW c \in Cardlike
  PROVE  LET b == AddActivity(a, c)
         IN  /\ b \in Seq(Cardlike)
             /\ Results(b) = IF c.type = "tool_result" THEN Append(Results(a), c) ELSE Results(a)
             /\ Answers(b) = IF c.type = "output" /\ c.agent # Supervisor
                             THEN Append(Answers(a), c) ELSE Answers(a)
<1>1. CASE AddActivity(a, c) = Append(a, c)
  <2>1. Append(a, c) \in Seq(Cardlike)
    OBVIOUS
  <2> QED BY <1>1, <2>1, ResultsMore
<1>2. CASE AddActivity(a, c) # Append(a, c)
  <2>1. AddActivity(a, c) = a /\ c.type = "thinking"
    BY <1>2 DEF AddActivity
  <2> QED BY <2>1
<1> QED BY <1>1, <1>2

\* One card or none behind others.
LEMMA MaybeMore ==
  ASSUME NEW a \in Seq(Cardlike), NEW c \in Cardlike, NEW p \in BOOLEAN
  PROVE  LET b == a \o (IF p THEN <<c>> ELSE <<>>)
         IN  /\ b \in Seq(Cardlike)
             /\ Results(b) = IF p /\ c.type = "tool_result" THEN Append(Results(a), c) ELSE Results(a)
             /\ Answers(b) = IF p /\ c.type = "output" /\ c.agent # Supervisor
                             THEN Append(Answers(a), c) ELSE Answers(a)
<1>1. a \o <<c>> = Append(a, c) /\ a \o <<>> = a /\ Append(a, c) \in Seq(Cardlike)
  OBVIOUS
<1> QED BY <1>1, ResultsMore

\* What an event leaves on a timeline, live and replayed: the same result or the
\* same answer.
IsResult(e) == e.call = NoTool /\ e.result # NoTool
IsAnswer(e) == e.call = NoTool /\ e.result = NoTool /\ e.says /\ e.agent # Supervisor

LEMMA LiveAdds ==
  ASSUME NEW a \in Seq(Cardlike), NEW e \in Event
  PROVE  \/ Live(e) = <<>> /\ ~ IsResult(e) /\ ~ IsAnswer(e)
         \/ \E c \in Cardlike :
              /\ Live(e) = <<c>>
              /\ (c.type = "tool_result" <=> IsResult(e))
              /\ (IsResult(e) => c = Card(e.agent, "tool_result", e.result))
              /\ (c.type = "output" /\ c.agent # Supervisor <=> IsAnswer(e))
              /\ (IsAnswer(e) => c = Card(e.agent, "output", NoTool))
<1> USE DEF IsResult, IsAnswer
<1>1. /\ e.agent \in SubAgents \cup {Supervisor} /\ e.call \in Tools \cup {NoTool}
      /\ e.result \in Tools \cup {NoTool} /\ e.says \in BOOLEAN
  BY DEF Event
<1>2. ASSUME NEW type \in {"thinking", "tool_call", "tool_result", "output", "transfer", "error"},
             NEW of \in Tools \cup {NoTool, Waiting}
      PROVE  /\ Card(e.agent, type, of) \in Cardlike
             /\ Card(e.agent, type, of).type = type
             /\ Card(e.agent, type, of).agent = e.agent
  BY <1>1 DEF Card, Cardlike
<1>3. CASE e.call # NoTool
  BY <1>1, <1>2, <1>3 DEF Live
<1>4. CASE e.call = NoTool /\ e.result # NoTool
  BY <1>1, <1>2, <1>4 DEF Live
<1>5. CASE e.call = NoTool /\ e.result = NoTool /\ e.says
  BY <1>1, <1>2, <1>5 DEF Live
<1>6. CASE e.call = NoTool /\ e.result = NoTool /\ ~ e.says
  BY <1>1, <1>2, <1>6 DEF Live
<1> QED BY <1>1, <1>3, <1>4, <1>5, <1>6

LEMMA ReplayedAdds ==
  ASSUME NEW b \in Seq(Cardlike), NEW e \in Event
  PROVE  /\ Replayed(e) \in Seq(Cardlike) /\ b \o Replayed(e) \in Seq(Cardlike)
         /\ Results(b \o Replayed(e))
              = IF IsResult(e) THEN Append(Results(b), Card(e.agent, "tool_result", e.result))
                ELSE Results(b)
         /\ Answers(b \o Replayed(e))
              = IF IsAnswer(e) THEN Append(Answers(b), Card(e.agent, "output", NoTool))
                ELSE Answers(b)
<1> DEFINE t == Card(e.agent, "transfer", NoTool)
           r == Card(e.agent, "thinking", NoTool)
           x == IF e.call # NoTool THEN Card(e.agent, "tool_call", e.call)
                ELSE IF e.result # NoTool THEN Card(e.agent, "tool_result", e.result)
                ELSE Card(e.agent, "output", NoTool)
           p == e.call # NoTool \/ e.result # NoTool \/ e.says
           first == IF e.action = "transfer" THEN <<t>> ELSE <<>>
           second == IF e.reasons THEN <<r>> ELSE <<>>
           third == IF p THEN <<x>> ELSE <<>>
<1>1. /\ e.agent \in SubAgents \cup {Supervisor} /\ e.call \in Tools \cup {NoTool}
      /\ e.result \in Tools \cup {NoTool} /\ e.says \in BOOLEAN /\ e.reasons \in BOOLEAN
  BY DEF Event
<1>2. /\ t \in Cardlike /\ t.type = "transfer"
      /\ r \in Cardlike /\ r.type = "thinking"
      /\ x \in Cardlike /\ x.agent = e.agent
      /\ x.type = IF e.call # NoTool THEN "tool_call"
                  ELSE IF e.result # NoTool THEN "tool_result" ELSE "output"
  BY <1>1 DEF Card, Cardlike
<1>3. IsResult(e) => x = Card(e.agent, "tool_result", e.result) /\ p
  BY DEF IsResult
<1>4. IsAnswer(e) => x = Card(e.agent, "output", NoTool) /\ p
  BY DEF IsAnswer
<1>5. (p /\ x.type = "tool_result") <=> IsResult(e)
  BY <1>1, <1>2 DEF IsResult
<1>6. (p /\ x.type = "output" /\ x.agent # Supervisor) <=> IsAnswer(e)
  BY <1>1, <1>2 DEF IsAnswer
<1>7. Replayed(e) = first \o second \o third
  BY <1>1 DEF Replayed
<1> HIDE DEF x, p, t, r
<1>8. first \in Seq(Cardlike) /\ second \in Seq(Cardlike) /\ third \in Seq(Cardlike)
  BY <1>2
<1>9. p \in BOOLEAN
  BY <1>1 DEF p
<1>10. /\ b \o first \in Seq(Cardlike)
       /\ Results(b \o first) = Results(b) /\ Answers(b \o first) = Answers(b)
  BY <1>2, MaybeMore
<1>11. /\ (b \o first) \o second \in Seq(Cardlike)
       /\ Results((b \o first) \o second) = Results(b)
       /\ Answers((b \o first) \o second) = Answers(b)
  <2> DEFINE d == b \o first
  <2>1. d \in Seq(Cardlike) /\ Results(d) = Results(b) /\ Answers(d) = Answers(b)
    BY <1>10
  <2> HIDE DEF d
  <2>2. /\ d \o second \in Seq(Cardlike)
        /\ Results(d \o second) = Results(d) /\ Answers(d \o second) = Answers(d)
    BY <1>1, <1>2, <2>1, MaybeMore
  <2> QED BY <2>1, <2>2 DEF d
<1>12. /\ ((b \o first) \o second) \o third \in Seq(Cardlike)
       /\ Results(((b \o first) \o second) \o third) = IF IsResult(e) THEN Append(Results(b), x) ELSE Results(b)
       /\ Answers(((b \o first) \o second) \o third) = IF IsAnswer(e) THEN Append(Answers(b), x) ELSE Answers(b)
  <2> DEFINE d == (b \o first) \o second
  <2>1. d \in Seq(Cardlike) /\ Results(d) = Results(b) /\ Answers(d) = Answers(b)
    BY <1>11
  <2> HIDE DEF d
  <2>2. /\ d \o third \in Seq(Cardlike)
        /\ Results(d \o third) = IF p /\ x.type = "tool_result" THEN Append(Results(d), x) ELSE Results(d)
        /\ Answers(d \o third) = IF p /\ x.type = "output" /\ x.agent # Supervisor
                                 THEN Append(Answers(d), x) ELSE Answers(d)
    BY <1>2, <1>9, <2>1, MaybeMore
  <2> QED BY <1>5, <1>6, <2>1, <2>2 DEF d
<1> HIDE DEF first, second, third
<1>13. /\ b \o (first \o second \o third) = ((b \o first) \o second) \o third
       /\ first \o second \o third \in Seq(Cardlike)
  BY <1>8
<1> QED BY <1>3, <1>4, <1>7, <1>12, <1>13

Sent == [type : Types, event : Event]
\* The events among the first m envelopes.
SeenBy(m) == Only([k \in 1 .. m |-> sent[k].event], {k \in 1 .. m : sent[k].type = "event"})

LEMMA SeenMore ==
  ASSUME sent \in Seq(Sent), NEW m \in Nat, m + 1 <= Len(sent)
  PROVE  /\ SeenBy(m) \in Seq(Event)
         /\ SeenBy(m + 1) = IF sent[m + 1].type = "event"
                            THEN Append(SeenBy(m), sent[m + 1].event) ELSE SeenBy(m)
<1> DEFINE list == [k \in 1 .. m |-> sent[k].event]
           longer == [k \in 1 .. m + 1 |-> sent[k].event]
           x == sent[m + 1].event
           old == {k \in 1 .. m : sent[k].type = "event"}
           new == {k \in 1 .. m + 1 : sent[k].type = "event"}
<1>1. \A k \in 1 .. m + 1 : sent[k] \in Sent
  <2>1. \A k \in 1 .. m + 1 : k \in 1 .. Len(sent)
    OBVIOUS
  <2> QED BY <2>1
<1>2. \A k \in 1 .. m + 1 : sent[k].event \in Event
  BY <1>1 DEF Sent
<1>3. list \in Seq(Event) /\ Len(list) = m /\ x \in Event
  <2>1. \A k \in 1 .. m : sent[k].event \in Event
    BY <1>2
  <2>2. m + 1 \in 1 .. m + 1
    OBVIOUS
  <2> QED BY <1>2, <2>1, <2>2
<1>4. longer = Append(list, x)
  <2>1. longer \in Seq(Event) /\ Len(longer) = m + 1
    BY <1>2
  <2>2. \A k \in 1 .. m + 1 : longer[k] = IF k = m + 1 THEN x ELSE list[k]
    OBVIOUS
  <2> HIDE DEF longer, list, x
  <2>3. Append(list, x) \in Seq(Event) /\ Len(Append(list, x)) = m + 1
        /\ \A k \in 1 .. m + 1 : Append(list, x)[k] = IF k = m + 1 THEN x ELSE list[k]
    BY <1>3
  <2> QED BY <2>1, <2>2, <2>3
<1>5. (\A k \in 1 .. m : k \in old <=> k \in new) /\ (m + 1 \in new <=> sent[m + 1].type = "event")
  OBVIOUS
<1>6. SeenBy(m) = Only(list, old) /\ SeenBy(m + 1) = Only(longer, new)
  BY DEF SeenBy
<1> HIDE DEF list, longer, x, old, new
<1>7. Only(list, old) \in Seq(Event)
  BY <1>3, OnlyIs
<1>8. Only(longer, new) = IF m + 1 \in new THEN Append(Only(list, old), x) ELSE Only(list, old)
  BY <1>3, <1>4, <1>5, OnlyMore
<1> QED BY <1>5, <1>6, <1>7, <1>8 DEF x

LEMMA ReplayMore ==
  ASSUME NEW events \in Seq(Event)
  PROVE  /\ Replay(events) \in Seq(Cardlike)
         /\ \A e \in Event : Replay(Append(events, e)) = Replay(events) \o Replayed(e)
<1> DEFINE m == Len(events)
           parts == [k \in 1 .. m |-> Replayed(events[k])]
<1>1. m \in Nat /\ DOMAIN events = 1 .. m /\ \A k \in 1 .. m : events[k] \in Event
  OBVIOUS
<1>2. \A e \in Event : Replayed(e) \in Seq(Cardlike)
  <2>1. <<>> \in Seq(Cardlike)
    OBVIOUS
  <2> QED BY <2>1, ReplayedAdds
<1>3. parts \in Seq(Seq(Cardlike)) /\ Len(parts) = m
  <2>1. \A k \in 1 .. m : Replayed(events[k]) \in Seq(Cardlike)
    BY <1>1, <1>2
  <2> QED BY <1>1, <2>1
<1>4. Replay(events) = FlattenSeq(parts)
  BY <1>1 DEF Replay
<1>5. <<>> \in Seq(Cardlike)
  OBVIOUS
<1>6. Replay(events) \in Seq(Cardlike)
  <2> HIDE DEF parts
  <2> QED BY <1>3, <1>4, <1>5, Flattened
<1>7. ASSUME NEW e \in Event
      PROVE  Replay(Append(events, e)) = Replay(events) \o Replayed(e)
  <2> DEFINE more == Append(events, e)
             all == [k \in 1 .. m + 1 |-> Replayed(more[k])]
             part == Replayed(e)
  <2>1. /\ more \in Seq(Event) /\ DOMAIN more = 1 .. m + 1
        /\ \A k \in 1 .. m + 1 : more[k] \in Event
        /\ \A k \in 1 .. m : more[k] = events[k]
        /\ more[m + 1] = e
    OBVIOUS
  <2> HIDE DEF more
  <2>2. Replay(more) = FlattenSeq(all)
    BY <2>1 DEF Replay
  <2>3. all \in Seq(Seq(Cardlike)) /\ Len(all) = m + 1
    <3>1. \A k \in 1 .. m + 1 : Replayed(more[k]) \in Seq(Cardlike)
      BY <1>2, <2>1
    <3> QED BY <1>1, <3>1
  <2>4. \A k \in 1 .. m + 1 : all[k] = IF k = m + 1 THEN part ELSE parts[k]
    BY <1>1, <2>1
  <2>5. part \in Seq(Cardlike)
    BY <1>2
  <2> HIDE DEF all, parts, part, m
  <2>6. Append(parts, part) \in Seq(Seq(Cardlike)) /\ Len(Append(parts, part)) = m + 1
        /\ \A k \in 1 .. m + 1 : Append(parts, part)[k] = IF k = m + 1 THEN part ELSE parts[k]
    BY <1>1, <1>3, <2>5
  <2>7. all = Append(parts, part)
    BY <1>1, <2>3, <2>4, <2>6
  <2>8. FlattenSeq(all) = FlattenSeq(parts) \o part
    BY <1>3, <2>5, <2>7, Flattened
  <2> QED BY <1>4, <2>2, <2>8 DEF more, part
<1> QED BY <1>6, <1>7

\* What an envelope shows is one card or none, and the same result or answer as
\* what is replayed of it.
LEMMA EnvelopeAgrees ==
  ASSUME NEW a, NEW b, Agreeing(a, b), NEW envelope \in Sent
  PROVE  LET replay == IF envelope.type = "event" THEN b \o Replayed(envelope.event) ELSE b
         IN  \/ Shows(envelope) = <<>> /\ Agreeing(a, replay)
             \/ \E c \in Cardlike : Shows(envelope) = <<c>> /\ Agreeing(AddActivity(a, c), replay)
<1>1. a \in Seq(Cardlike) /\ b \in Seq(Cardlike) /\ Results(a) = Results(b) /\ Answers(a) = Answers(b)
  BY DEF Agreeing
<1>2. CASE envelope.type = "event"
  <2> DEFINE e == envelope.event
  <2>1. e \in Event /\ Shows(envelope) = Live(e)
    BY <1>2 DEF Sent, Shows
  <2> HIDE DEF e
  <2>2. /\ b \o Replayed(e) \in Seq(Cardlike)
        /\ Results(b \o Replayed(e))
             = IF IsResult(e) THEN Append(Results(b), Card(e.agent, "tool_result", e.result)) ELSE Results(b)
        /\ Answers(b \o Replayed(e))
             = IF IsAnswer(e) THEN Append(Answers(b), Card(e.agent, "output", NoTool)) ELSE Answers(b)
    BY <1>1, <2>1, ReplayedAdds
  <2>3. CASE Live(e) = <<>> /\ ~ IsResult(e) /\ ~ IsAnswer(e)
    BY <1>1, <1>2, <2>1, <2>2, <2>3 DEF Agreeing, e
  <2>4. ASSUME NEW c \in Cardlike, Live(e) = <<c>>,
               c.type = "tool_result" <=> IsResult(e),
               IsResult(e) => c = Card(e.agent, "tool_result", e.result),
               c.type = "output" /\ c.agent # Supervisor <=> IsAnswer(e),
               IsAnswer(e) => c = Card(e.agent, "output", NoTool)
        PROVE  Shows(envelope) = <<c>> /\ Agreeing(AddActivity(a, c), b \o Replayed(e))
    <3>1. /\ AddActivity(a, c) \in Seq(Cardlike)
          /\ Results(AddActivity(a, c)) = IF c.type = "tool_result" THEN Append(Results(a), c) ELSE Results(a)
          /\ Answers(AddActivity(a, c)) = IF c.type = "output" /\ c.agent # Supervisor
                                          THEN Append(Answers(a), c) ELSE Answers(a)
      BY <1>1, ActivityAdded
    <3>2. Results(AddActivity(a, c)) = Results(b \o Replayed(e))
      BY <1>1, <2>2, <2>4, <3>1
    <3>3. Answers(AddActivity(a, c)) = Answers(b \o Replayed(e))
      BY <1>1, <2>2, <2>4, <3>1
    <3> QED BY <2>1, <2>2, <2>4, <3>1, <3>2, <3>3 DEF Agreeing
  <2> QED BY <1>1, <1>2, <2>1, <2>3, <2>4, LiveAdds DEF e
<1>3. CASE envelope.type # "event" /\ Shows(envelope) = <<>>
  BY <1>3
<1>4. CASE envelope.type # "event" /\ Shows(envelope) # <<>>
  <2>1. PICK c : /\ Shows(envelope) = <<c>>
                 /\ c \in {Card(Supervisor, "error", NoTool), Card(System, "thinking", NoTool),
                           Card(Supervisor, "output", NoTool)}
    BY <1>4 DEF Shows
  <2>2. /\ c \in Cardlike /\ c.type # "tool_result"
        /\ ~ (c.type = "output" /\ c.agent # Supervisor)
    BY <2>1 DEF Card, Cardlike
  <2>3. Agreeing(AddActivity(a, c), b)
    BY <1>1, <2>2, ActivityAdded DEF Agreeing
  <2> QED BY <1>4, <2>1, <2>2, <2>3
<1> QED BY <1>2, <1>3, <1>4

\* What the page and a replay make of the envelopes that were read.
Agreed == Agreeing(timeline, Replay(SeenEvents))

LEMMA SeenIs ==
  ASSUME InText
  PROVE  SeenEvents = SeenBy(Len(parsed))
<1>1. Len(parsed) \in Nat /\ parsed = [k \in 1 .. Len(parsed) |-> k]
  BY DEF InText
<1>2. DOMAIN parsed = 1 .. Len(parsed) /\ \A k \in 1 .. Len(parsed) : parsed[k] = k
  BY <1>1
<1>3. [k \in DOMAIN parsed |-> sent[parsed[k]].event] = [k \in 1 .. Len(parsed) |-> sent[k].event]
  BY <1>2
<1>4. {k \in DOMAIN parsed : sent[parsed[k]].type = "event"} = {k \in 1 .. Len(parsed) : sent[k].type = "event"}
  BY <1>2
<1> QED BY <1>3, <1>4 DEF SeenEvents, SeenBy

LEMMA SeenKeeps ==
  ASSUME InText, NEW type \in Types, NEW event \in Event, Write(type, event)
  PROVE  SeenEvents' = SeenEvents
<1>1. /\ sent \in Seq(Sent) /\ Len(parsed) \in Nat /\ Len(parsed) <= Len(sent)
      /\ parsed = [k \in 1 .. Len(parsed) |-> k]
  BY DEF InText, Sent
<1>2. /\ parsed' = parsed /\ \A k \in 1 .. Len(sent) : sent'[k] = sent[k]
  BY WriteText DEF Write
<1>3. \A k \in DOMAIN parsed : sent'[parsed[k]] = sent[parsed[k]]
  BY <1>1, <1>2
<1>4. [k \in DOMAIN parsed |-> sent'[parsed[k]].event] = [k \in DOMAIN parsed |-> sent[parsed[k]].event]
  BY <1>3
<1>5. {k \in DOMAIN parsed : sent'[parsed[k]].type = "event"} = {k \in DOMAIN parsed : sent[parsed[k]].type = "event"}
  BY <1>3
<1> QED BY <1>2, <1>4, <1>5 DEF SeenEvents

\* Envelope by envelope, whatever a read brings.
LEMMA LinesAgree ==
  ASSUME sent \in Seq(Sent), NEW m \in Nat, NEW c \in Nat, m + c <= Len(sent),
         Agreeing(timeline, Replay(SeenBy(m)))
  PROVE  Agreeing(AddActivities(timeline, FlattenSeq([j \in 1 .. c |-> Shows(sent[m + j])])),
                  Replay(SeenBy(m + c)))
<1> DEFINE News(i) == [j \in 1 .. i |-> Shows(sent[m + j])]
           T == {i \in 0 .. c : /\ News(i) \in Seq(Seq(Cardlike))
                                /\ Agreeing(AddActivities(timeline, FlattenSeq(News(i))), Replay(SeenBy(m + i)))}
<1>1. 0 \in T
  <2>1. News(0) = <<>> /\ News(0) \in Seq(Seq(Cardlike)) /\ Len(<<>>) = 0
    OBVIOUS
  <2>2. FlattenSeq(<<>>) = <<>>
    BY DEF FlattenSeq
  <2>3. AddActivities(timeline, FlattenSeq(News(0))) = timeline
    BY <2>1, <2>2, FoldNone
  <2>4. m + 0 = m /\ 0 \in 0 .. c
    OBVIOUS
  <2> HIDE DEF News
  <2> QED BY <2>1, <2>3, <2>4
<1>2. ASSUME NEW i \in 0 .. c, i \in T, i < c
      PROVE  i + 1 \in T
  <2> DEFINE envelope == sent[m + (i + 1)]
             news == News(i)
             a == AddActivities(timeline, FlattenSeq(news))
             b == Replay(SeenBy(m + i))
  <2>1. news \in Seq(Seq(Cardlike)) /\ Agreeing(a, b)
    BY <1>2
  <2>2. /\ m + i \in Nat /\ (m + i) + 1 = m + (i + 1) /\ (m + i) + 1 <= Len(sent)
        /\ m + (i + 1) \in 1 .. Len(sent) /\ i + 1 \in 0 .. c
    BY <1>2
  <2>3. envelope \in Sent
    BY <2>2
  <2>4. Replay(SeenBy(m + (i + 1))) = IF envelope.type = "event" THEN b \o Replayed(envelope.event) ELSE b
    <3>1. /\ SeenBy(m + i) \in Seq(Event)
          /\ SeenBy(m + (i + 1)) = IF envelope.type = "event"
                                   THEN Append(SeenBy(m + i), envelope.event) ELSE SeenBy(m + i)
      <4> DEFINE k == m + i
      <4>1. k \in Nat /\ k + 1 <= Len(sent) /\ k + 1 = m + (i + 1)
        BY <2>2
      <4> HIDE DEF k
      <4>2. /\ SeenBy(k) \in Seq(Event)
            /\ SeenBy(k + 1) = IF sent[k + 1].type = "event"
                               THEN Append(SeenBy(k), sent[k + 1].event) ELSE SeenBy(k)
        BY <4>1, SeenMore
      <4> QED BY <4>1, <4>2 DEF k
    <3>2. envelope.event \in Event
      BY <2>3 DEF Sent
    <3> HIDE DEF envelope
    <3> QED BY <3>1, <3>2, ReplayMore
  <2>5. Len(news) = i /\ News(i + 1) = Append(news, Shows(envelope))
    <3>1. Len(news) = i /\ i \in Nat
      BY <1>2
    <3>2. Append(news, Shows(envelope)) = [j \in 1 .. i + 1 |-> IF j = i + 1 THEN Shows(envelope) ELSE news[j]]
      BY <2>1, <3>1
    <3>3. ASSUME NEW j \in 1 .. i + 1
          PROVE  Shows(sent[m + j]) = IF j = i + 1 THEN Shows(envelope) ELSE news[j]
      <4>1. CASE j = i + 1
        BY <4>1
      <4>2. CASE j # i + 1
        <5>1. j \in 1 .. i
          BY <3>1, <4>2
        <5> QED BY <4>2, <5>1
      <4> QED BY <4>1, <4>2
    <3> HIDE DEF envelope, news
    <3> QED BY <3>1, <3>2, <3>3
  <2> HIDE DEF News, news, a, b, envelope
  <2>6. FlattenSeq(news) \in Seq(Cardlike)
    <3>1. <<>> \in Seq(Cardlike)
      OBVIOUS
    <3> QED BY <2>1, <3>1, Flattened
  <2> DEFINE replay == IF envelope.type = "event" THEN b \o Replayed(envelope.event) ELSE b
  <2>7. CASE Shows(envelope) = <<>> /\ Agreeing(a, replay)
    <3>1. <<>> \in Seq(Cardlike)
      OBVIOUS
    <3> DEFINE all == Append(news, <<>>)
    <3>2. all \in Seq(Seq(Cardlike)) /\ FlattenSeq(all) = FlattenSeq(news) \o <<>>
      BY <2>1, <3>1, Flattened
    <3>3. News(i + 1) = all
      BY <2>5, <2>7
    <3> HIDE DEF all
    <3>4. FlattenSeq(all) = FlattenSeq(news)
      BY <2>6, <3>2
    <3>5. AddActivities(timeline, FlattenSeq(News(i + 1))) = a
      BY <3>3, <3>4 DEF a
    <3> QED BY <2>2, <2>4, <2>7, <3>2, <3>3, <3>5
  <2>8. ASSUME NEW card \in Cardlike, Shows(envelope) = <<card>>, Agreeing(AddActivity(a, card), replay)
        PROVE  i + 1 \in T
    <3>1. <<card>> \in Seq(Cardlike)
      OBVIOUS
    <3> DEFINE all == Append(news, <<card>>)
    <3>2. all \in Seq(Seq(Cardlike)) /\ FlattenSeq(all) = FlattenSeq(news) \o <<card>>
      BY <2>1, <3>1, Flattened
    <3>3. News(i + 1) = all
      BY <2>5, <2>8
    <3> HIDE DEF all
    <3>4. FlattenSeq(all) = Append(FlattenSeq(news), card)
      BY <2>6, <3>2
    <3>5. AddActivities(timeline, Append(FlattenSeq(news), card)) = AddActivity(a, card)
      BY <2>6, FoldMore DEF a
    <3>6. AddActivities(timeline, FlattenSeq(News(i + 1))) = AddActivity(a, card)
      BY <3>3, <3>4, <3>5
    <3> QED BY <2>2, <2>4, <2>8, <3>2, <3>3, <3>6
  <2> QED BY <2>1, <2>3, <2>7, <2>8, EnvelopeAgrees
<1> HIDE DEF T
<1>3. 0 .. c \subseteq T
  BY <1>1, <1>2, AllUpTo
<1>4. c \in T
  BY <1>3
<1> QED BY <1>4 DEF T

LEMMA ReadAgreed ==
  ASSUME InText, Agreed, NEW n, Read(n)
  PROVE  Agreed'
<1> DEFINE m == Len(parsed)
           k == Len(parsed')
           lines == Lines(buffer \o SubSeq(wire, 1, n), n)
<1>1. /\ InText' /\ m <= k /\ k <= Len(sent)
      /\ lines = [j \in 1 .. k - m |-> m + j]
  BY ReadText
<1>2. m \in Nat /\ k \in Nat /\ sent \in Seq(Sent) /\ Len(sent) \in Nat
  BY <1>1 DEF InText, Sent
<1>3. /\ sent' = sent
      /\ timeline' = AddActivities(timeline, FlattenSeq([i \in DOMAIN lines |-> Shows(sent[lines[i]])]))
  BY DEF Read
<1> HIDE DEF lines
<1>4. [i \in DOMAIN lines |-> Shows(sent[lines[i]])] = [j \in 1 .. k - m |-> Shows(sent[m + j])]
  BY <1>1
<1>5. SeenEvents' = SeenBy(k)
  <2>1. parsed' = [j \in 1 .. k |-> j]
    BY <1>1 DEF InText
  <2>2. DOMAIN parsed' = 1 .. k /\ \A j \in 1 .. k : parsed'[j] = j
    BY <2>1
  <2> HIDE DEF k
  <2>3. [j \in DOMAIN parsed' |-> sent'[parsed'[j]].event] = [j \in 1 .. k |-> sent[j].event]
    BY <1>3, <2>2
  <2>4. {j \in DOMAIN parsed' : sent'[parsed'[j]].type = "event"} = {j \in 1 .. k : sent[j].type = "event"}
    BY <1>3, <2>2
  <2> QED BY <2>3, <2>4 DEF SeenEvents, SeenBy
<1>6. Agreeing(timeline, Replay(SeenBy(m)))
  BY SeenIs DEF Agreed
<1> HIDE DEF m, k
<1>7. k - m \in Nat /\ m + (k - m) = k
  BY <1>1, <1>2
<1>8. Agreeing(timeline', Replay(SeenBy(k)))
  <2> DEFINE c == k - m
  <2>1. c \in Nat /\ m + c = k /\ m + c <= Len(sent)
    BY <1>1, <1>7
  <2>2. timeline' = AddActivities(timeline, FlattenSeq([j \in 1 .. c |-> Shows(sent[m + j])]))
    BY <1>3, <1>4
  <2> HIDE DEF c
  <2>3. Agreeing(AddActivities(timeline, FlattenSeq([j \in 1 .. c |-> Shows(sent[m + j])])),
                 Replay(SeenBy(m + c)))
    BY <1>2, <1>6, <2>1, LinesAgree
  <2> QED BY <2>1, <2>2, <2>3
<1> QED BY <1>5, <1>8 DEF Agreed

\* The text is about envelopes that were written.
LEMMA AtSent ==
  ASSUME NEW k \in Nat, NEW p \in 1 .. 4 * k
  PROVE  At(p) \in Characters(k)
<1> DEFINE j == (p + 3) \div 4
<1>1. j \in 0 .. k
  OBVIOUS
<1>2. At(p) \in {[line |-> j, half |-> 1], [line |-> j, half |-> 2], [line |-> 0, half |-> 0]}
  BY DEF At, Newline
<1> HIDE DEF j
<1>3. /\ [line |-> j, half |-> 1] \in Characters(k) /\ [line |-> j, half |-> 2] \in Characters(k)
      /\ [line |-> 0, half |-> 0] \in Characters(k)
  BY <1>1 DEF Characters
<1> QED BY <1>2, <1>3

LEMMA ReaderTypes ==
  ASSUME ReaderInv, Agreed
  PROVE  ReaderTypeOK
<1>1. /\ sent \in Seq([type : Types, event : Event]) /\ Len(sent) \in Nat
      /\ wire \in Seq(Chars) /\ buffer \in Seq(Chars) /\ Len(wire) \in Nat /\ Len(buffer) \in Nat
      /\ Len(parsed) \in Nat /\ Len(parsed) <= Len(sent)
      /\ parsed = [k \in 1 .. Len(parsed) |-> k]
      /\ Off \in Nat /\ Off = 4 * Len(sent) - Len(wire) - Len(buffer)
      /\ \A i \in 1 .. Len(buffer) : buffer[i] = At(Off + i)
      /\ \A i \in 1 .. Len(wire) : wire[i] = At(Off + Len(buffer) + i)
  BY DEF ReaderInv, InText, Off
<1>2. \A k \in DOMAIN sent : sent[k].type \in Types /\ sent[k].event \in Event
  <2>1. sent \in Seq(Sent)
    BY <1>1 DEF Sent
  <2>2. \A k \in DOMAIN sent : sent[k] \in Sent
    BY <2>1
  <2> QED BY <2>2 DEF Sent
<1>3. wire \in Seq(Characters(Len(sent)))
  <2>1. ASSUME NEW i \in 1 .. Len(wire) PROVE wire[i] \in Characters(Len(sent))
    <3>1. Off + Len(buffer) + i \in 1 .. 4 * Len(sent)
      BY <1>1
    <3> QED BY <1>1, <3>1, AtSent
  <2> QED BY <1>1, <2>1
<1>4. buffer \in Seq(Characters(Len(sent)))
  <2>1. ASSUME NEW i \in 1 .. Len(buffer) PROVE buffer[i] \in Characters(Len(sent))
    <3>1. Off + i \in 1 .. 4 * Len(sent)
      BY <1>1
    <3> QED BY <1>1, <3>1, AtSent
  <2> QED BY <1>1, <2>1
<1>5. parsed \in Seq(DOMAIN sent)
  <2>1. DOMAIN sent = 1 .. Len(sent)
    BY <1>1
  <2>2. \A k \in 1 .. Len(parsed) : k \in DOMAIN sent
    BY <1>1, <2>1
  <2> QED BY <1>1, <2>2
<1>6. timeline \in Seq(Cardlike)
  BY DEF Agreed, Agreeing
<1>7. asks \in BOOLEAN /\ interrupts \in BOOLEAN /\ reader \in {"reading", "returned", "failed"}
  BY DEF ReaderInv, Heard
<1> QED BY <1>2, <1>3, <1>4, <1>5, <1>6, <1>7 DEF ReaderTypeOK

LEMMA AgreedInit == ReaderInit => Agreed
<1> SUFFICES ASSUME ReaderInit PROVE Agreed
  OBVIOUS
<1>1. timeline = <<>> /\ parsed = <<>> /\ <<>> \in Seq(Cardlike)
  BY DEF ReaderInit
<1>2. DOMAIN parsed = {} /\ [k \in {} |-> sent[parsed[k]].event] = <<>>
  BY <1>1
<1>3. \A places : Only(<<>>, places) = <<>>
  <2>1. \A places : [i \in DOMAIN <<>> |-> IF i \in places THEN <<<<>>[i]>> ELSE <<>>] = <<>>
    OBVIOUS
  <2> QED BY <2>1 DEF Only, FlattenSeq
<1>4. SeenEvents = <<>>
  BY <1>2, <1>3 DEF SeenEvents
<1>5. Replay(<<>>) = <<>>
  <2>1. [k \in DOMAIN <<>> |-> Replayed(<<>>[k])] = <<>>
    OBVIOUS
  <2> QED BY <2>1 DEF Replay, FlattenSeq
<1> QED BY <1>1, <1>4, <1>5 DEF Agreed, Agreeing

LEMMA AgreedStep == ReaderInv /\ Agreed /\ [ReaderNext]_readerVars => Agreed'
<1> SUFFICES ASSUME ReaderInv, Agreed, [ReaderNext]_readerVars PROVE Agreed'
  OBVIOUS
<1>1. InText
  BY DEF ReaderInv
<1>2. NoEvent \in Event /\ \A p \in BOOLEAN : [NoEvent EXCEPT !.says = p] \in Event
  BY DEF NoEvent, Event
<1>3. ASSUME SeenEvents' = SeenEvents, timeline' = timeline
      PROVE  Agreed'
  BY <1>3 DEF Agreed, Agreeing, Replay, Results, Answers
<1>4. CASE (\E e \in Event : WriteEvent(e)) \/ WriteOther \/ WriteFinal
  <2>1. PICK type \in Types, event \in Event : Write(type, event)
    BY <1>2, <1>4 DEF WriteEvent, WriteOther, WriteFinal, Types
  <2>2. timeline' = timeline /\ SeenEvents' = SeenEvents
    BY <1>1, <2>1, SeenKeeps DEF Write
  <2> QED BY <1>3, <2>2
<1>5. CASE \E n \in 1 .. Len(wire) : Read(n)
  BY <1>1, <1>5, ReadAgreed
<1>6. CASE Done \/ Break \/ UNCHANGED readerVars
  <2>1. UNCHANGED <<sent, parsed, timeline>>
    BY <1>6 DEF Done, Break, readerVars
  <2> QED BY <1>3, <2>1 DEF SeenEvents
<1> QED BY <1>4, <1>5, <1>6 DEF ReaderNext

\* The reader's variables have their types, the cards that handleEvent adds to the
\* timeline included.
THEOREM ReaderTyped == ReaderSpec => []ReaderTypeOK
<1> QED BY ReaderTypes, InitReader, ReaderStep, AgreedInit, AgreedStep, PTL DEF ReaderSpec

\* What replayActivitiesFromEvents makes of the stored events has the results that
\* handleEvent added to the live timeline, and the sub-agents' answers, in the same
\* order, after any number of events and wherever the stream breaks.
THEOREM ReplayIsLive == ReaderSpec => []ReplayAgrees
<1>1. Agreed => ReplayAgrees
  BY DEF Agreed, Agreeing, ReplayAgrees
<1> QED BY <1>1, InitReader, ReaderStep, AgreedInit, AgreedStep, PTL DEF ReaderSpec
=============================================================================
