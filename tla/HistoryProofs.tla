--------------------------- MODULE HistoryProofs ---------------------------
(***************************************************************************)
(* What the sanitizer's output guarantees, for all histories: the types,   *)
(* that every tool call is answered in its turn (Paired), that no call id  *)
(* occurs twice (CallsOnce), that compaction finds sanitized histories as  *)
(* they are (Stable) and keeps the latest user message (LatestUserKept).   *)
(*                                                                         *)
(* CallsOnce is not inductive: that a new turn repeats no id of an earlier *)
(* one follows only because resolved covers the ids of the calls that are  *)
(* already in the output.                                                  *)
(*                                                                         *)
(* The last part is about the calls that send these histories (Failover).  *)
(***************************************************************************)
EXTENDS History, Failover, FiniteSetTheorems, SequenceTheorems, TLAPS

\* The ids of the calls in the output are resolved.
IdsResolved == \A k \in DOMAIN out : \A c \in out[k].calls : c.id \in resolved

IInv == TypeOK /\ Paired /\ CallsOnce /\ IdsResolved

-----------------------------------------------------------------------------
\* Single messages are blocks.
LEMMA PlainBlock ==
  ASSUME NEW kind \in (Given \cup Made) \ {"turn"}, NEW n \in Nat
  PROVE  Plain(kind, n) \in Block
BY FS_EmptySet DEF Plain, Block, Given, Made

\* The results of a turn become that many notes.
LEMMA NotesBlocks ==
  ASSUME NEW R, IsFiniteSet(R), NEW n \in Nat
  PROVE  /\ Notes(R, n) \in Seq(Block)
         /\ \A k \in DOMAIN Notes(R, n) : Notes(R, n)[k] = Plain("note", n)
<1>1. Cardinality(R) \in Nat
  BY FS_CardinalityType
<1>2. Plain("note", n) \in Block
  BY PlainBlock DEF Given, Made
<1> QED
  BY <1>1, <1>2 DEF Notes

\* Folding and adding the summary give blocks again.
LEMMA FoldBlocks ==
  ASSUME NEW s \in Seq(Block), NEW F
  PROVE  Fold(s, F) \in Seq(Block) /\ Len(Fold(s, F)) = Len(s)
<1>1. \A k \in DOMAIN s : s[k] \in Block /\ s[k].n \in Nat
  BY ElementOfSeq, LenProperties DEF Block
<1>2. \A k \in DOMAIN s : Plain("folded", s[k].n) \in Block
  BY <1>1, PlainBlock DEF Given, Made
<1>3. DOMAIN s = 1..Len(s) /\ Len(s) \in Nat
  BY LenProperties
<1> QED
  BY <1>1, <1>2, <1>3 DEF Fold

LEMMA SummarizedBlocks ==
  ASSUME NEW s \in Seq(Block), NEW k \in 0..Len(s)
  PROVE  Summarized(s, k) \in Seq(Block)
<1>1. Plain("summary", 0) \in Block
  BY PlainBlock DEF Given, Made
<1>2. SubSeq(s, 1, k) \in Seq(Block)
  BY SubSeqProperties, LenProperties
<1>3. SubSeq(s, k + 1, Len(s)) \in Seq(Block)
  BY SubSeqProperties, LenProperties
<1> QED
  BY <1>1, <1>2, <1>3, ConcatProperties DEF Summarized

-----------------------------------------------------------------------------
\* Writing messages without calls keeps the invariant.
LEMMA EmitPlain ==
  ASSUME IInv, NEW blocks \in Seq(Block), NEW ids \in SUBSET IDs,
         \A k \in DOMAIN blocks : blocks[k].kind # "tool" /\ blocks[k].calls = {},
         Emit(blocks, ids)
  PROVE  IInv'
<1> USE DEF Emit
<1>1. /\ out \in Seq(Block) /\ out' = out \o blocks
      /\ resolved' = resolved \cup ids
  BY DEF IInv, TypeOK
<1>2. TypeOK'
  BY <1>1, ConcatProperties DEF IInv, TypeOK
<1>3. ASSUME NEW k \in DOMAIN out'
      PROVE  \/ k \in DOMAIN out /\ out'[k] = out[k]
             \/ out'[k].kind # "tool" /\ out'[k].calls = {}
  <2>1. /\ Len(out') = Len(out) + Len(blocks)
        /\ \A j \in 1..Len(out') :
             out'[j] = IF j <= Len(out) THEN out[j] ELSE blocks[j - Len(out)]
    BY <1>1, ConcatProperties
  <2>2. /\ DOMAIN out' = 1..Len(out') /\ DOMAIN out = 1..Len(out)
        /\ DOMAIN blocks = 1..Len(blocks)
        /\ Len(out) \in Nat /\ Len(blocks) \in Nat
    BY <1>1, <1>2, LenProperties DEF TypeOK
  <2> QED
    BY <2>1, <2>2
<1>4. Paired'
  BY <1>3 DEF IInv, Paired
<1>5. CallsOnce'
  <2> SUFFICES ASSUME NEW k \in DOMAIN out', NEW m \in DOMAIN out',
                      NEW c \in out'[k].calls, NEW d \in out'[m].calls,
                      c.id = d.id
               PROVE  k = m /\ c = d
    BY DEF CallsOnce
  <2>1. /\ k \in DOMAIN out /\ out'[k] = out[k]
        /\ m \in DOMAIN out /\ out'[m] = out[m]
    BY <1>3
  <2> QED
    BY <2>1 DEF IInv, CallsOnce
<1>6. IdsResolved'
  BY <1>1, <1>3 DEF IInv, IdsResolved
<1> QED
  BY <1>2, <1>4, <1>5, <1>6 DEF IInv

\* Writing a turn keeps it when the turn's calls are answered, different, and
\* new.
LEMMA EmitTurn ==
  ASSUME IInv, NEW b \in Block, NEW ids \in SUBSET IDs,
         b.kind = "turn",
         \A c \in b.calls : /\ c.id \in ids /\ c.id \notin resolved
                            /\ c.id # NoID
                            /\ \E t \in b.results : t.id = c.id,
         \A c, d \in b.calls : c.id = d.id => c = d,
         Emit(<<b>>, ids)
  PROVE  IInv'
<1> USE DEF Emit
<1>1. /\ out \in Seq(Block) /\ out' = out \o <<b>>
      /\ resolved' = resolved \cup ids
  BY DEF IInv, TypeOK
<1>2. TypeOK'
  <2>1. <<b>> \in Seq(Block)
    OBVIOUS
  <2> QED
    BY <1>1, <2>1, ConcatProperties DEF IInv, TypeOK
<1>3. ASSUME NEW k \in DOMAIN out'
      PROVE  \/ k \in DOMAIN out /\ out'[k] = out[k]
             \/ k = Len(out) + 1 /\ out'[k] = b
  <2>1. DOMAIN out' = 1..Len(out') /\ DOMAIN out = 1..Len(out) /\ Len(out) \in Nat
    BY <1>1, <1>2, LenProperties DEF TypeOK
  <2>2. <<b>> \in Seq(Block) /\ Len(<<b>>) = 1 /\ <<b>>[1] = b
    OBVIOUS
  <2>3. /\ Len(out') = Len(out) + 1
        /\ \A j \in 1..Len(out') :
             out'[j] = IF j <= Len(out) THEN out[j] ELSE <<b>>[j - Len(out)]
    BY <1>1, <2>2, ConcatProperties
  <2> QED
    BY <2>1, <2>2, <2>3
<1>4. Paired'
  BY <1>3 DEF IInv, Paired
<1>5. CallsOnce'
  <2> SUFFICES ASSUME NEW k \in DOMAIN out', NEW m \in DOMAIN out',
                      NEW c \in out'[k].calls, NEW d \in out'[m].calls,
                      c.id = d.id
               PROVE  k = m /\ c = d
    BY DEF CallsOnce
  <2>1. CASE k \in DOMAIN out /\ out'[k] = out[k] /\ m \in DOMAIN out /\ out'[m] = out[m]
    BY <2>1 DEF IInv, CallsOnce
  <2>2. CASE k = Len(out) + 1 /\ out'[k] = b /\ m = Len(out) + 1 /\ out'[m] = b
    BY <2>2
  <2>3. CASE k \in DOMAIN out /\ out'[k] = out[k] /\ out'[m] = b
    BY <2>3 DEF IInv, IdsResolved
  <2>4. CASE m \in DOMAIN out /\ out'[m] = out[m] /\ out'[k] = b
    BY <2>4 DEF IInv, IdsResolved
  <2> QED
    BY <1>3, <2>1, <2>2, <2>3, <2>4
<1>6. IdsResolved'
  BY <1>1, <1>3 DEF IInv, IdsResolved
<1> QED
  BY <1>2, <1>4, <1>5, <1>6 DEF IInv

-----------------------------------------------------------------------------
\* The sanitizer's helpers on one block.
LEMMA BlockFacts ==
  ASSUME TypeOK, NEW b \in Block
  PROVE  /\ Fresh(b) \subseteq b.calls /\ Kept(b) \subseteq b.results
         /\ b.calls \subseteq Item /\ b.results \subseteq Item
         /\ b.n \in Nat
         /\ IsFiniteSet(b.calls) /\ IsFiniteSet(b.results)
         /\ IsFiniteSet(Fresh(b)) /\ IsFiniteSet(Kept(b)) /\ IsFiniteSet(Missing(b))
         /\ Answered(b) \subseteq IDs
         /\ Missing(b) \subseteq Fresh(b)
<1>1. /\ Fresh(b) \subseteq b.calls /\ Kept(b) \subseteq b.results
      /\ Missing(b) \subseteq Fresh(b)
  BY DEF Fresh, Kept, Missing
<1>2. /\ b.calls \subseteq Item /\ b.results \subseteq Item /\ b.n \in Nat
      /\ IsFiniteSet(b.calls) /\ IsFiniteSet(b.results)
  BY DEF Block
<1>3. Answered(b) \subseteq IDs
  BY <1>1, <1>2 DEF Answered, Item
<1>4. IsFiniteSet(Fresh(b)) /\ IsFiniteSet(Kept(b))
  BY <1>1, <1>2, FS_Subset
<1>5. IsFiniteSet(Missing(b))
  BY <1>1, <1>4, FS_Subset
<1> QED
  BY <1>1, <1>2, <1>3, <1>4, <1>5

\* The turn that is kept.
LEMMA KeptTurn ==
  ASSUME TypeOK, NEW b \in Block, KeepTurn(b),
         NEW t, t = [b EXCEPT !.calls = Fresh(b), !.results = Kept(b) \cup Missing(b)]
  PROVE  /\ t \in Block /\ b.kind = "turn" /\ t.kind = "turn"
         /\ t.calls = Fresh(b) /\ t.results = Kept(b) \cup Missing(b)
<1>1. Fresh(b) # {}
  BY DEF KeepTurn
<1>2. b.calls # {} /\ b.kind = "turn"
  BY <1>1, BlockFacts DEF Block
<1>3. IsFiniteSet(Kept(b) \cup Missing(b))
  BY BlockFacts, FS_Union
<1>4. t.calls = Fresh(b) /\ t.results = Kept(b) \cup Missing(b) /\ t.kind = "turn"
  BY <1>2 DEF Block
<1>5. Fresh(b) \subseteq Item /\ Kept(b) \cup Missing(b) \subseteq Item /\ IsFiniteSet(Fresh(b))
  BY BlockFacts
<1> QED
  BY <1>1, <1>2, <1>3, <1>4, <1>5 DEF Block

LEMMA KeepTurnStep ==
  ASSUME IInv, NEW b \in Block, KeepTurn(b)
  PROVE  IInv'
<1> DEFINE t == [b EXCEPT !.calls = Fresh(b), !.results = Kept(b) \cup Missing(b)]
           ids == Answered(b) \cup {c.id : c \in Missing(b)}
<1>1. TypeOK
  BY DEF IInv
<1>2. /\ Fresh(b) # {} /\ (\A c \in Fresh(b) : c.id # NoID)
      /\ Emit(<<t>>, ids)
  BY DEF KeepTurn
<1>3. t \in Block /\ t.calls = Fresh(b) /\ t.results = Kept(b) \cup Missing(b) /\ t.kind = "turn"
  BY <1>1, KeptTurn
<1>4. ids \in SUBSET IDs
  BY <1>1, <1>2, BlockFacts DEF Item
<1>5. ASSUME NEW c \in Fresh(b)
      PROVE  /\ c.id \in ids /\ c.id \notin resolved /\ c.id # NoID
             /\ \E r \in Kept(b) \cup Missing(b) : r.id = c.id
  <2>1. c.id # NoID
    BY <1>2
  <2>2. c.id \notin resolved
    BY <2>1 DEF Fresh
  <2>3. CASE c.id \in Answered(b)
    BY <2>1, <2>2, <2>3 DEF Answered
  <2>4. CASE c.id \notin Answered(b)
    <3>1. c \in Missing(b)
      BY <2>4 DEF Missing
    <3> QED
      BY <2>1, <2>2, <3>1
  <2> QED
    BY <2>3, <2>4
<1>6. ASSUME NEW c \in Fresh(b), NEW d \in Fresh(b), c.id = d.id
      PROVE  c = d
  <2>1. c \in Item /\ d \in Item /\ c \in b.calls /\ d \in b.calls
    BY <1>1, BlockFacts
  <2>2. c.n <= d.n /\ d.n <= c.n
    BY <1>2, <1>6, <2>1 DEF Fresh
  <2> QED
    BY <1>6, <2>1, <2>2 DEF Item
<1> HIDE DEF t, ids
<1> QED
  BY <1>2, <1>3, <1>4, <1>5, <1>6, EmitTurn

LEMMA FlattenTurnStep ==
  ASSUME IInv, NEW b \in Block, FlattenTurn(b)
  PROVE  IInv'
<1> DEFINE head == IF b.text THEN <<Plain("text", b.n)>> ELSE <<>>
           tail == Notes(Kept(b), b.n)
<1>1. IsFiniteSet(Kept(b)) /\ b.n \in Nat /\ Answered(b) \subseteq IDs
  BY BlockFacts DEF IInv
<1>2. Emit(head \o tail, Answered(b))
  BY DEF FlattenTurn
<1>3. Plain("text", b.n) \in Block
  BY <1>1, PlainBlock DEF Given, Made
<1>4. head \in Seq(Block) /\ \A k \in DOMAIN head : head[k] = Plain("text", b.n)
  BY <1>3
<1>5. tail \in Seq(Block) /\ \A k \in DOMAIN tail : tail[k] = Plain("note", b.n)
  BY <1>1, NotesBlocks
<1> HIDE DEF head, tail
<1>6. /\ head \o tail \in Seq(Block)
      /\ Len(head \o tail) = Len(head) + Len(tail)
      /\ \A k \in 1..Len(head \o tail) :
           (head \o tail)[k] = IF k <= Len(head) THEN head[k] ELSE tail[k - Len(head)]
  BY <1>4, <1>5, ConcatProperties
<1>7. ASSUME NEW k \in DOMAIN (head \o tail)
      PROVE  (head \o tail)[k] \in {Plain("text", b.n), Plain("note", b.n)}
  <2>1. /\ DOMAIN (head \o tail) = 1..Len(head \o tail)
        /\ DOMAIN head = 1..Len(head) /\ DOMAIN tail = 1..Len(tail)
        /\ Len(head) \in Nat /\ Len(tail) \in Nat
    BY <1>4, <1>5, <1>6, LenProperties
  <2> QED
    BY <1>4, <1>5, <1>6, <2>1
<1>8. \A k \in DOMAIN (head \o tail) :
        (head \o tail)[k].kind # "tool" /\ (head \o tail)[k].calls = {}
  BY <1>7 DEF Plain
<1> QED
  BY <1>1, <1>2, <1>6, <1>8, EmitPlain

\* What a single message becomes has no calls.
LEMMA SingleStep ==
  ASSUME IInv, NEW b \in Block,
         ConvertOrphan(b) \/ SkipOrphan(b) \/ Copy(b) \/ LeaveOut(b)
  PROVE  IInv'
<1>1. b.n \in Nat /\ Answered(b) \subseteq IDs
  BY BlockFacts DEF IInv
<1>2. CASE ConvertOrphan(b)
  <2>1. Plain("note", b.n) \in Block
    BY <1>1, PlainBlock DEF Given, Made
  <2>2. /\ <<Plain("note", b.n)>> \in Seq(Block)
        /\ \A k \in DOMAIN <<Plain("note", b.n)>> :
             <<Plain("note", b.n)>>[k] = Plain("note", b.n)
    BY <2>1
  <2>3. Plain("note", b.n).kind # "tool" /\ Plain("note", b.n).calls = {}
    BY DEF Plain
  <2> QED
    BY <1>1, <1>2, <2>2, <2>3, EmitPlain DEF ConvertOrphan
<1>3. CASE SkipOrphan(b) \/ LeaveOut(b)
  <2>1. Emit(<<>>, {})
    BY <1>3 DEF SkipOrphan, LeaveOut
  <2>2. /\ <<>> \in Seq(Block)
        /\ \A k \in DOMAIN <<>> : <<>>[k].kind # "tool" /\ <<>>[k].calls = {}
    OBVIOUS
  <2>3. {} \in SUBSET IDs
    OBVIOUS
  <2> QED
    BY <2>1, <2>2, <2>3, EmitPlain
<1>4. CASE Copy(b)
  <2>1. b.kind # "tool" /\ b.calls = {}
    BY <1>4 DEF Copy, Block
  <2>2. <<b>> \in Seq(Block) /\ \A k \in DOMAIN <<b>> : <<b>>[k] = b
    OBVIOUS
  <2> QED
    BY <1>4, <2>1, <2>2, EmitPlain DEF Copy
<1> QED
  BY <1>2, <1>3, <1>4

\* A new pass starts with nothing written.
LEMMA PassStep ==
  ASSUME IInv, NEW s \in Seq(Block), NEW next \in {"before", "after"},
         Pass(s, next), attempt' \in 0..CompactMax, latest' = latest
  PROVE  IInv'
<1>1. out' = <<>> /\ DOMAIN out' = {}
  BY DEF Pass
<1>2. TypeOK'
  BY <1>1, EmptySeq DEF IInv, TypeOK, Pass
<1> QED
  BY <1>1, <1>2 DEF IInv, Paired, CallsOnce, IdsResolved

-----------------------------------------------------------------------------
LEMMA InitIInv == Init => IInv
<1> SUFFICES ASSUME Init PROVE IInv
  OBVIOUS
<1>1. msgs \in Seq(Block) /\ out = <<>> /\ DOMAIN out = {}
  BY HistoriesAssumption DEF Init
<1>2. TypeOK
  BY <1>1, EmptySeq, LenProperties, CompactMaxAssumption DEF Init, TypeOK
<1> QED
  BY <1>1, <1>2 DEF IInv, Paired, CallsOnce, IdsResolved

LEMMA NextIInv == IInv /\ [Next]_vars => IInv'
<1> SUFFICES ASSUME IInv, [Next]_vars PROVE IInv'
  OBVIOUS
<1>1. CASE Sanitize
  <2>1. msgs[i] \in Block
    BY <1>1, ElementOfSeq, LenProperties DEF Sanitize, Scanning, IInv, TypeOK
  <2> QED
    BY <1>1, <2>1, KeepTurnStep, FlattenTurnStep, SingleStep DEF Sanitize
<1>2. CASE Send \/ Answer
  BY <1>2 DEF Send, Answer, IInv, TypeOK, Paired, CallsOnce, IdsResolved
<1>3. CASE Overflow
  <2>1. out \in Seq(Block) /\ attempt' \in 0..CompactMax
    BY <1>3, CompactMaxAssumption DEF Overflow, IInv, TypeOK
  <2> QED
    BY <1>3, <2>1, PassStep DEF Overflow
<1>4. CASE Compact
  <2>1. out \in Seq(Block) /\ attempt' \in 0..CompactMax /\ latest' = latest
    BY <1>4 DEF Compact, IInv, TypeOK
  <2>2. CASE Pass(out, "after")
    BY <2>1, <2>2, PassStep
  <2>3. ASSUME NEW F, NEW k \in 0..Len(out), Pass(Summarized(Fold(out, F), k), "after")
        PROVE  IInv'
    <3>1. Fold(out, F) \in Seq(Block) /\ Len(Fold(out, F)) = Len(out)
      BY <2>1, FoldBlocks
    <3>2. Summarized(Fold(out, F), k) \in Seq(Block)
      BY <3>1, SummarizedBlocks
    <3> QED
      BY <2>1, <2>3, <3>2, PassStep
  <2> QED
    BY <1>4, <2>2, <2>3 DEF Compact
<1>5. CASE UNCHANGED vars
  BY <1>5 DEF vars, IInv, TypeOK, Paired, CallsOnce, IdsResolved
<1> QED
  BY <1>1, <1>2, <1>3, <1>4, <1>5 DEF Next

-----------------------------------------------------------------------------
\* Every variable of the sanitizer and of the compaction keeps its type, for
\* any set of histories.
THEOREM TypeCorrect == Spec => []TypeOK
<1>1. IInv => TypeOK
  BY DEF IInv
<1> QED
  BY <1>1, InitIInv, NextIInv, PTL DEF Spec

\* Whatever messages a request starts with and however often it is compacted,
\* every tool call that is sent has an id and is answered in its turn, and no
\* tool message is sent alone (failover_model.go 603-866).
THEOREM OutputPaired == Spec => []Paired
<1>1. IInv => Paired
  BY DEF IInv
<1> QED
  BY <1>1, InitIInv, NextIInv, PTL DEF Spec

\* No call id is sent twice (failover_model.go 658-671).
THEOREM OutputCallsOnce == Spec => []CallsOnce
<1>1. IInv => CallsOnce
  BY DEF IInv
<1> QED
  BY <1>1, InitIInv, NextIInv, PTL DEF Spec

-----------------------------------------------------------------------------
(* A sanitized history stays as it is.                                     *)

\* What the sanitizer writes: calls are answered, new, and not among the ids
\* that results of earlier turns have.
Clean(s) ==
  /\ \A k \in DOMAIN s :
       /\ s[k].kind # "tool"
       /\ \A c \in s[k].calls :
            c.id # NoID /\ \E t \in s[k].results : t.id = c.id
  /\ \A k, m \in DOMAIN s : \A c \in s[k].calls, d \in s[m].calls :
       c.id = d.id => k = m /\ c = d
  /\ \A k, m \in DOMAIN s : k < m /\ s[k].kind = "turn" =>
       \A t \in s[k].results, c \in s[m].calls : t.id # c.id

\* The ids of a turn's results are resolved once it is written.
ResultsResolved ==
  \A k \in DOMAIN out : out[k].kind = "turn" =>
    \A t \in out[k].results : t.id # NoID => t.id \in resolved

\* How far a pass over a clean history has copied it.
Copied ==
  attempt > 0 =>
    /\ Clean(msgs)
    /\ \A x \in resolved : \E k \in 1..(i - 1) :
         msgs[k].kind = "turn" /\ \E t \in msgs[k].results : t.id = x
    /\ Len(out) = Cardinality(Left(msgs, i - 1))
    /\ \A k \in Left(msgs, i - 1) : out[Cardinality(Left(msgs, k))] = msgs[k]

SInv == IInv /\ Clean(out) /\ ResultsResolved /\ i <= Len(msgs) + 1 /\ Copied

\* What one block adds to a clean output: nothing with calls, or a turn whose
\* calls are new.
LEMMA CleanPlain ==
  ASSUME IInv, Clean(out), ResultsResolved, NEW blocks \in Seq(Block), NEW ids,
         \A k \in DOMAIN blocks :
           blocks[k].kind \notin {"tool", "turn"} /\ blocks[k].calls = {},
         out' = out \o blocks, resolved' = resolved \cup ids
  PROVE  Clean(out') /\ ResultsResolved'
<1>1. out \in Seq(Block) /\ out' \in Seq(Block)
  BY ConcatProperties DEF IInv, TypeOK
<1>2. /\ DOMAIN out' = 1..Len(out') /\ DOMAIN out = 1..Len(out)
      /\ DOMAIN blocks = 1..Len(blocks)
      /\ Len(out) \in Nat /\ Len(blocks) \in Nat
      /\ Len(out') = Len(out) + Len(blocks)
      /\ \A j \in 1..Len(out') :
           out'[j] = IF j <= Len(out) THEN out[j] ELSE blocks[j - Len(out)]
  BY <1>1, ConcatProperties, LenProperties
<1>3. ASSUME NEW k \in DOMAIN out'
      PROVE  \/ k \in DOMAIN out /\ out'[k] = out[k]
             \/ out'[k].kind \notin {"tool", "turn"} /\ out'[k].calls = {}
  BY <1>2
<1>4. \A k \in DOMAIN out' :
        /\ out'[k].kind # "tool"
        /\ \A c \in out'[k].calls :
             c.id # NoID /\ \E t \in out'[k].results : t.id = c.id
  BY <1>3 DEF Clean
<1>5. ASSUME NEW k \in DOMAIN out', NEW m \in DOMAIN out',
             NEW c \in out'[k].calls, NEW d \in out'[m].calls, c.id = d.id
      PROVE  k = m /\ c = d
  <2>1. /\ k \in DOMAIN out /\ out'[k] = out[k]
        /\ m \in DOMAIN out /\ out'[m] = out[m]
    BY <1>3
  <2> QED
    BY <1>5, <2>1 DEF Clean
<1>6. ASSUME NEW k \in DOMAIN out', NEW m \in DOMAIN out', k < m, out'[k].kind = "turn",
             NEW t \in out'[k].results, NEW c \in out'[m].calls
      PROVE  t.id # c.id
  <2>1. /\ k \in DOMAIN out /\ out'[k] = out[k]
        /\ m \in DOMAIN out /\ out'[m] = out[m]
    BY <1>3, <1>6
  <2> QED
    BY <1>6, <2>1 DEF Clean
<1>7. ResultsResolved'
  BY <1>3 DEF ResultsResolved
<1> QED
  BY <1>4, <1>5, <1>6, <1>7 DEF Clean

LEMMA CleanTurn ==
  ASSUME IInv, Clean(out), ResultsResolved, NEW b \in Block, NEW ids,
         b.kind = "turn",
         \A c \in b.calls : /\ c.id \notin resolved /\ c.id # NoID
                            /\ \E t \in b.results : t.id = c.id,
         \A c, d \in b.calls : c.id = d.id => c = d,
         \A t \in b.results : t.id # NoID => t.id \in ids,
         out' = Append(out, b), resolved' = resolved \cup ids
  PROVE  Clean(out') /\ ResultsResolved'
<1>1. out \in Seq(Block)
  BY DEF IInv, TypeOK
<1>2. /\ DOMAIN out' = 1..(Len(out) + 1) /\ DOMAIN out = 1..Len(out)
      /\ Len(out) \in Nat
      /\ \A j \in 1..Len(out) : out'[j] = out[j]
      /\ out'[Len(out) + 1] = b
  BY <1>1, AppendProperties, LenProperties
<1>3. ASSUME NEW k \in DOMAIN out'
      PROVE  \/ k \in DOMAIN out /\ out'[k] = out[k]
             \/ k = Len(out) + 1 /\ out'[k] = b
  BY <1>2
<1>4. \A k \in DOMAIN out' :
        /\ out'[k].kind # "tool"
        /\ \A c \in out'[k].calls :
             c.id # NoID /\ \E t \in out'[k].results : t.id = c.id
  BY <1>3 DEF Clean
<1>5. \A k \in DOMAIN out : \A c \in out[k].calls : c.id \in resolved
  BY DEF IInv, IdsResolved
<1>6. ASSUME NEW k \in DOMAIN out', NEW m \in DOMAIN out',
             NEW c \in out'[k].calls, NEW d \in out'[m].calls, c.id = d.id
      PROVE  k = m /\ c = d
  <2>1. CASE k \in DOMAIN out /\ out'[k] = out[k] /\ m \in DOMAIN out /\ out'[m] = out[m]
    BY <1>6, <2>1 DEF Clean
  <2>2. CASE k = Len(out) + 1 /\ out'[k] = b /\ m = Len(out) + 1 /\ out'[m] = b
    BY <1>6, <2>2
  <2>3. CASE k \in DOMAIN out /\ out'[k] = out[k] /\ out'[m] = b
    BY <1>5, <1>6, <2>3
  <2>4. CASE m \in DOMAIN out /\ out'[m] = out[m] /\ out'[k] = b
    BY <1>5, <1>6, <2>4
  <2> QED
    BY <1>3, <2>1, <2>2, <2>3, <2>4
<1>7. ASSUME NEW k \in DOMAIN out', NEW m \in DOMAIN out', k < m, out'[k].kind = "turn",
             NEW t \in out'[k].results, NEW c \in out'[m].calls
      PROVE  t.id # c.id
  <2>1. k \in DOMAIN out /\ out'[k] = out[k]
    BY <1>2, <1>7
  <2>2. CASE m \in DOMAIN out /\ out'[m] = out[m]
    BY <1>7, <2>1, <2>2 DEF Clean
  <2>3. CASE out'[m] = b
    <3>1. c.id # NoID /\ c.id \notin resolved
      BY <1>7, <2>3
    <3> QED
      BY <1>7, <2>1, <3>1 DEF ResultsResolved
  <2> QED
    BY <1>3, <2>2, <2>3
<1>8. ResultsResolved'
  BY <1>3 DEF ResultsResolved
<1> QED
  BY <1>4, <1>6, <1>7, <1>8 DEF Clean

\* Every pass writes a clean history.
LEMMA CleanStep ==
  ASSUME IInv, Clean(out), ResultsResolved, Sanitize
  PROVE  Clean(out') /\ ResultsResolved'
<1> DEFINE b == msgs[i]
<1>1. b \in Block /\ out \in Seq(Block) /\ TypeOK
  BY ElementOfSeq, LenProperties DEF Sanitize, Scanning, IInv, TypeOK
<1>2. b.n \in Nat /\ IsFiniteSet(Kept(b))
  BY <1>1, BlockFacts
<1>3. CASE KeepTurn(b)
  <2> DEFINE t == [b EXCEPT !.calls = Fresh(b), !.results = Kept(b) \cup Missing(b)]
             ids == Answered(b) \cup {c.id : c \in Missing(b)}
  <2>1. /\ Fresh(b) # {} /\ (\A c \in Fresh(b) : c.id # NoID)
        /\ out' = out \o <<t>> /\ resolved' = resolved \cup ids
    BY <1>3 DEF KeepTurn, Emit
  <2>2. Fresh(b) \subseteq b.calls /\ b.kind = "turn"
    BY <1>1, <2>1, BlockFacts DEF Block
  <2>3. t.calls = Fresh(b) /\ t.results = Kept(b) \cup Missing(b) /\ t.kind = "turn"
    BY <1>1, <2>2 DEF Block
  <2>4. t \in Block
    <3>1. /\ Fresh(b) \subseteq Item /\ Kept(b) \cup Missing(b) \subseteq Item
          /\ IsFiniteSet(Fresh(b)) /\ IsFiniteSet(Kept(b) \cup Missing(b))
      BY <1>1, BlockFacts, FS_Union
    <3> QED
      BY <1>1, <2>1, <2>2, <2>3, <3>1 DEF Block
  <2>5. ASSUME NEW c \in Fresh(b)
        PROVE  /\ c.id \notin resolved /\ c.id # NoID
               /\ \E r \in Kept(b) \cup Missing(b) : r.id = c.id
    <3>1. c.id # NoID /\ c.id \notin resolved
      BY <2>1 DEF Fresh
    <3>2. CASE c.id \in Answered(b)
      <4>1. PICK r \in Kept(b) : r.id = c.id
        BY <3>2 DEF Answered
      <4> QED
        BY <3>1, <4>1
    <3>3. CASE c.id \notin Answered(b)
      <4>1. c \in Missing(b)
        BY <3>3 DEF Missing
      <4> QED
        BY <4>1, <3>1
    <3> QED
      BY <3>1, <3>2, <3>3
  <2>6. ASSUME NEW c \in Fresh(b), NEW d \in Fresh(b), c.id = d.id
        PROVE  c = d
    <3>1. c \in Item /\ d \in Item /\ c \in b.calls /\ d \in b.calls
      BY <1>1, BlockFacts
    <3>2. c.n <= d.n /\ d.n <= c.n
      BY <2>1, <2>6, <3>1 DEF Fresh
    <3> QED
      BY <2>6, <3>1, <3>2 DEF Item
  <2>7. \A r \in Kept(b) \cup Missing(b) : r.id # NoID => r.id \in ids
    BY DEF Answered
  <2>8. out' = Append(out, t)
    BY <1>1, <2>1, <2>4, AppendIsConcat
  <2>9. /\ \A c \in t.calls : /\ c.id \notin resolved /\ c.id # NoID
                              /\ \E r \in t.results : r.id = c.id
        /\ \A c, d \in t.calls : c.id = d.id => c = d
        /\ \A r \in t.results : r.id # NoID => r.id \in ids
    BY <2>3, <2>5, <2>6, <2>7
  <2> HIDE DEF t, ids, b
  <2> QED
    BY <2>1, <2>3, <2>4, <2>8, <2>9, CleanTurn
<1>4. CASE FlattenTurn(b)
  <2> DEFINE head == IF b.text THEN <<Plain("text", b.n)>> ELSE <<>>
             tail == Notes(Kept(b), b.n)
  <2>1. out' = out \o (head \o tail) /\ resolved' = resolved \cup Answered(b)
    BY <1>4 DEF FlattenTurn, Emit
  <2>2. Plain("text", b.n) \in Block
    BY <1>2, PlainBlock DEF Given, Made
  <2>3. head \in Seq(Block) /\ \A k \in DOMAIN head : head[k] = Plain("text", b.n)
    BY <2>2
  <2>4. tail \in Seq(Block) /\ \A k \in DOMAIN tail : tail[k] = Plain("note", b.n)
    BY <1>2, NotesBlocks
  <2> HIDE DEF head, tail
  <2>5. /\ head \o tail \in Seq(Block)
        /\ Len(head \o tail) = Len(head) + Len(tail)
        /\ \A k \in 1..Len(head \o tail) :
             (head \o tail)[k] = IF k <= Len(head) THEN head[k] ELSE tail[k - Len(head)]
    BY <2>3, <2>4, ConcatProperties
  <2>6. ASSUME NEW k \in DOMAIN (head \o tail)
        PROVE  (head \o tail)[k] \in {Plain("text", b.n), Plain("note", b.n)}
    <3>1. /\ DOMAIN (head \o tail) = 1..Len(head \o tail)
          /\ DOMAIN head = 1..Len(head) /\ DOMAIN tail = 1..Len(tail)
          /\ Len(head) \in Nat /\ Len(tail) \in Nat
      BY <2>3, <2>4, <2>5, LenProperties
    <3> QED
      BY <2>3, <2>4, <2>5, <3>1
  <2>7. \A k \in DOMAIN (head \o tail) :
          (head \o tail)[k].kind \notin {"tool", "turn"} /\ (head \o tail)[k].calls = {}
    BY <2>6 DEF Plain
  <2> QED
    BY <2>1, <2>5, <2>7, CleanPlain
<1>5. CASE ConvertOrphan(b)
  <2>1. /\ out' = out \o <<Plain("note", b.n)>> /\ resolved' = resolved \cup Answered(b)
    BY <1>5 DEF ConvertOrphan, Emit
  <2>2. Plain("note", b.n) \in Block
    BY <1>2, PlainBlock DEF Given, Made
  <2>3. /\ <<Plain("note", b.n)>> \in Seq(Block)
        /\ \A k \in DOMAIN <<Plain("note", b.n)>> :
             <<Plain("note", b.n)>>[k] = Plain("note", b.n)
    BY <2>2
  <2>4. Plain("note", b.n).kind \notin {"tool", "turn"} /\ Plain("note", b.n).calls = {}
    BY DEF Plain
  <2> QED
    BY <2>1, <2>3, <2>4, CleanPlain
<1>6. CASE SkipOrphan(b) \/ LeaveOut(b)
  <2>1. out' = out \o <<>> /\ resolved' = resolved \cup {}
    BY <1>6 DEF SkipOrphan, LeaveOut, Emit
  <2>2. /\ <<>> \in Seq(Block)
        /\ \A k \in DOMAIN <<>> : <<>>[k].kind \notin {"tool", "turn"} /\ <<>>[k].calls = {}
    OBVIOUS
  <2> QED
    BY <2>1, <2>2, CleanPlain
<1>7. CASE Copy(b)
  <2>1. out' = out \o <<b>> /\ resolved' = resolved \cup {}
    BY <1>7 DEF Copy, Emit
  <2>2. b.kind \notin {"tool", "turn"} /\ b.calls = {}
    BY <1>1, <1>7 DEF Copy, Block
  <2>3. <<b>> \in Seq(Block) /\ \A k \in DOMAIN <<b>> : <<b>>[k] = b
    BY <1>1
  <2> QED
    BY <2>1, <2>2, <2>3, CleanPlain
<1> HIDE DEF b
<1> QED
  BY <1>3, <1>4, <1>5, <1>6, <1>7 DEF Sanitize, b

\* Counting the places that hold messages.
LEMMA LeftFacts ==
  ASSUME NEW s, NEW k \in Nat
  PROVE  /\ IsFiniteSet(Left(s, k)) /\ Cardinality(Left(s, k)) \in Nat
         /\ s[k + 1].kind # "folded" =>
              Cardinality(Left(s, k + 1)) = Cardinality(Left(s, k)) + 1
         /\ s[k + 1].kind = "folded" => Left(s, k + 1) = Left(s, k)
         /\ \A j \in Left(s, k) :
              Cardinality(Left(s, j)) \in 1..Cardinality(Left(s, k))
<1>1. \A j \in Nat : IsFiniteSet(Left(s, j)) /\ Cardinality(Left(s, j)) \in Nat
  <2> TAKE j \in Nat
  <2>1. Left(s, j) \subseteq 1..j
    BY DEF Left
  <2>2. IsFiniteSet(1..j)
    BY FS_Interval
  <2> QED
    BY <2>1, <2>2, FS_Subset, FS_CardinalityType
<1>2. ASSUME s[k + 1].kind # "folded"
      PROVE  Cardinality(Left(s, k + 1)) = Cardinality(Left(s, k)) + 1
  <2>1. Left(s, k + 1) = Left(s, k) \cup {k + 1} /\ k + 1 \notin Left(s, k)
    BY <1>2 DEF Left
  <2> QED
    BY <1>1, <2>1, FS_AddElement
<1>3. s[k + 1].kind = "folded" => Left(s, k + 1) = Left(s, k)
  BY DEF Left
<1>4. ASSUME NEW j \in Left(s, k)
      PROVE  Cardinality(Left(s, j)) \in 1..Cardinality(Left(s, k))
  <2>1. j \in Nat /\ j \in Left(s, j) /\ Left(s, j) \subseteq Left(s, k)
    BY DEF Left
  <2>2. Cardinality(Left(s, j)) <= Cardinality(Left(s, k))
    BY <1>1, <2>1, FS_Subset
  <2>3. Cardinality(Left(s, j)) # 0
    BY <1>1, <2>1, FS_EmptySet
  <2> QED
    BY <1>1, <2>1, <2>2, <2>3
<1> QED
  BY <1>1, <1>2, <1>3, <1>4

\* A pass over a clean history copies the block at its position.
LEMMA CopiesBlock ==
  ASSUME SInv, Sanitize, attempt > 0
  PROVE  /\ msgs[i].kind # "folded" => out' = Append(out, msgs[i])
         /\ msgs[i].kind = "folded" => out' = out
         /\ \A x \in resolved' :
              \/ x \in resolved
              \/ msgs[i].kind = "turn" /\ \E t \in msgs[i].results : t.id = x
<1> DEFINE b == msgs[i]
<1>1. b \in Block /\ out \in Seq(Block) /\ TypeOK /\ i \in DOMAIN msgs
  BY ElementOfSeq, LenProperties DEF Sanitize, Scanning, SInv, IInv, TypeOK
<1>2. b.kind # "tool" /\ \A c \in b.calls : c.id # NoID /\ \E t \in b.results : t.id = c.id
  BY <1>1 DEF SInv, Copied, Clean
<1>3. ASSUME NEW c \in b.calls
      PROVE  c.id \notin resolved /\ \A d \in b.calls : d.id = c.id => c.n <= d.n
  <2>1. ASSUME c.id \in resolved PROVE FALSE
    <3>1. PICK k \in 1..(i - 1) : msgs[k].kind = "turn" /\ \E t \in msgs[k].results : t.id = c.id
      BY <2>1 DEF SInv, Copied
    <3>2. k \in DOMAIN msgs /\ k < i
      BY <1>1, <3>1, LenProperties DEF TypeOK
    <3> QED
      BY <1>1, <3>1, <3>2 DEF SInv, Copied, Clean
  <2>2. ASSUME NEW d \in b.calls, d.id = c.id PROVE c.n <= d.n
    <3>1. c = d
      BY <1>1, <2>2 DEF SInv, Copied, Clean
    <3>2. c \in Item
      BY <1>1 DEF Block
    <3> QED
      BY <3>1, <3>2 DEF Item
  <2> QED
    BY <2>1, <2>2
<1>4. Fresh(b) = b.calls
  BY <1>3 DEF Fresh
<1>5. Kept(b) = b.results
  BY <1>3 DEF Kept, Replayed
<1>6. Missing(b) = {}
  <2> SUFFICES ASSUME NEW c \in Fresh(b) PROVE c.id \in Answered(b)
    BY DEF Missing
  <2>1. PICK t \in b.results : t.id = c.id
    BY <1>2, <1>4
  <2> QED
    BY <1>2, <1>4, <1>5, <2>1 DEF Answered
<1>7. CASE KeepTurn(b)
  <2>1. /\ out' = out \o <<[b EXCEPT !.calls = Fresh(b), !.results = Kept(b) \cup Missing(b)]>>
        /\ resolved' = resolved \cup (Answered(b) \cup {c.id : c \in Missing(b)})
        /\ Fresh(b) # {}
    BY <1>7 DEF KeepTurn, Emit
  <2>2. b.kind = "turn"
    BY <1>1, <1>4, <2>1 DEF Block
  <2>3. [b EXCEPT !.calls = Fresh(b), !.results = Kept(b) \cup Missing(b)] = b
    BY <1>1, <1>4, <1>5, <1>6 DEF Block
  <2>4. out' = Append(out, b)
    BY <1>1, <2>1, <2>3, AppendIsConcat
  <2>5. \A x \in resolved' : x \in resolved \/ \E t \in b.results : t.id = x
    BY <1>5, <1>6, <2>1 DEF Answered
  <2> QED
    BY <2>2, <2>4, <2>5
<1>8. CASE FlattenTurn(b) \/ ConvertOrphan(b) \/ SkipOrphan(b)
  BY <1>2, <1>4, <1>8 DEF FlattenTurn, ConvertOrphan, SkipOrphan
<1>9. CASE Copy(b)
  <2>1. out' = out \o <<b>> /\ resolved' = resolved
    BY <1>9 DEF Copy, Emit
  <2>2. out' = Append(out, b)
    BY <1>1, <2>1, AppendIsConcat
  <2> QED
    BY <1>9, <2>1, <2>2 DEF Copy
<1>10. CASE LeaveOut(b)
  <2>1. out' = out \o <<>> /\ resolved' = resolved
    BY <1>10 DEF LeaveOut, Emit
  <2>2. out' = out
    BY <1>1, <2>1, ConcatEmptySeq
  <2> QED
    BY <1>10, <2>1, <2>2 DEF LeaveOut
<1> HIDE DEF b
<1> QED
  BY <1>7, <1>8, <1>9, <1>10 DEF Sanitize, b

LEMMA CopiedStep ==
  ASSUME SInv, Sanitize
  PROVE  i' <= Len(msgs') + 1 /\ Copied'
<1>1. /\ i' = i + 1 /\ msgs' = msgs /\ attempt' = attempt
      /\ i \in Nat \ {0} /\ i <= Len(msgs) /\ Len(msgs) \in Nat
      /\ out \in Seq(Block)
  BY LenProperties DEF Sanitize, Scanning, KeepTurn, FlattenTurn, ConvertOrphan,
     SkipOrphan, Copy, LeaveOut, Emit, SInv, IInv, TypeOK
<1>2. SUFFICES ASSUME attempt > 0
               PROVE  /\ \A x \in resolved' : \E k \in 1..i :
                           msgs[k].kind = "turn" /\ \E t \in msgs[k].results : t.id = x
                      /\ Len(out') = Cardinality(Left(msgs, i))
                      /\ \A k \in Left(msgs, i) : out'[Cardinality(Left(msgs, k))] = msgs[k]
  BY <1>1 DEF SInv, Copied
<1>3. /\ \A x \in resolved : \E k \in 1..(i - 1) :
           msgs[k].kind = "turn" /\ \E t \in msgs[k].results : t.id = x
      /\ Len(out) = Cardinality(Left(msgs, i - 1))
      /\ \A k \in Left(msgs, i - 1) : out[Cardinality(Left(msgs, k))] = msgs[k]
  BY <1>2 DEF SInv, Copied
<1>4. \A x \in resolved' : \E k \in 1..i :
        msgs[k].kind = "turn" /\ \E t \in msgs[k].results : t.id = x
  <2> TAKE x \in resolved'
  <2>1. CASE x \in resolved
    <3>1. PICK k \in 1..(i - 1) : msgs[k].kind = "turn" /\ \E t \in msgs[k].results : t.id = x
      BY <1>3, <2>1
    <3> QED
      BY <1>1, <3>1
  <2>2. CASE msgs[i].kind = "turn" /\ \E t \in msgs[i].results : t.id = x
    BY <1>1, <2>2
  <2> QED
    BY <1>2, <2>1, <2>2, CopiesBlock
<1>5. i - 1 \in Nat /\ (i - 1) + 1 = i
  BY <1>1
<1>6. CASE msgs[i].kind = "folded"
  <2>1. Left(msgs, i) = Left(msgs, i - 1) /\ out' = out
    BY <1>2, <1>5, <1>6, LeftFacts, CopiesBlock
  <2> QED
    BY <1>3, <1>4, <2>1
<1>7. CASE msgs[i].kind # "folded"
  <2>1. /\ out' = Append(out, msgs[i])
        /\ Cardinality(Left(msgs, i)) = Cardinality(Left(msgs, i - 1)) + 1
        /\ \A k \in Left(msgs, i - 1) :
             Cardinality(Left(msgs, k)) \in 1..Cardinality(Left(msgs, i - 1))
    BY <1>2, <1>5, <1>7, LeftFacts, CopiesBlock
  <2>2. /\ Len(out') = Len(out) + 1
        /\ \A j \in 1..Len(out) : out'[j] = out[j]
        /\ out'[Len(out) + 1] = msgs[i]
    <3>1. msgs[i] \in Block
      BY <1>1, ElementOfSeq, LenProperties DEF SInv, IInv, TypeOK
    <3> QED
      BY <1>1, <2>1, <3>1, AppendProperties
  <2>3. \A k \in Left(msgs, i) : k \in Left(msgs, i - 1) \/ k = i
    BY <1>1 DEF Left
  <2>4. ASSUME NEW k \in Left(msgs, i)
        PROVE  out'[Cardinality(Left(msgs, k))] = msgs[k]
    <3>1. CASE k \in Left(msgs, i - 1)
      BY <1>3, <2>1, <2>2, <3>1
    <3>2. CASE k = i
      BY <1>3, <2>1, <2>2, <3>2
    <3> QED
      BY <2>3, <3>1, <3>2
  <2> QED
    BY <1>3, <1>4, <2>1, <2>2, <2>4
<1> QED
  BY <1>6, <1>7

\* Folding whole blocks and adding the summary keep a history clean.
LEMMA FoldClean ==
  ASSUME NEW s \in Seq(Block), NEW F, Clean(s)
  PROVE  Clean(Fold(s, F))
<1>1. DOMAIN Fold(s, F) = DOMAIN s
  BY DEF Fold
<1>2. \A k \in DOMAIN s :
        \/ Fold(s, F)[k] = s[k]
        \/ Fold(s, F)[k].kind = "folded" /\ Fold(s, F)[k].calls = {}
  BY DEF Fold, Plain
<1> HIDE DEF Fold
<1> QED
  BY <1>1, <1>2 DEF Clean

\* Where a block of the summarized history comes from.
LEMMA SummarizedPlaces ==
  ASSUME NEW s \in Seq(Block), NEW k \in 0..Len(s)
  PROVE  /\ Len(s) \in Nat /\ DOMAIN s = 1..Len(s)
         /\ DOMAIN Summarized(s, k) = 1..(Len(s) + 1)
         /\ \A j \in 1..(Len(s) + 1) :
              Summarized(s, k)[j] = IF j <= k THEN s[j]
                                    ELSE IF j = k + 1 THEN Plain("summary", 0) ELSE s[j - 1]
<1> DEFINE a == SubSeq(s, 1, k)
           m == <<Plain("summary", 0)>>
           z == SubSeq(s, k + 1, Len(s))
<1>1. Len(s) \in Nat /\ DOMAIN s = 1..Len(s)
  BY LenProperties
<1>2. a \in Seq(Block) /\ Len(a) = k /\ \A j \in 1..k : a[j] = s[j]
  BY <1>1, SubSeqProperties
<1>3. z \in Seq(Block) /\ Len(z) = Len(s) - k /\ \A j \in 1..(Len(s) - k) : z[j] = s[j + k]
  <2>1. k + 1 \in Int /\ Len(s) \in Int /\ \A j \in (k + 1)..Len(s) : s[j] \in Block
    BY <1>1, ElementOfSeq
  <2>2. /\ z \in Seq(Block)
        /\ Len(z) = IF k + 1 <= Len(s) THEN Len(s) - (k + 1) + 1 ELSE 0
        /\ \A j \in 1..(Len(s) - (k + 1) + 1) : z[j] = s[(k + 1) + j - 1]
    BY <2>1, SubSeqProperties
  <2> HIDE DEF z
  <2>3. Len(z) = Len(s) - k /\ Len(s) - (k + 1) + 1 = Len(s) - k
    <3>1. k \in Nat /\ k <= Len(s)
      BY <1>1
    <3>2. \A x, y \in Nat : x <= y =>
            /\ y - (x + 1) + 1 = y - x
            /\ x + 1 <= y \/ y - x = 0
      OBVIOUS
    <3> QED
      BY <1>1, <2>2, <3>1, <3>2
  <2>4. ASSUME NEW j \in 1..(Len(s) - k) PROVE z[j] = s[j + k]
    <3>1. (k + 1) + j - 1 = j + k
      BY <1>1
    <3> QED
      BY <2>2, <2>3, <3>1
  <2> QED
    BY <2>2, <2>3, <2>4
<1>4. m \in Seq(Block) /\ Len(m) = 1 /\ m[1] = Plain("summary", 0)
  BY PlainBlock DEF Given, Made
<1> HIDE DEF a, m, z
<1>5. /\ a \o m \in Seq(Block) /\ Len(a \o m) = k + 1
      /\ \A j \in 1..(k + 1) : (a \o m)[j] = IF j <= k THEN a[j] ELSE m[j - k]
  <2>1. /\ a \o m \in Seq(Block) /\ Len(a \o m) = Len(a) + Len(m)
        /\ \A j \in 1..(Len(a) + Len(m)) :
             (a \o m)[j] = IF j <= Len(a) THEN a[j] ELSE m[j - Len(a)]
    BY <1>2, <1>4, ConcatProperties
  <2> QED
    BY <1>2, <1>4, <2>1
<1>6. /\ Len((a \o m) \o z) = Len(s) + 1 /\ (a \o m) \o z \in Seq(Block)
      /\ \A j \in 1..(Len(s) + 1) :
           ((a \o m) \o z)[j] = IF j <= k + 1 THEN (a \o m)[j] ELSE z[j - (k + 1)]
  <2> DEFINE y == a \o m
  <2> HIDE DEF y
  <2>1. /\ y \o z \in Seq(Block) /\ Len(y \o z) = Len(y) + Len(z)
        /\ \A j \in 1..(Len(y) + Len(z)) :
             (y \o z)[j] = IF j <= Len(y) THEN y[j] ELSE z[j - Len(y)]
    <3>1. y \in Seq(Block) /\ z \in Seq(Block)
      BY <1>3, <1>5 DEF y
    <3> QED
      BY <3>1, ConcatProperties
  <2>2. Len(y) = k + 1 /\ Len(y) + Len(z) = Len(s) + 1
    BY <1>1, <1>3, <1>5 DEF y
  <2> QED
    BY <2>1, <2>2 DEF y
<1>7. DOMAIN ((a \o m) \o z) = 1..(Len(s) + 1)
  BY <1>6, LenProperties
<1>8. ASSUME NEW j \in 1..(Len(s) + 1)
      PROVE  ((a \o m) \o z)[j] = IF j <= k THEN s[j]
                                  ELSE IF j = k + 1 THEN Plain("summary", 0) ELSE s[j - 1]
  <2>1. CASE j <= k
    BY <1>1, <1>2, <1>5, <1>6, <2>1
  <2>2. CASE j = k + 1
    BY <1>1, <1>4, <1>5, <1>6, <2>2
  <2>3. CASE j > k + 1
    <3>1. j - (k + 1) \in 1..(Len(s) - k) /\ (j - (k + 1)) + k = j - 1
      BY <1>1, <2>3
    <3> QED
      BY <1>1, <1>3, <1>6, <2>3, <3>1
  <2>4. j \in Nat /\ k \in Nat
    BY <1>1
  <2>5. ~(k + 1 <= k) /\ (j > k + 1 => ~(j <= k) /\ j # k + 1)
    BY <2>4
  <2>6. j <= k \/ j = k + 1 \/ j > k + 1
    BY <2>4
  <2> QED
    BY <2>1, <2>2, <2>3, <2>5, <2>6
<1> QED
  BY <1>1, <1>7, <1>8 DEF Summarized, a, m, z

LEMMA SummarizedClean ==
  ASSUME NEW s \in Seq(Block), NEW k \in 0..Len(s), Clean(s)
  PROVE  Clean(Summarized(s, k))
<1> DEFINE r == Summarized(s, k)
           From(j) == IF j <= k THEN j ELSE j - 1
<1>1. DOMAIN r = 1..(Len(s) + 1) /\ DOMAIN s = 1..Len(s) /\ Len(s) \in Nat
  BY SummarizedPlaces
<1>2. ASSUME NEW j \in DOMAIN r
      PROVE  \/ j # k + 1 /\ From(j) \in DOMAIN s /\ r[j] = s[From(j)]
             \/ r[j].kind = "summary" /\ r[j].calls = {}
  <2>1. r[j] = IF j <= k THEN s[j] ELSE IF j = k + 1 THEN Plain("summary", 0) ELSE s[j - 1]
    BY <1>1, SummarizedPlaces
  <2>2. Plain("summary", 0).kind = "summary" /\ Plain("summary", 0).calls = {}
    BY DEF Plain
  <2> HIDE DEF r
  <2> QED
    BY <1>1, <2>1, <2>2
<1>3. ASSUME NEW j \in DOMAIN r, NEW m \in DOMAIN r, j # k + 1, m # k + 1
      PROVE  /\ j < m => From(j) < From(m)
             /\ From(j) = From(m) => j = m
  BY <1>1, <1>3
<1> HIDE DEF r, From
<1>4. \A j \in DOMAIN r :
        /\ r[j].kind # "tool"
        /\ \A c \in r[j].calls : c.id # NoID /\ \E t \in r[j].results : t.id = c.id
  BY <1>2 DEF Clean
<1>5. ASSUME NEW j \in DOMAIN r, NEW m \in DOMAIN r,
             NEW c \in r[j].calls, NEW d \in r[m].calls, c.id = d.id
      PROVE  j = m /\ c = d
  <2>1. /\ j # k + 1 /\ From(j) \in DOMAIN s /\ r[j] = s[From(j)]
        /\ m # k + 1 /\ From(m) \in DOMAIN s /\ r[m] = s[From(m)]
    BY <1>2
  <2>2. From(j) = From(m) /\ c = d
    BY <1>5, <2>1 DEF Clean
  <2> QED
    BY <1>3, <2>1, <2>2
<1>6. ASSUME NEW j \in DOMAIN r, NEW m \in DOMAIN r, j < m, r[j].kind = "turn",
             NEW t \in r[j].results, NEW c \in r[m].calls
      PROVE  t.id # c.id
  <2>1. /\ j # k + 1 /\ From(j) \in DOMAIN s /\ r[j] = s[From(j)]
        /\ m # k + 1 /\ From(m) \in DOMAIN s /\ r[m] = s[From(m)]
    BY <1>2, <1>6
  <2>2. From(j) < From(m)
    BY <1>3, <1>6, <2>1
  <2> QED
    BY <1>6, <2>1, <2>2 DEF Clean
<1> QED
  BY <1>4, <1>5, <1>6 DEF Clean, r

\* A new pass over a clean history.
LEMMA PassClean ==
  ASSUME NEW s \in Seq(Block), Clean(s), NEW next, Pass(s, next)
  PROVE  Clean(out') /\ ResultsResolved' /\ i' <= Len(msgs') + 1 /\ Copied'
<1>1. out' = <<>> /\ resolved' = {} /\ i' = 1 /\ msgs' = s
  BY DEF Pass
<1>2. Len(s) \in Nat /\ DOMAIN <<>> = {} /\ Len(<<>>) = 0
  BY LenProperties
<1>3. Left(s, 0) = {} /\ Cardinality(Left(s, 0)) = 0
  BY FS_EmptySet DEF Left
<1> QED
  BY <1>1, <1>2, <1>3 DEF Clean, ResultsResolved, Copied

LEMMA SInvStep == SInv /\ [Next]_vars => SInv'
<1> SUFFICES ASSUME SInv, [Next]_vars PROVE SInv'
  OBVIOUS
<1>1. IInv'
  BY NextIInv DEF SInv
<1>2. CASE Sanitize
  BY <1>1, <1>2, CleanStep, CopiedStep DEF SInv
<1>3. CASE Send \/ Answer \/ UNCHANGED vars
  BY <1>1, <1>3 DEF SInv, Send, Answer, vars, Clean, ResultsResolved, Copied
<1>4. CASE Overflow
  BY <1>1, <1>4, PassClean DEF Overflow, SInv, IInv, TypeOK
<1>5. CASE Compact
  <2>1. out \in Seq(Block) /\ Clean(out)
    BY DEF SInv, IInv, TypeOK
  <2>2. CASE Pass(out, "after")
    BY <1>1, <2>1, <2>2, PassClean DEF SInv
  <2>3. ASSUME NEW F, NEW k \in 0..Len(out), Pass(Summarized(Fold(out, F), k), "after")
        PROVE  SInv'
    <3>1. Fold(out, F) \in Seq(Block) /\ Len(Fold(out, F)) = Len(out) /\ Clean(Fold(out, F))
      BY <2>1, FoldBlocks, FoldClean
    <3>2. Summarized(Fold(out, F), k) \in Seq(Block) /\ Clean(Summarized(Fold(out, F), k))
      BY <3>1, SummarizedBlocks, SummarizedClean
    <3> QED
      BY <1>1, <2>3, <3>2, PassClean DEF SInv
  <2> QED
    BY <1>5, <2>2, <2>3 DEF Compact
<1> QED
  BY <1>2, <1>3, <1>4, <1>5 DEF Next

LEMMA SInvInit == Init => SInv
<1> SUFFICES ASSUME Init PROVE SInv
  OBVIOUS
<1>1. IInv /\ msgs \in Seq(Block)
  BY InitIInv DEF IInv, TypeOK
<1>2. out = <<>> /\ DOMAIN out = {} /\ i = 1 /\ attempt = 0 /\ Len(msgs) \in Nat
  BY <1>1, LenProperties DEF Init
<1> QED
  BY <1>1, <1>2 DEF SInv, Clean, ResultsResolved, Copied

\* Stable: "tool_use blocks paired with a tool_result" survives compaction
\* because the passes around a fold copy what they read (failover_model.go 603,
\* context_compaction.go 123, 210).
THEOREM HistoryStable == Spec => []Stable
<1>1. SInv => Stable
  <2> SUFFICES ASSUME SInv, attempt > 0, i > Len(msgs)
               PROVE  /\ Len(out) = Cardinality(Left(msgs, Len(msgs)))
                      /\ \A k \in Left(msgs, Len(msgs)) :
                           out[Cardinality(Left(msgs, k))] = msgs[k]
    BY DEF Stable
  <2>1. i - 1 = Len(msgs)
    BY LenProperties DEF SInv, IInv, TypeOK
  <2> QED
    BY <2>1 DEF SInv, Copied
<1> QED
  BY <1>1, SInvInit, SInvStep, PTL DEF Spec

-----------------------------------------------------------------------------
(* The latest user message.                                                *)

\* The last user message of s, at from or later, is the latest of the history
\* or a tool result that was turned into a user message.
IsLatest(b) == b.kind = "note" \/ (b.kind = "user" /\ b.n = latest)

Newest(s, from) ==
  \E k \in DOMAIN s :
    k >= from /\ IsLatest(s[k]) /\ \A j \in DOMAIN s : j > k => ~IsUser(s[j])

\* The latest user message is still to be read, or written with no user
\* message left to read.
LatestInv ==
  latest > 0 =>
    \/ Newest(msgs, i)
    \/ Newest(out, 1) /\ \A j \in DOMAIN msgs : j >= i => ~IsUser(msgs[j])

LInv == SInv /\ LatestInv /\ (phase = "sent" => i > Len(msgs))

LEMMA NewestConcat ==
  ASSUME NEW s \in Seq(Block), NEW t \in Seq(Block), Newest(s, 1),
         \/ \A j \in DOMAIN t : ~IsUser(t[j])
         \/ Len(t) > 0 /\ t[Len(t)].kind = "note"
  PROVE  Newest(s \o t, 1)
<1>1. /\ Len(s) \in Nat /\ DOMAIN s = 1..Len(s)
      /\ Len(t) \in Nat /\ DOMAIN t = 1..Len(t)
  BY LenProperties
<1>2. /\ s \o t \in Seq(Block) /\ Len(s \o t) = Len(s) + Len(t)
      /\ \A j \in 1..(Len(s) + Len(t)) :
           (s \o t)[j] = IF j <= Len(s) THEN s[j] ELSE t[j - Len(s)]
  BY ConcatProperties
<1>3. DOMAIN (s \o t) = 1..(Len(s) + Len(t))
  BY <1>2, LenProperties
<1>4. CASE Len(t) > 0 /\ t[Len(t)].kind = "note"
  <2> DEFINE k == Len(s) + Len(t)
  <2>1. k \in 1..k /\ k >= 1 /\ ~(k <= Len(s)) /\ k - Len(s) = Len(t)
    BY <1>1, <1>4
  <2>2. IsLatest((s \o t)[k])
    BY <1>2, <1>4, <2>1 DEF IsLatest
  <2>3. \A j \in 1..k : ~(j > k)
    BY <1>1
  <2> QED
    BY <1>3, <2>1, <2>2, <2>3 DEF Newest
<1>5. CASE \A j \in DOMAIN t : ~IsUser(t[j])
  <2>1. PICK k \in 1..Len(s) : IsLatest(s[k]) /\ \A j \in 1..Len(s) : j > k => ~IsUser(s[j])
    BY <1>1 DEF Newest
  <2>2. k \in 1..(Len(s) + Len(t)) /\ k >= 1 /\ (s \o t)[k] = s[k]
    BY <1>1, <1>2
  <2>3. ASSUME NEW j \in 1..(Len(s) + Len(t)), j > k
        PROVE  ~IsUser((s \o t)[j])
    <3>1. CASE j <= Len(s)
      BY <1>1, <1>2, <2>1, <2>3, <3>1
    <3>2. CASE j > Len(s)
      <4>1. j - Len(s) \in 1..Len(t) /\ ~(j <= Len(s))
        BY <1>1, <3>2
      <4> QED
        BY <1>1, <1>2, <1>5, <4>1
    <3> QED
      BY <1>1, <3>1, <3>2
  <2> QED
    BY <1>3, <2>1, <2>2, <2>3 DEF Newest
<1> QED
  BY <1>4, <1>5

\* What the sanitizer writes for a block that is no user message is none
\* either, or ends with a note.
LEMMA WritesNoUser ==
  ASSUME TypeOK, Sanitize, ~IsUser(msgs[i])
  PROVE  \E t \in Seq(Block) :
           /\ out' = out \o t
           /\ \/ \A j \in DOMAIN t : ~IsUser(t[j])
              \/ Len(t) > 0 /\ t[Len(t)].kind = "note"
<1> DEFINE b == msgs[i]
<1>1. b \in Block /\ b.n \in Nat
  BY ElementOfSeq, LenProperties DEF Sanitize, Scanning, TypeOK, Block
<1>2. CASE KeepTurn(b)
  <2> DEFINE c == [b EXCEPT !.calls = Fresh(b), !.results = Kept(b) \cup Missing(b)]
  <2>1. out' = out \o <<c>>
    BY <1>2 DEF KeepTurn, Emit
  <2>2. c \in Block /\ ~IsUser(c)
    BY <1>1, <1>2, KeptTurn DEF IsUser
  <2> HIDE DEF c
  <2>3. <<c>> \in Seq(Block) /\ \A j \in DOMAIN <<c>> : <<c>>[j] = c
    BY <2>2
  <2> QED
    BY <2>1, <2>2, <2>3
<1>3. CASE FlattenTurn(b)
  <2> DEFINE head == IF b.text THEN <<Plain("text", b.n)>> ELSE <<>>
             tail == Notes(Kept(b), b.n)
  <2>1. out' = out \o (head \o tail)
    BY <1>3 DEF FlattenTurn, Emit
  <2>2. Plain("text", b.n) \in Block
    BY <1>1, PlainBlock DEF Given, Made
  <2>3. head \in Seq(Block) /\ \A j \in DOMAIN head : head[j] = Plain("text", b.n)
    BY <2>2
  <2>4. tail \in Seq(Block) /\ \A j \in DOMAIN tail : tail[j] = Plain("note", b.n)
    BY <1>1, BlockFacts, NotesBlocks
  <2> HIDE DEF head, tail
  <2>5. /\ head \o tail \in Seq(Block)
        /\ Len(head \o tail) = Len(head) + Len(tail)
        /\ \A j \in 1..(Len(head) + Len(tail)) :
             (head \o tail)[j] = IF j <= Len(head) THEN head[j] ELSE tail[j - Len(head)]
    BY <2>3, <2>4, ConcatProperties
  <2>6. /\ Len(head) \in Nat /\ DOMAIN head = 1..Len(head)
        /\ Len(tail) \in Nat /\ DOMAIN tail = 1..Len(tail)
    BY <2>3, <2>4, LenProperties
  <2>7. ~IsUser(Plain("text", b.n)) /\ Plain("note", b.n).kind = "note"
    BY DEF IsUser, Plain
  <2>8. CASE Len(tail) = 0
    <3>1. DOMAIN (head \o tail) = 1..Len(head)
      BY <2>5, <2>6, <2>8, LenProperties
    <3>2. \A j \in 1..Len(head) : (head \o tail)[j] = Plain("text", b.n)
      BY <2>3, <2>5, <2>6, <2>8
    <3> QED
      BY <2>1, <2>5, <2>7, <3>1, <3>2
  <2>9. CASE Len(tail) > 0
    <3>1. /\ Len(head) + Len(tail) \in 1..(Len(head) + Len(tail))
          /\ ~(Len(head) + Len(tail) <= Len(head))
          /\ (Len(head) + Len(tail)) - Len(head) = Len(tail)
      BY <2>6, <2>9
    <3>2. (head \o tail)[Len(head \o tail)] = Plain("note", b.n)
      BY <2>4, <2>5, <2>6, <2>9, <3>1
    <3>3. Len(head \o tail) > 0
      BY <2>5, <2>6, <2>9
    <3> QED
      BY <2>1, <2>5, <2>7, <3>2, <3>3
  <2>10. Len(tail) = 0 \/ Len(tail) > 0
    BY <2>6
  <2> QED
    BY <2>8, <2>9, <2>10
<1>4. CASE ConvertOrphan(b)
  <2> DEFINE c == Plain("note", b.n)
  <2>1. out' = out \o <<c>>
    BY <1>4 DEF ConvertOrphan, Emit
  <2>2. c \in Block /\ c.kind = "note"
    BY <1>1, PlainBlock DEF Given, Made, Plain
  <2> HIDE DEF c
  <2>3. <<c>> \in Seq(Block) /\ Len(<<c>>) > 0 /\ <<c>>[Len(<<c>>)].kind = "note"
    BY <2>2
  <2> QED
    BY <2>1, <2>3
<1>5. CASE SkipOrphan(b) \/ LeaveOut(b)
  <2>1. out' = out \o <<>>
    BY <1>5 DEF SkipOrphan, LeaveOut, Emit
  <2>2. <<>> \in Seq(Block) /\ \A j \in DOMAIN <<>> : ~IsUser(<<>>[j])
    OBVIOUS
  <2> QED
    BY <2>1, <2>2
<1>6. CASE Copy(b)
  <2>1. out' = out \o <<b>> /\ ~IsUser(b)
    BY <1>6 DEF Copy, Emit
  <2>2. <<b>> \in Seq(Block) /\ \A j \in DOMAIN <<b>> : <<b>>[j] = b
    BY <1>1
  <2> QED
    BY <2>1, <2>2
<1> HIDE DEF b
<1> QED
  BY <1>2, <1>3, <1>4, <1>5, <1>6 DEF Sanitize, b

LEMMA LatestSanitize ==
  ASSUME IInv, LatestInv, Sanitize
  PROVE  LatestInv'
<1>1. /\ i' = i + 1 /\ msgs' = msgs /\ latest' = latest
      /\ i \in Nat \ {0} /\ i <= Len(msgs) /\ Len(msgs) \in Nat
      /\ out \in Seq(Block) /\ TypeOK /\ DOMAIN msgs = 1..Len(msgs)
      /\ msgs[i] \in Block
  BY LenProperties, ElementOfSeq DEF Sanitize, Scanning, KeepTurn, FlattenTurn,
     ConvertOrphan, SkipOrphan, Copy, LeaveOut, Emit, IInv, TypeOK
<1>2. SUFFICES ASSUME latest > 0
               PROVE  \/ Newest(msgs, i + 1)
                      \/ /\ Newest(out', 1)
                         /\ \A j \in DOMAIN msgs : j >= i + 1 => ~IsUser(msgs[j])
  BY <1>1 DEF LatestInv, Newest, IsLatest
<1>3. CASE Newest(msgs, i)
  <2>1. PICK k \in 1..Len(msgs) :
          k >= i /\ IsLatest(msgs[k]) /\ \A j \in 1..Len(msgs) : j > k => ~IsUser(msgs[j])
    BY <1>1, <1>3 DEF Newest
  <2>2. CASE k >= i + 1
    BY <1>1, <2>1, <2>2 DEF Newest
  <2>3. CASE k = i
    <3>1. out' = out \o <<msgs[i]>>
      BY <1>1, <2>1, <2>3 DEF IsLatest, Sanitize, KeepTurn, FlattenTurn, ConvertOrphan,
         SkipOrphan, Copy, LeaveOut, Emit, Fresh, Block
    <3>2. out' = Append(out, msgs[i])
      BY <1>1, <3>1, AppendIsConcat
    <3>3. /\ Len(out') = Len(out) + 1 /\ out' \in Seq(Block) /\ Len(out) \in Nat
          /\ out'[Len(out) + 1] = msgs[i]
      BY <1>1, <3>2, AppendProperties, LenProperties
    <3>4. DOMAIN out' = 1..(Len(out) + 1)
      BY <3>3, LenProperties
    <3>5. Newest(out', 1)
      BY <2>1, <2>3, <3>3, <3>4 DEF Newest
    <3>6. \A j \in DOMAIN msgs : j >= i + 1 => ~IsUser(msgs[j])
      BY <1>1, <2>1, <2>3
    <3> QED
      BY <3>5, <3>6
  <2> QED
    BY <1>1, <2>1, <2>2, <2>3
<1>4. CASE Newest(out, 1) /\ \A j \in DOMAIN msgs : j >= i => ~IsUser(msgs[j])
  <2>1. ~IsUser(msgs[i])
    BY <1>1, <1>4
  <2>2. Newest(out', 1)
    BY <1>1, <1>4, <2>1, WritesNoUser, NewestConcat
  <2>3. \A j \in DOMAIN msgs : j >= i + 1 => ~IsUser(msgs[j])
    BY <1>1, <1>4
  <2> QED
    BY <2>2, <2>3
<1> QED
  BY <1>2, <1>3, <1>4 DEF LatestInv

\* Folding and summarizing leave the last user message where it is.
LEMMA FoldNewest ==
  ASSUME NEW s \in Seq(Block), NEW F \in SUBSET Free(s), Newest(s, 1)
  PROVE  Newest(Fold(s, F), 1)
<1>1. Len(s) \in Nat /\ DOMAIN s = 1..Len(s) /\ DOMAIN Fold(s, F) = 1..Len(s)
  BY LenProperties DEF Fold
<1>2. PICK k \in 1..Len(s) : IsLatest(s[k]) /\ \A j \in 1..Len(s) : j > k => ~IsUser(s[j])
  BY <1>1 DEF Newest
<1>3. Protected(s, k)
  BY <1>1, <1>2 DEF Protected, IsUser, IsLatest
<1>4. Fold(s, F)[k] = s[k]
  BY <1>1, <1>3 DEF Free, Fold
<1>5. ASSUME NEW j \in 1..Len(s), j > k PROVE ~IsUser(Fold(s, F)[j])
  <2>1. Fold(s, F)[j] = s[j] \/ Fold(s, F)[j].kind = "folded"
    BY <1>1 DEF Fold, Plain
  <2> QED
    BY <1>2, <1>5, <2>1 DEF IsUser
<1> HIDE DEF Fold
<1> QED
  BY <1>1, <1>2, <1>4, <1>5 DEF Newest

LEMMA SummarizedNewest ==
  ASSUME NEW s \in Seq(Block), NEW k \in 0..Len(s), Leads(s, k), Newest(s, 1)
  PROVE  Newest(Summarized(s, k), 1)
<1> DEFINE r == Summarized(s, k)
<1>1. /\ Len(s) \in Nat /\ DOMAIN s = 1..Len(s) /\ DOMAIN r = 1..(Len(s) + 1)
      /\ \A j \in 1..(Len(s) + 1) :
           r[j] = IF j <= k THEN s[j]
                  ELSE IF j = k + 1 THEN Plain("summary", 0) ELSE s[j - 1]
  BY SummarizedPlaces
<1> HIDE DEF r
<1>2. PICK m \in 1..Len(s) : IsLatest(s[m]) /\ \A j \in 1..Len(s) : j > m => ~IsUser(s[j])
  BY <1>1 DEF Newest
<1>3. ~(m <= k)
  BY <1>1, <1>2 DEF Leads, IsLatest
<1>4. k \in Nat /\ m > k
  BY <1>1, <1>3
<1>5. m + 1 \in 1..(Len(s) + 1) /\ m + 1 >= 1 /\ r[m + 1] = s[m]
  <2>1. ~(m + 1 <= k) /\ m + 1 # k + 1 /\ (m + 1) - 1 = m
    BY <1>4
  <2> QED
    BY <1>1, <2>1
<1>6. ASSUME NEW j \in 1..(Len(s) + 1), j > m + 1 PROVE ~IsUser(r[j])
  <2>1. ~(j <= k) /\ j # k + 1 /\ j - 1 \in 1..Len(s) /\ j - 1 > m
    BY <1>1, <1>4, <1>6
  <2> QED
    BY <1>1, <1>2, <2>1
<1> QED
  BY <1>1, <1>2, <1>5, <1>6 DEF Newest, r

LEMMA LStep == LInv /\ [Next]_vars => LInv'
<1> SUFFICES ASSUME LInv, [Next]_vars PROVE LInv'
  OBVIOUS
<1>1. SInv' /\ IInv /\ out \in Seq(Block)
  BY SInvStep DEF LInv, SInv, IInv, TypeOK
<1>2. CASE Sanitize
  <2>1. LatestInv'
    BY <1>1, <1>2, LatestSanitize DEF LInv
  <2>2. phase' # "sent"
    BY <1>2 DEF Sanitize, Scanning, KeepTurn, FlattenTurn, ConvertOrphan, SkipOrphan,
       Copy, LeaveOut, Emit
  <2> QED
    BY <1>1, <2>1, <2>2 DEF LInv
<1>3. CASE Send \/ Answer \/ UNCHANGED vars
  BY <1>1, <1>3 DEF LInv, Send, Answer, vars, LatestInv, Newest, IsLatest
<1>4. latest > 0 /\ i > Len(msgs) => Newest(out, 1)
  BY <1>1, LenProperties DEF LInv, LatestInv, Newest, IInv, TypeOK
<1>5. ASSUME NEW s, NEW next \in {"before", "after"}, Pass(s, next), latest' = latest,
             latest > 0 => Newest(s, 1)
      PROVE  LInv'
  <2>1. msgs' = s /\ i' = 1 /\ phase' # "sent"
    BY <1>5 DEF Pass
  <2>2. LatestInv'
    BY <1>5, <2>1 DEF LatestInv, Newest, IsLatest
  <2> QED
    BY <1>1, <2>1, <2>2 DEF LInv
<1>6. CASE Overflow
  BY <1>4, <1>5, <1>6 DEF Overflow, LInv
<1>7. CASE Compact
  <2>1. i > Len(msgs) /\ latest' = latest
    BY <1>7 DEF Compact
  <2>2. CASE Pass(out, "after")
    BY <1>4, <1>5, <2>1, <2>2
  <2>3. ASSUME NEW F \in SUBSET Free(out), NEW k \in 0..Len(out), Leads(Fold(out, F), k),
               Pass(Summarized(Fold(out, F), k), "after")
        PROVE  LInv'
    <3>1. Fold(out, F) \in Seq(Block) /\ Len(Fold(out, F)) = Len(out)
      BY <1>1, FoldBlocks
    <3>2. latest > 0 => Newest(Summarized(Fold(out, F), k), 1)
      BY <1>1, <1>4, <2>1, <2>3, <3>1, FoldNewest, SummarizedNewest
    <3> QED
      BY <1>5, <2>1, <2>3, <3>2
  <2> QED
    BY <1>7, <2>2, <2>3 DEF Compact
<1> QED
  BY <1>2, <1>3, <1>6, <1>7 DEF Next

LEMMA LInit == Init => LInv
<1> SUFFICES ASSUME Init PROVE LInv
  OBVIOUS
<1>1. SInv /\ msgs \in Seq(Block)
  BY SInvInit DEF SInv, IInv, TypeOK
<1>2. Len(msgs) \in Nat /\ DOMAIN msgs = 1..Len(msgs)
  BY <1>1, LenProperties
<1>3. \A k \in DOMAIN msgs : msgs[k].n = k /\ msgs[k].kind \in Given
  BY HistoriesAssumption DEF Init
<1>4. ASSUME latest > 0 PROVE Newest(msgs, 1)
  <2>1. latest \in 1..Len(msgs) /\ latest >= 1 /\ IsLatest(msgs[latest])
    BY <1>2, <1>3, <1>4 DEF Init, IsLatest
  <2>2. ASSUME NEW j \in 1..Len(msgs), j > latest PROVE ~IsUser(msgs[j])
    <3>1. msgs[j].kind # "user"
      BY <1>2, <2>1, <2>2 DEF Init
    <3> QED
      BY <1>2, <1>3, <3>1 DEF IsUser, Given
  <2> QED
    BY <1>2, <2>1, <2>2 DEF Newest
<1> QED
  BY <1>1, <1>4 DEF LInv, LatestInv, Init

\* LatestUserKept: compaction never loses what the user asked for last
\* (context_compaction_test.go 37), in histories of every length and after
\* any number of compactions.
THEOREM UserKept == Spec => []LatestUserKept
<1>1. LInv => LatestUserKept
  <2> SUFFICES ASSUME LInv, phase = "sent", latest > 0,
                      \A k \in DOMAIN out : out[k].kind # "note"
               PROVE  \E k \in DOMAIN out : out[k].kind = "user" /\ out[k].n = latest
    BY DEF LatestUserKept
  <2>1. Newest(out, 1)
    BY LenProperties DEF LInv, SInv, IInv, TypeOK, LatestInv, Newest
  <2> QED
    BY <2>1 DEF Newest, IsLatest
<1> QED
  BY <1>1, LInit, LStep, PTL DEF Spec

-----------------------------------------------------------------------------
(***************************************************************************)
(* The calls of the failover model, for any pool size, any budgets and any *)
(* number of concurrent calls.                                             *)
(***************************************************************************)
LEMMA ModelFacts ==
  /\ 0 \in Models
  /\ Models \subseteq Nat
  /\ \A m \in Models : Succ(m) \in Models
BY PoolAssumption DEF Models, Succ

LEMMA ErrorFacts ==
  \A e \in Errors :
    /\ e.overflow \in BOOLEAN
    /\ Kind(e) \in {"none", "cancelled", "error"}
<1> SUFFICES ASSUME NEW e \in Errors
             PROVE  /\ e.overflow \in BOOLEAN
                    /\ Kind(e) \in {"none", "cancelled", "error"}
  OBVIOUS
<1>1. CASE e \in [class : {"rate", "transient", "permanent"}, overflow : BOOLEAN]
  BY <1>1 DEF Kind
<1>2. CASE e = [class |-> "cancelled", overflow |-> FALSE]
  BY <1>2 DEF Kind
<1> QED BY <1>1, <1>2 DEF Errors

-----------------------------------------------------------------------------
(* Types and counters.  Giving up on a model needs tried[c] < N, which is  *)
(* part of the invariant: a call that is on a model has one left.          *)

CountInv ==
  \A c \in Callers :
    /\ pc[c] = "ask" => sent[c] = 1 + rateN[c] + transN[c] /\ tried[c] < N
    /\ pc[c] = "sleep" =>
         /\ sent[c] = rateN[c] + transN[c]
         /\ tried[c] < N
    /\ pc[c] \notin {"ask", "sleep"} => sent[c] = 0

TInv == PoolTypeOK /\ CountInv

\* The error of a request leads to a compacted request or to the next model.
LEMMA PropagateStep ==
  ASSUME TInv, NEW c \in Callers, pc[c] \in {"ask", "sleep"},
         NEW kind \in {"none", "cancelled", "error"}, NEW overflow \in BOOLEAN,
         Propagate(c, kind, overflow), UNCHANGED <<cancelled, alerted>>
  PROVE  TInv'
<1> USE ModelFacts, PoolAssumption, BudgetAssumption
    DEF TInv, PoolTypeOK, CountInv, Goto, retry, outer
<1>1. CASE Compacts(c, overflow)
  <2>1. compacted[c] + 1 \in 0..CompactRetries
    BY <1>1 DEF Compacts
  <2>2. Begin(c, compacted[c] + 1) /\ UNCHANGED <<idx, tried, lastErr, asked, skipped>>
    BY <1>1 DEF Propagate
  <2>3. PoolTypeOK'
    BY <2>1, <2>2 DEF Begin
  <2>4. CountInv'
    BY <2>2 DEF Begin
  <2> QED BY <2>3, <2>4
<1>2. CASE ~Compacts(c, overflow)
  <2>1. /\ lastErr' = [lastErr EXCEPT ![c] = kind] /\ idx' = Succ(idx)
        /\ skipped' = [d \in Callers |->
                         skipped[d] \cup IF d # c /\ Busy(d) THEN {Due(d)} ELSE {}]
        /\ tried' = [tried EXCEPT ![c] = @ + 1] /\ tried[c] < N
        /\ LeaveModel(c) /\ pc' = [pc EXCEPT ![c] = "loop"] /\ UNCHANGED asked
    BY <1>2 DEF Propagate
  <2>2. \A d \in Callers : Due(d) \in Models
    BY DEF Due
  <2>3. skipped' \in [Callers -> SUBSET Models]
    BY <2>1, <2>2
  <2>4. PoolTypeOK'
    BY <2>1, <2>3 DEF LeaveModel
  <2>5. CountInv'
    BY <2>1 DEF LeaveModel
  <2> QED BY <2>4, <2>5
<1> QED BY <1>1, <1>2

LEMMA TypeStep == TInv /\ [PoolNext]_poolVars => TInv'
<1> SUFFICES ASSUME TInv, [PoolNext]_poolVars PROVE TInv'
  OBVIOUS
<1> USE ModelFacts, PoolAssumption, BudgetAssumption
    DEF TInv, PoolTypeOK, CountInv, Goto, retry, outer
<1>1. ASSUME NEW c \in Callers, Call(c) PROVE TInv'
  BY <1>1 DEF Call
<1>2. ASSUME NEW c \in Callers, TryModel(c) PROVE TInv'
  BY <1>2 DEF TryModel, Begin
<1>3. ASSUME NEW c \in Callers, GiveUp(c) PROVE TInv'
  BY <1>3 DEF GiveUp
<1>4. ASSUME NEW c \in Callers, Succeed(c) PROVE TInv'
  BY <1>4 DEF Succeed, LeaveModel, LeaveCall
<1>5. ASSUME NEW c \in Callers, Wake(c) PROVE TInv'
  BY <1>5 DEF Wake
<1>6. ASSUME NEW c \in Callers, Interrupted(c) PROVE TInv'
  <2>1. /\ pc[c] = "sleep" /\ Propagate(c, "error", long[c])
        /\ UNCHANGED <<cancelled, alerted>> /\ long[c] \in BOOLEAN
    BY <1>6 DEF Interrupted
  <2> QED BY <2>1, PropagateStep
<1>7. ASSUME NEW c \in Callers, NEW e \in Errors, Backoff(c, e) PROVE TInv'
  <2>1. e.overflow \in BOOLEAN
    BY ErrorFacts
  <2>2. long' \in [Callers -> BOOLEAN]
    <3>1. long \in [Callers -> BOOLEAN] /\ long' = [long EXCEPT ![c] = e.overflow]
      BY <1>7 DEF Backoff
    <3> QED BY <2>1, <3>1
  <2>3. /\ rateN' \in [Callers -> 0..RateMax] /\ transN' \in [Callers -> 0..TransientMax]
        /\ rateN'[c] + transN'[c] = rateN[c] + transN[c] + 1
        /\ \A d \in Callers : d # c => rateN'[d] = rateN[d] /\ transN'[d] = transN[d]
    BY <1>7 DEF Backoff, RetriesRate, RetriesTransient
  <2>4. CountInv'
    BY <1>7, <2>3 DEF Backoff
  <2>5. PoolTypeOK'
    BY <1>7, <2>2, <2>3 DEF Backoff
  <2> QED BY <2>4, <2>5
<1>8. ASSUME NEW c \in Callers, NEW e \in Errors, Fails(c, e) PROVE TInv'
  <2>1. Kind(e) \in {"none", "cancelled", "error"} /\ e.overflow \in BOOLEAN
    BY ErrorFacts
  <2>2. /\ pc[c] = "ask" /\ Propagate(c, Kind(e), e.overflow)
        /\ UNCHANGED <<cancelled, alerted>>
    BY <1>8 DEF Fails
  <2> QED BY <2>1, <2>2, PropagateStep
<1>9. ASSUME NEW c \in Callers, Cancel(c) PROVE TInv'
  BY <1>9 DEF Cancel
<1>10. ASSUME NEW c \in Callers, Return(c) PROVE TInv'
  BY <1>10 DEF Return, LeaveCall
<1>11. CASE UNCHANGED poolVars
  BY <1>11 DEF poolVars
<1> QED
  BY <1>1, <1>2, <1>3, <1>4, <1>5, <1>6, <1>7, <1>8, <1>9, <1>10, <1>11
     DEF PoolNext, Progress, Possible

LEMMA TypeInit == PoolInit => TInv
BY ModelFacts, PoolAssumption, BudgetAssumption
   DEF PoolInit, TInv, PoolTypeOK, CountInv

\* The model is well typed (the type invariant the run checks).
THEOREM PoolTyped == PoolSpec => []PoolTypeOK
<1>1. TInv => PoolTypeOK
  BY DEF TInv
<1> QED BY <1>1, TypeInit, TypeStep, PTL DEF PoolSpec

\* One endpoint gets no more requests for one prompt than the budgets allow,
\* however many calls run at once and wherever they are cancelled.
THEOREM BudgetKept == PoolSpec => []RetryBudget
<1>1. TInv => RetryBudget
  <2> SUFFICES ASSUME TInv, NEW c \in Callers
               PROVE  /\ sent[c] <= 1 + RateMax + TransientMax
                      /\ rateN[c] <= RateMax /\ compacted[c] <= CompactRetries
    BY DEF RetryBudget
  <2>1. /\ rateN[c] \in 0..RateMax /\ transN[c] \in 0..TransientMax
        /\ compacted[c] \in 0..CompactRetries
    BY DEF TInv, PoolTypeOK
  <2>2. sent[c] \in {0, rateN[c] + transN[c], 1 + rateN[c] + transN[c]}
    BY DEF TInv, PoolTypeOK, CountInv
  <2> QED BY <2>1, <2>2, BudgetAssumption
<1> QED BY <1>1, TypeInit, TypeStep, PTL DEF PoolSpec

-----------------------------------------------------------------------------
(* Going round the pool from idx, the models a call has neither asked nor  *)
(* lost to others come first: each failure, of this call or of another,    *)
(* advances idx past a model that is not among them.                       *)

\* Steps from m round the pool to n.
Distance(m, n) == IF m <= n THEN n - m ELSE n + N - m

Remaining(c) == Models \ (asked[c] \cup skipped[c])

RoundInv ==
  \A c \in Callers :
    /\ Busy(c) => \A m \in Remaining(c) : Distance(idx, m) < N - tried[c]
    /\ pc[c] \in {"ask", "sleep"} => idx \notin Remaining(c) /\ asked[c] # {}
    /\ pc[c] = "idle" =>
         tried[c] = 0 /\ asked[c] = {} /\ skipped[c] = {} /\ ~cancelled[c]
    /\ pc[c] = "failed" => cancelled[c] \/ Remaining(c) = {}

LEMMA DistanceFacts ==
  ASSUME NEW m \in Models, NEW n \in Models
  PROVE  /\ Distance(m, n) \in 0..(N - 1)
         /\ m # n => Distance(Succ(m), n) = Distance(m, n) - 1
BY PoolAssumption DEF Models, Distance, Succ

\* An error advances idx past no model that a call has left.
LEMMA PropagateRound ==
  ASSUME TInv, RoundInv, NEW c \in Callers, pc[c] \in {"ask", "sleep"},
         NEW kind, NEW overflow,
         Propagate(c, kind, overflow), UNCHANGED <<cancelled, alerted>>
  PROVE  RoundInv'
<1> USE ModelFacts, PoolAssumption DEF TInv, PoolTypeOK, CountInv, Goto, outer
<1>1. CASE Compacts(c, overflow)
  BY <1>1 DEF RoundInv, Propagate, Begin, Remaining, Busy
<1>2. CASE ~Compacts(c, overflow)
  <2>1. /\ idx' = Succ(idx) /\ tried' = [tried EXCEPT ![c] = @ + 1]
        /\ asked' = asked /\ pc' = [pc EXCEPT ![c] = "loop"]
        /\ skipped' = [d \in Callers |->
                         skipped[d] \cup IF d # c /\ Busy(d) THEN {Due(d)} ELSE {}]
    BY <1>2 DEF Propagate
  <2> SUFFICES ASSUME NEW d \in Callers
               PROVE  /\ Busy(d)' =>
                           \A m \in Remaining(d)' : Distance(idx', m) < N - tried'[d]
                      /\ pc'[d] \in {"ask", "sleep"} =>
                           idx' \notin Remaining(d)' /\ asked'[d] # {}
                      /\ pc'[d] = "idle" =>
                           /\ tried'[d] = 0 /\ asked'[d] = {}
                           /\ skipped'[d] = {} /\ ~cancelled'[d]
                      /\ pc'[d] = "failed" => cancelled'[d] \/ Remaining(d)' = {}
    BY DEF RoundInv
  <2>2. Remaining(d)' \subseteq Remaining(d)
    BY <2>1 DEF Remaining
  <2>3. ASSUME NEW m \in Remaining(d), m # idx, Busy(d)
        PROVE  /\ Distance(Succ(idx), m) = Distance(idx, m) - 1
               /\ Distance(idx, m) \in 0..(N - 1)
               /\ Distance(idx, m) < N - tried[d]
    <3>1. m \in Models
      BY DEF Remaining
    <3> QED BY <2>3, <3>1, DistanceFacts DEF RoundInv
  <2>4. CASE d = c
    <3>1. Busy(c) /\ idx \notin Remaining(c)
      BY DEF RoundInv, Busy
    <3>2. ASSUME NEW m \in Remaining(c)' PROVE Distance(idx', m) < N - tried'[c]
      <4>1. m \in Remaining(c) /\ m # idx
        BY <2>2, <2>4, <3>1
      <4>2. idx' = Succ(idx) /\ tried'[c] = tried[c] + 1
        BY <2>1
      <4> QED BY <4>1, <4>2, <2>3, <2>4, <3>1
    <3> QED BY <2>1, <2>4, <3>2
  <2>5. CASE d # c /\ Busy(d)
    <3>1. pc'[d] = pc[d] /\ tried'[d] = tried[d] /\ asked'[d] = asked[d]
      BY <2>1, <2>5
    <3>2. Remaining(d)' = Remaining(d) \ {Due(d)}
      BY <2>1, <2>5 DEF Remaining
    <3>3. idx \notin Remaining(d)'
      BY <2>5, <3>2 DEF RoundInv, Busy, Due
    <3>4. ASSUME NEW m \in Remaining(d)' PROVE Distance(idx', m) < N - tried'[d]
      <4>1. m \in Remaining(d) /\ m # idx
        BY <3>2, <3>3
      <4> QED BY <4>1, <2>1, <2>3, <2>5, <3>1
    <3>5. pc[d] \in {"ask", "sleep"} => idx' \notin Remaining(d)' /\ asked'[d] # {}
      BY <2>1, <3>1, <3>2 DEF Due, RoundInv
    <3> QED BY <2>5, <3>1, <3>4, <3>5 DEF Busy
  <2>6. CASE ~Busy(d)
    BY <2>1, <2>2, <2>6 DEF RoundInv, Busy, Remaining
  <2> QED BY <2>4, <2>5, <2>6
<1> QED BY <1>1, <1>2

LEMMA RoundStep ==
  ASSUME TInv, TInv', RoundInv, [PoolNext]_poolVars
  PROVE  RoundInv'
<1> USE ModelFacts, PoolAssumption
    DEF TInv, PoolTypeOK, CountInv, Goto, retry, outer, Remaining, Busy
<1>1. ASSUME NEW c \in Callers, Call(c) PROVE RoundInv'
  <2>1. \A m \in Models : Distance(idx, m) < N
    BY DistanceFacts
  <2> QED BY <1>1, <2>1 DEF RoundInv, Call
<1>2. ASSUME NEW c \in Callers, TryModel(c) PROVE RoundInv'
  BY <1>2 DEF RoundInv, TryModel, Begin
<1>3. ASSUME NEW c \in Callers, GiveUp(c) PROVE RoundInv'
  <2>1. tried[c] = N => Remaining(c) = {}
    <3> SUFFICES ASSUME tried[c] = N, NEW m \in Remaining(c) PROVE FALSE
      OBVIOUS
    <3>1. Distance(idx, m) < N - tried[c] /\ Distance(idx, m) \in 0..(N - 1)
      BY <1>3, DistanceFacts DEF RoundInv, GiveUp
    <3> QED BY <3>1
  <2> QED BY <1>3, <2>1 DEF RoundInv, GiveUp
<1>4. ASSUME NEW c \in Callers, Succeed(c) PROVE RoundInv'
  BY <1>4 DEF RoundInv, Succeed, LeaveCall
<1>5. ASSUME NEW c \in Callers, Wake(c) PROVE RoundInv'
  BY <1>5 DEF RoundInv, Wake
<1>6. ASSUME NEW c \in Callers, Interrupted(c) PROVE RoundInv'
  BY <1>6, PropagateRound DEF Interrupted
<1>7. ASSUME NEW c \in Callers, NEW e \in Errors, Backoff(c, e) PROVE RoundInv'
  BY <1>7 DEF RoundInv, Backoff
<1>8. ASSUME NEW c \in Callers, NEW e \in Errors, Fails(c, e) PROVE RoundInv'
  BY <1>8, PropagateRound DEF Fails
<1>9. ASSUME NEW c \in Callers, Cancel(c) PROVE RoundInv'
  BY <1>9 DEF RoundInv, Cancel
<1>10. ASSUME NEW c \in Callers, Return(c) PROVE RoundInv'
  BY <1>10 DEF RoundInv, Return, LeaveCall
<1>11. CASE UNCHANGED poolVars
  BY <1>11 DEF poolVars, RoundInv
<1> QED
  BY <1>1, <1>2, <1>3, <1>4, <1>5, <1>6, <1>7, <1>8, <1>9, <1>10, <1>11
     DEF PoolNext, Progress, Possible

LEMMA RoundInit == PoolInit => RoundInv
BY DEF PoolInit, RoundInv, Busy

\* A call that is not cancelled fails only after every model of the pool was
\* asked, or was its turn when another call's failure advanced the shared idx.
THEOREM FailsAfterAll == PoolSpec => []FailsOnlyAfterAll
<1>1. TInv /\ RoundInv /\ [PoolNext]_poolVars => RoundInv'
  BY TypeStep, RoundStep
<1>2. TInv /\ RoundInv => FailsOnlyAfterAll
  BY DEF TInv, PoolTypeOK, RoundInv, FailsOnlyAfterAll, Remaining
<1> QED BY <1>1, <1>2, TypeInit, TypeStep, RoundInit, PTL DEF PoolSpec

-----------------------------------------------------------------------------
(* Every step of a call is a step of FailoverSpec or none of its.          *)

\* An error takes one model from each other call under way, or changes nothing
\* of the promise.
LEMMA PropagateRefines ==
  ASSUME TInv, NEW c \in Callers, pc[c] \in {"ask", "sleep"},
         NEW kind, NEW overflow,
         Propagate(c, kind, overflow), UNCHANGED <<cancelled, alerted>>
  PROVE  Promise!Rotate(c) \/ UNCHANGED Promise!vars
<1> USE DEF TInv, PoolTypeOK, Goto, outer
<1>1. CASE Compacts(c, overflow)
  BY <1>1 DEF Propagate, Begin, Busy, Promise!vars
<1>2. CASE ~Compacts(c, overflow)
  <2> DEFINE state == [d \in Callers |-> IF Busy(d) THEN "busy" ELSE pc[d]]
             m == [d \in Callers |-> Due(d)]
  <2>1. /\ asked' = asked /\ pc' = [pc EXCEPT ![c] = "loop"]
        /\ skipped' = [d \in Callers |->
                         skipped[d] \cup IF d # c /\ Busy(d) THEN {Due(d)} ELSE {}]
    BY <1>2 DEF Propagate
  <2>2. state[c] = "busy" /\ state' = state
    BY <2>1 DEF Busy
  <2>3. m \in [Callers -> Models]
    BY ModelFacts DEF Due
  <2>4. \A d \in Callers : state[d] = "busy" <=> Busy(d)
    BY DEF Busy
  <2>5. skipped' = [d \in Callers |->
                      skipped[d] \cup IF d # c /\ state[d] = "busy" THEN {m[d]} ELSE {}]
    BY <2>1, <2>4
  <2>6. \E f \in [Callers -> Models] :
          skipped' = [d \in Callers |->
                        skipped[d] \cup IF d # c /\ state[d] = "busy" THEN {f[d]} ELSE {}]
    <3> HIDE DEF m, state
    <3> QED BY <2>3, <2>5
  <2> QED BY <2>1, <2>2, <2>6 DEF Promise!Rotate
<1> QED BY <1>1, <1>2

LEMMA StepRefines ==
  ASSUME TInv, RoundInv, RoundInv', [PoolNext]_poolVars
  PROVE  [Promise!Next]_(Promise!vars)
<1> USE DEF TInv, PoolTypeOK, Goto, retry, outer, Busy, Promise!vars
<1>1. ASSUME NEW c \in Callers, Call(c) PROVE Promise!Call(c)
  BY <1>1 DEF Call, Promise!Call
<1>2. ASSUME NEW c \in Callers, TryModel(c)
      PROVE  Promise!Try(c) \/ UNCHANGED Promise!vars
  <2>1. CASE idx \in asked[c]
    BY <1>2, <2>1 DEF TryModel, Begin
  <2>2. CASE idx \notin asked[c]
    <3> DEFINE untried == [d \in Callers |-> Models \ asked[d]]
    <3>1. idx \in untried[c]
      BY <2>2
    <3>2. untried' = [untried EXCEPT ![c] = @ \ {idx}]
      BY <1>2 DEF TryModel
    <3>3. /\ pc[c] = "loop" /\ pc' = [pc EXCEPT ![c] = "ask"]
          /\ UNCHANGED <<cancelled, skipped>>
      BY <1>2 DEF TryModel, Begin
    <3> HIDE DEF untried
    <3>4. \E m \in untried[c] : untried' = [untried EXCEPT ![c] = @ \ {m}]
      BY <3>1, <3>2
    <3> QED BY <3>3, <3>4 DEF untried, Promise!Try
  <2> QED BY <2>1, <2>2
<1>3. ASSUME NEW c \in Callers, GiveUp(c) PROVE Promise!Fail(c)
  <2>1. Models \ asked[c] \subseteq skipped[c] \/ cancelled[c]
    BY <1>3 DEF GiveUp, RoundInv, Remaining
  <2> QED BY <1>3, <2>1 DEF GiveUp, Promise!Fail
<1>4. ASSUME NEW c \in Callers, Succeed(c) PROVE Promise!Succeed(c)
  <2>1. Models \ asked[c] # Models
    BY <1>4 DEF Succeed, RoundInv
  <2> QED BY <1>4, <2>1 DEF Succeed, LeaveCall, Promise!Succeed, Promise!Leave
<1>5. ASSUME NEW c \in Callers, Wake(c) PROVE UNCHANGED Promise!vars
  BY <1>5 DEF Wake
<1>6. ASSUME NEW c \in Callers, Interrupted(c)
      PROVE  Promise!Rotate(c) \/ UNCHANGED Promise!vars
  BY <1>6, PropagateRefines DEF Interrupted
<1>7. ASSUME NEW c \in Callers, NEW e \in Errors, Backoff(c, e)
      PROVE  UNCHANGED Promise!vars
  BY <1>7 DEF Backoff
<1>8. ASSUME NEW c \in Callers, NEW e \in Errors, Fails(c, e)
      PROVE  Promise!Rotate(c) \/ UNCHANGED Promise!vars
  BY <1>8, PropagateRefines DEF Fails
<1>9. ASSUME NEW c \in Callers, Cancel(c) PROVE Promise!Stop(c)
  BY <1>9 DEF Cancel, Promise!Stop
<1>10. ASSUME NEW c \in Callers, Return(c) PROVE Promise!Return(c)
  BY <1>10 DEF Return, LeaveCall, Promise!Return, Promise!Leave
<1>11. CASE UNCHANGED poolVars
  BY <1>11 DEF poolVars
<1> QED
  BY <1>1, <1>2, <1>3, <1>4, <1>5, <1>6, <1>7, <1>8, <1>9, <1>10, <1>11
     DEF PoolNext, Progress, Possible, Promise!Next

\* Calls keep the promise of FailoverSpec, however many share a pool.
THEOREM KeepsThePromise == PoolSpec => KeepsPromise
<1>1. PoolInit => Promise!Init
  BY DEF PoolInit, Promise!Init, Busy
<1>2. TInv /\ RoundInv /\ [PoolNext]_poolVars => RoundInv'
  BY TypeStep, RoundStep
<1>3. TInv /\ RoundInv /\ RoundInv' /\ [PoolNext]_poolVars
        => [Promise!Next]_(Promise!vars)
  BY StepRefines
<1> QED
  BY <1>1, <1>2, <1>3, TypeInit, TypeStep, RoundInit, PTL
     DEF PoolSpec, KeepsPromise, Promise!Spec
=============================================================================
